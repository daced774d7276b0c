--------------------------- MODULE ProxyLifecycle ---------------------------
(***************************************************************************)
(* How dbgpProxy starts and stops (dbgpProxy/main.go, lib/server).  main   *)
(* starts a goroutine per listening socket, each of which starts one per   *)
(* connection, and all of them count themselves in one WaitGroup.  An      *)
(* interrupt, or the failure of the Cloud handler, makes main set the stop *)
(* flag of every server and wait for the group.                            *)
(*                                                                         *)
(* What a handler does is reduced to whether it is in the loop of          *)
(* ServerHandler.Handle, where it heeds interrupts, or in a session (or an *)
(* IDE command), where it waits for its peer; DbgpProxy has the detail.    *)
(***************************************************************************)
EXTENDS Integers, FiniteSets, Responses

CONSTANTS
  EngineListeners,  \* servers for debugger engines (server, server-ssl)
  IDEListeners,     \* servers for IDEs (client, client-ssl)
  SSLListeners,     \* those of them that use SSL
  EngineConns,      \* connections that engines may make
  IDEConns,         \* connections that IDEs may make
  CloudConns,       \* the connection to Xdebug Cloud
  MaxSignals        \* bound: signals sent to the process

Listeners == EngineListeners \cup IDEListeners
Conns == EngineConns \cup IDEConns \cup CloudConns

ASSUME ServersAssumption ==
  /\ IsFiniteSet(Listeners) /\ IsFiniteSet(Conns)
  /\ EngineListeners \cap IDEListeners = {}
  /\ IDEListeners \ SSLListeners # {}
  /\ EngineConns \cap IDEConns = {}
  /\ CloudConns \cap (EngineConns \cup IDEConns) = {}
ASSUME CloudAssumption == \E c \in CloudConns : CloudConns = {c}
ASSUME MaxSignalsAssumption == MaxSignals \in Nat

VARIABLES
  cloud,       \* --cloud: main connects to Cloud and has no servers for engines
  ssl,         \* enableSSLServers: there is a certificate
  main,        \* where main is
  listener,    \* where the goroutine of a listening server is
  stop,        \* Server.stop
  group,       \* the counter of syncGroup
  conn,        \* where the goroutine of a connection is
  signals,     \* the signals channel of a handler, once it has one
  mainSignal,  \* main's signals channel holds a signal
  shutdown,    \* signalShutdown holds a token
  sent         \* signals sent so far

channels == <<signals, mainSignal, shutdown>>
options == <<cloud, ssl>>
vars == <<options, main, listener, stop, group, conn, channels, sent>>

MainLabels == {"unregister", "resolve", "connect", "spawn", "notify", "select", "stop", "wait",
               "exit", "failed", "dead"}
ListenerLabels == {"off", "spawned", "check", "accept", "done"}
ConnLabels == {"none", "spawned", "waiting", "session", "failing", "leaving",
               "closing", "done"}

\* The process is alive: every goroutine ends when main returns, when one of
\* them panics and when a signal that nobody asked for arrives.
Running == main \notin {"exit", "failed", "dead"}

\* The servers that main starts, and stops in the end.
Servers ==
  (IDEListeners \cup (IF cloud THEN {} ELSE EngineListeners))
    \ (IF ssl THEN {} ELSE SSLListeners)

Init ==
  /\ cloud \in BOOLEAN
  /\ ssl \in BOOLEAN
  /\ main \in IF cloud THEN {"unregister", "resolve"} ELSE {"spawn"}
  /\ listener = [s \in Listeners |-> "off"]
  /\ stop = [s \in Listeners |-> FALSE]
  /\ group = 0
  /\ conn = [c \in Conns |-> "none"]
  /\ signals = [c \in Conns |-> "none"]
  /\ mainSignal = FALSE
  /\ shutdown = FALSE
  /\ sent = 0

-----------------------------------------------------------------------------
(* main.                                                                   *)

\* UnregisterCloudClient (--discloud) takes a user off the Cloud first.  Whether it
\* can be reached, and what it replies, makes no difference.
Unregister ==
  /\ main = "unregister"
  /\ main' = "resolve"
  /\ UNCHANGED <<options, listener, stop, group, conn, channels, sent>>

\* resolveTCP for the host of the Cloud user; it panics on an address that it
\* cannot resolve.
Resolve ==
  /\ main = "resolve"
  /\ main' \in {"connect", "dead"}
  /\ UNCHANGED <<options, listener, stop, group, conn, channels, sent>>

\* CloudConnect dials and has RunCommand send cloudinit.  It fails if the dial,
\* the write or the read does, or for the sake of the reply.
CloudConnect(reply) ==
  /\ main = "connect"
  /\ \/ main' = "failed" /\ UNCHANGED conn  \* also if the result is "error"
     \/ /\ RunCommandResult(reply) = "nil"
        /\ main' = "spawn"
        /\ conn' = [c \in Conns |-> IF c \in CloudConns THEN "spawned" ELSE conn[c]]
     \/ /\ RunCommandResult(reply) = "panic"
        /\ main' = "dead"
        /\ UNCHANGED conn
  /\ UNCHANGED <<options, listener, stop, group, channels, sent>>

\* NewServer and `go Listen', or ListenSSL: the servers for engines come first.
\* An address that cannot be resolved is a panic.
Spawn(s) ==
  /\ main = "spawn"
  /\ s \in Servers
  /\ listener[s] = "off"
  /\ s \in IDEListeners => \A r \in Servers \ IDEListeners : listener[r] # "off"
  /\ \/ /\ listener' = [listener EXCEPT ![s] = "spawned"]
        /\ main' = IF \A r \in Servers \ {s} : listener[r] # "off"
                     THEN "notify" ELSE main
     \/ main' = "dead" /\ UNCHANGED listener
  /\ UNCHANGED <<options, stop, group, conn, channels, sent>>

\* main asks for interrupts only now.
Notify ==
  /\ main = "notify"
  /\ main' = "select"
  /\ UNCHANGED <<options, listener, stop, group, conn, channels, sent>>

Wake ==
  /\ main = "select"
  /\ \/ mainSignal /\ mainSignal' = FALSE /\ UNCHANGED shutdown
     \/ shutdown /\ shutdown' = FALSE /\ UNCHANGED mainSignal
  /\ main' = "stop"
  /\ UNCHANGED <<options, listener, stop, group, conn, signals, sent>>

\* Variant of Stop that forgets the servers that use SSL.
StopPlainOnly(s) ==
  /\ main = "stop"
  /\ s \in Servers \ SSLListeners
  /\ ~ stop[s]
  /\ stop' = [stop EXCEPT ![s] = TRUE]
  /\ main' = IF \A r \in Servers \ (SSLListeners \cup {s}) : stop[r] THEN "wait" ELSE main
  /\ UNCHANGED <<options, listener, group, conn, channels, sent>>

\* Server.Stop, the servers for IDEs first.  The flag is written and read
\* without synchronisation; a listener reads it afresh in each round, so the
\* race costs it a round at most, as if Stop had come that much later.
Stop(s) ==
  /\ main = "stop"
  /\ s \in Servers
  /\ ~ stop[s]
  /\ s \in EngineListeners => \A r \in Servers \cap IDEListeners : stop[r]
  /\ stop' = [stop EXCEPT ![s] = TRUE]
  /\ main' = IF \A r \in Servers \ {s} : stop[r] THEN "wait" ELSE main
  /\ UNCHANGED <<options, listener, group, conn, channels, sent>>

\* Variant of Exit that does not wait.
ExitAtOnce ==
  /\ main = "wait"
  /\ main' = "exit"
  /\ UNCHANGED <<options, listener, stop, group, conn, channels, sent>>

\* syncGroup.Wait returns and so does main.
Exit ==
  /\ main = "wait"
  /\ group = 0
  /\ main' = "exit"
  /\ UNCHANGED <<options, listener, stop, group, conn, channels, sent>>

-----------------------------------------------------------------------------
(* Server.Listen and ListenSSL.                                            *)

\* The goroutine counts itself and binds its socket, or panics.
ListenerStarts(s) ==
  /\ Running
  /\ listener[s] = "spawned"
  /\ group' = group + 1
  /\ \/ listener' = [listener EXCEPT ![s] = "check"] /\ UNCHANGED main
     \/ main' = "dead" /\ UNCHANGED listener
  /\ UNCHANGED <<options, stop, conn, channels, sent>>

\* The top of the loop: on stop it closes the socket and signs off.
CheckStop(s) ==
  /\ Running
  /\ listener[s] = "check"
  /\ IF stop[s]
       THEN /\ listener' = [listener EXCEPT ![s] = "done"]
            /\ group' = group - 1
       ELSE /\ listener' = [listener EXCEPT ![s] = "accept"]
            /\ UNCHANGED group
  /\ UNCHANGED <<options, main, stop, conn, channels, sent>>

\* AcceptTCP and `go handleConnection'.
Accept(s, c) ==
  /\ Running
  /\ listener[s] = "accept"
  /\ conn[c] = "none"
  /\ \/ s \in EngineListeners /\ c \in EngineConns
     \/ s \in IDEListeners /\ c \in IDEConns
  /\ listener' = [listener EXCEPT ![s] = "check"]
  /\ conn' = [conn EXCEPT ![c] = "spawned"]
  /\ UNCHANGED <<options, main, stop, group, channels, sent>>

\* Two seconds without a connection, or another error.
AcceptFails(s) ==
  /\ Running
  /\ listener[s] = "accept"
  /\ listener' = [listener EXCEPT ![s] = "check"]
  /\ UNCHANGED <<options, main, stop, group, conn, channels, sent>>

-----------------------------------------------------------------------------
(* Server.handleConnection around the Handle of its handler.               *)

\* Variant of HandlerStarts that does not count itself.
HandlerStartsUncounted(c) ==
  /\ Running
  /\ conn[c] = "spawned"
  /\ conn' = [conn EXCEPT ![c] = IF c \in IDEConns THEN "session" ELSE "waiting"]
  /\ signals' = [signals EXCEPT ![c] = IF c \in IDEConns THEN @ ELSE "empty"]
  /\ UNCHANGED <<options, main, listener, stop, group, mainSignal, shutdown, sent>>

\* The goroutine counts itself; ServerHandler.Handle asks for signals.
HandlerStarts(c) ==
  /\ Running
  /\ conn[c] = "spawned"
  /\ group' = group + 1
  /\ conn' = [conn EXCEPT ![c] = IF c \in IDEConns THEN "session" ELSE "waiting"]
  /\ signals' = [signals EXCEPT ![c] = IF c \in IDEConns THEN @ ELSE "empty"]
  /\ UNCHANGED <<options, main, listener, stop, mainSignal, shutdown, sent>>

\* Variant of Session that does not look for an interrupt.
SessionHeedless(c) ==
  /\ Running
  /\ c \notin IDEConns
  /\ \/ conn[c] = "waiting" /\ conn' = [conn EXCEPT ![c] = "session"]
     \/ conn[c] = "session" /\ conn' = [conn EXCEPT ![c] = "waiting"]
  /\ UNCHANGED <<options, main, listener, stop, group, channels, sent>>

\* An init packet takes the handler into a session, and the end of that back to
\* the loop, which looks for an interrupt before it acts on a packet.
Session(c) ==
  /\ Running
  /\ c \notin IDEConns
  /\ \/ /\ conn[c] = "waiting"
        /\ signals[c] = "empty"
        /\ conn' = [conn EXCEPT ![c] = "session"]
     \/ /\ conn[c] = "session"
        /\ conn' = [conn EXCEPT ![c] = "waiting"]
  /\ UNCHANGED <<options, main, listener, stop, group, channels, sent>>

\* Handle returns.  The error of the handler of the Cloud connection is for
\* main; any other is only logged.
Returns(c) ==
  /\ Running
  /\ \/ conn[c] = "waiting"
     \/ conn[c] = "session" /\ c \in IDEConns
  /\ signals' = [signals EXCEPT ![c] = IF @ = "full" THEN "empty" ELSE @]
  /\ \/ conn' = [conn EXCEPT ![c] = "leaving"]
     \/ /\ c \in CloudConns
        /\ signals[c] # "full"
        /\ conn' = [conn EXCEPT ![c] = "failing"]
  /\ UNCHANGED <<options, main, listener, stop, group, mainSignal, shutdown, sent>>

\* Variant of Report that keeps the failure to itself.
ReportNothing(c) ==
  /\ Running
  /\ conn[c] = "failing"
  /\ conn' = [conn EXCEPT ![c] = "leaving"]
  /\ UNCHANGED <<options, main, listener, stop, group, channels, sent>>

\* `shutdownSignal <- 1', which would wait while the channel is full.
Report(c) ==
  /\ Running
  /\ conn[c] = "failing"
  /\ ~ shutdown
  /\ shutdown' = TRUE
  /\ conn' = [conn EXCEPT ![c] = "leaving"]
  /\ UNCHANGED <<options, main, listener, stop, group, signals, mainSignal, sent>>

\* Variant of Done that forgets the WaitGroup.
DoneUncounted(c) ==
  /\ Running
  /\ conn[c] = "leaving"
  /\ conn' = [conn EXCEPT ![c] = "closing"]
  /\ UNCHANGED <<options, main, listener, stop, group, channels, sent>>

\* The deferred calls: Done runs before the connection is closed.
Done(c) ==
  /\ Running
  /\ conn[c] = "leaving"
  /\ group' = group - 1
  /\ conn' = [conn EXCEPT ![c] = "closing"]
  /\ UNCHANGED <<options, main, listener, stop, channels, sent>>

CloseConnection(c) ==
  /\ Running
  /\ conn[c] = "closing"
  /\ conn' = [conn EXCEPT ![c] = "done"]
  /\ UNCHANGED <<options, main, listener, stop, group, channels, sent>>

-----------------------------------------------------------------------------
(***************************************************************************)
(* A signal goes to every channel that asked for it: handlers ask for      *)
(* SIGINT and SIGTERM and never withdraw, main for SIGINT.  One that       *)
(* nobody has asked for kills the process.                                 *)
(***************************************************************************)
Signal(kind) ==
  LET asked == {c \in Conns : signals[c] # "none"}
      toMain == kind = "INT" /\ main \in {"select", "stop", "wait"}
  IN /\ Running
     /\ sent < MaxSignals
     /\ sent' = sent + 1
     /\ main' = IF asked = {} /\ ~ toMain THEN "dead" ELSE main
     /\ mainSignal' = (mainSignal \/ toMain)
     /\ signals' = [c \in Conns |-> IF c \in asked THEN "full" ELSE signals[c]]
     /\ UNCHANGED <<options, listener, stop, group, conn, shutdown>>

-----------------------------------------------------------------------------
MainStep == Notify \/ Wake \/ Exit \/ \E s \in Listeners : Spawn(s) \/ Stop(s)

ListenerStep(s) == ListenerStarts(s) \/ CheckStop(s) \/ AcceptFails(s)

HandlerStep(c) ==
  HandlerStarts(c) \/ Report(c) \/ Done(c) \/ CloseConnection(c)

Next ==
  \/ Unregister \/ Resolve
  \/ \E reply \in Document : CloudConnect(reply)
  \/ MainStep
  \/ \E s \in Listeners : ListenerStep(s) \/ \E c \in Conns : Accept(s, c)
  \/ \E c \in Conns : HandlerStep(c) \/ Session(c) \/ Returns(c)
  \/ \E kind \in {"INT", "TERM"} : Signal(kind)

Spec == Init /\ [][Next]_vars

(***************************************************************************)
(* Goroutines that can run do run, accept times out, and every engine and  *)
(* IDE hangs up some day, after which its handler returns even if it has   *)
(* missed the interrupt.                                                   *)
(***************************************************************************)
Fairness ==
  /\ WF_vars(MainStep)
  /\ \A s \in Listeners : WF_vars(ListenerStep(s))
  /\ \A c \in Conns : WF_vars(HandlerStep(c)) /\ WF_vars(Session(c)) /\ SF_vars(Returns(c))

FairSpec == Spec /\ Fairness

-----------------------------------------------------------------------------
\* Every variable has its type.
TypeOK ==
  /\ cloud \in BOOLEAN /\ ssl \in BOOLEAN
  /\ main \in MainLabels
  /\ listener \in [Listeners -> ListenerLabels]
  /\ stop \in [Listeners -> BOOLEAN]
  /\ group \in Nat
  /\ conn \in [Conns -> ConnLabels]
  /\ signals \in [Conns -> {"none", "empty", "full"}]
  /\ mainSignal \in BOOLEAN
  /\ shutdown \in BOOLEAN
  /\ sent \in 0..MaxSignals

\* The goroutines between their Add and their Done.
CountedListeners == {s \in Listeners : listener[s] \in {"check", "accept"}}
CountedConns == {c \in Conns : conn[c] \in {"waiting", "session", "failing", "leaving"}}

\* While the process runs the WaitGroup counts exactly the goroutines that have
\* signed on and not yet off, so no Done makes it negative (handleConnection,
\* Listen).
GroupCounts ==
  Running => group = Cardinality(CountedListeners) + Cardinality(CountedConns)

\* main does not return, and thereby end the process, under a handler or a
\* listener that has signed on (syncGroup.Wait).
WaitsForCounted == main = "exit" => CountedListeners = {} /\ CountedConns = {}

\* The connections that a ServerHandler serves.
Served == EngineConns \cup CloudConns

\* A handler's stage, as HandlerContract tells them apart.
StageOf(c) ==
  IF conn[c] \in {"none", "spawned"} THEN "off"
  ELSE IF conn[c] = "waiting" THEN "waiting"
  ELSE IF conn[c] = "session" THEN "busy"
  ELSE IF conn[c] = "failing" THEN "failed"
  ELSE "returned"

Handler == INSTANCE HandlerContract WITH
  Handlers <- Served,
  Reporting <- CloudConns,
  stage <- [c \in Served |-> StageOf(c)],
  pending <- [c \in Served |-> StageOf(c) \in {"waiting", "busy"} /\ signals[c] = "full"]

\* What is assumed of handlers here is what DbgpProxy has them do
\* (ServerHandler.Handle between handleConnection and the signals).
ImplementsHandler == Handler!Spec

-----------------------------------------------------------------------------
\* Once main waits for the group it returns, whatever was accepted meanwhile.
WaitEnds == main = "wait" ~> ~ Running

\* An interrupt that reaches main stops the proxy.
InterruptStops == (main = "select" /\ mainSignal) ~> ~ Running

\* The failure of the Cloud handler stops the proxy as well, whatever main is
\* doing at that moment (shutdownSignal).
CloudFailureStops == \A c \in Conns : conn[c] = "failing" ~> ~ Running

-----------------------------------------------------------------------------
(* What the source says and the code does not do; which a run refutes. *)

\* dbgp-client.go:392-394: a reply to cloudinit that cannot be interpreted is an
\* error that main reports, and does not end the process otherwise.
UnreadableReplyReported ==
  [][main = "connect" => main' \in {"connect", "spawn", "failed"}]_vars

=============================================================================
