------------------------------ MODULE DbgpProxy ------------------------------
(***************************************************************************)
(* The proxy at work (lib/proxy, lib/server, lib/command): debugger        *)
(* engines connect and are handed, by key, to the IDE that registered for  *)
(* that key.  One engine connection is served by one goroutine running     *)
(* ServerHandler.Handle; while an IDE is attached, a second goroutine      *)
(* copies what the IDE sends to the engine.  IDE commands (proxyinit,      *)
(* proxystop) run in goroutines of their own and meet the handlers in the  *)
(* ConnectionList.                                                         *)
(*                                                                         *)
(* With Cloud = FALSE the engines are Xdebug processes that connect to the *)
(* listening socket and debug once.  With Cloud = TRUE "the engine" is     *)
(* Xdebug Cloud, to which the proxy connects and which sends one init      *)
(* packet after the other over the same connection.                        *)
(***************************************************************************)
EXTENDS ConnectionList, Sequences

CONSTANTS
  Engines,     \* connections to debugger engines
  EngineKey,   \* the IDE key (or Cloud user id) in an engine's init packets
  Cloud,       \* the proxy was started with --cloud
  Streams,     \* the engine may send stream and notify packets unasked
  MaxSid,      \* bound: registrations attempted
  MaxPackets,  \* bound: init packets sent and IDE commands copied, per engine
  MaxWire      \* bound: unread packets that let an engine stream

ASSUME EngineKeyAssumption == EngineKey \in [Engines -> Keys]
\* The proxy has a single connection to Xdebug Cloud.
ASSUME ModeAssumption ==
  /\ Cloud \in BOOLEAN
  /\ Streams \in BOOLEAN
  /\ Cloud => \A e, f \in Engines : e = f
ASSUME BoundsAssumption ==
  MaxSid \in Nat /\ MaxPackets \in Nat /\ MaxWire \in Nat

VARIABLES
  nextSid,   \* identity of the next Connection
  pc,        \* where the handler goroutine of an engine connection is
  client,    \* Handle's `client': the Connection FindByKey returned
  failed,    \* setupForwarder is returning a non-nil error
  outcome,   \* what Handle returned
  outer,     \* packets read ahead by the reader of Handle
  inner,     \* packets read ahead by the reader of setupForwarder
  passed,    \* number of the last packet of this session read for the IDE
  connOpen,  \* the proxy has not closed its end of the engine connection
  engine,    \* state of the engine, the peer of that connection
  inbox,     \* commands the engine has still to answer
  wire,      \* packets on their way from the engine, none of them read yet
  sent,      \* number of packets the engine has sent, streams apart
  ide,       \* state of the connection to the IDE
  copier,    \* the goroutine of setupForwarder, with its serverChan
  signals,   \* Handle's signals channel holds an interrupt
  shutdown   \* main's signalShutdown channel holds a token

listVars == <<connections, nextSid>>
readers  == <<outer, inner, passed>>
ideVars  == <<ide, copier>>
peerVars == <<engine, inbox, sent>>
vars == <<listVars, pc, client, failed, outcome, readers, connOpen, peerVars,
          wire, ideVars, signals, shutdown>>

(***************************************************************************)
(* A packet is the data part of a message together with its length         *)
(* prefix.  Numbers follow the order of sending; a stream or notify packet *)
(* has number 0.  `done' is the response to detach or stop.                *)
(***************************************************************************)
Kinds == {"cloudinit", "init", "response", "done", "stream"}
Packet == [kind : Kinds, n : Nat]
Commands == {"run", "stop", "detach"}

Labels == {"idle", "cloudinit", "read", "dial", "forward", "closing",
           "remove", "detach", "await", "done"}
Outcomes == {"none", "nil", "readError", "unset", "refused"}

Init ==
  /\ ListInit
  /\ nextSid = 0
  /\ pc = [e \in Engines |-> "idle"]
  /\ client = [e \in Engines |-> NoConnection]
  /\ failed = [e \in Engines |-> FALSE]
  /\ outcome = [e \in Engines |-> "none"]
  /\ outer = [e \in Engines |-> <<>>]
  /\ inner = [e \in Engines |-> <<>>]
  /\ passed = [e \in Engines |-> 0]
  /\ connOpen = [e \in Engines |-> FALSE]
  /\ engine = [e \in Engines |-> "off"]
  /\ inbox = [e \in Engines |-> <<>>]
  /\ wire = [e \in Engines |-> <<>>]
  /\ sent = [e \in Engines |-> 0]
  /\ ide = [e \in Engines |-> "none"]
  /\ copier = [e \in Engines |-> "none"]
  /\ signals = [e \in Engines |-> FALSE]
  /\ shutdown = FALSE

Goto(e, label) == pc' = [pc EXCEPT ![e] = label]

-----------------------------------------------------------------------------
(* Reading (readResponse through a bufio.Reader).                          *)

\* How many packets the next read of e's socket may bring into a reader whose
\* buffer is buf: none while the buffer has one, else any that have arrived.
Fetch(buf, e) ==
  IF buf # <<>> THEN {0} ELSE {n \in 1..Len(wire[e]) : connOpen[e]}

\* The buffer after fetching n packets; its head is the packet returned.
Fetched(buf, e, n) == buf \o SubSeq(wire[e], 1, n)

TakeFromWire(e, n) ==
  wire' = [wire EXCEPT ![e] = SubSeq(@, n + 1, Len(@))]

NothingToRead(buf, e) == buf = <<>> /\ wire[e] = <<>>

\* The deadline of ReadResponseWithTimeout expires before a length arrives.
TimedOut(buf, e) ==
  NothingToRead(buf, e) /\ connOpen[e] /\ engine[e] # "closed"

\* Variant of EndOfFile that never sees one.
EndOfFileMissed(buf, e) == FALSE

\* The engine has closed its end and everything it sent has been read.
EndOfFile(buf, e) ==
  NothingToRead(buf, e) /\ connOpen[e] /\ engine[e] = "closed"

(***************************************************************************)
(* Handle returns: handleConnection closes the connection and, on an error *)
(* of the Cloud connection, asks main to shut the proxy down.              *)
(***************************************************************************)
Return(e, result) ==
  /\ Goto(e, "done")
  /\ outcome' = [outcome EXCEPT ![e] = result]
  /\ connOpen' = [connOpen EXCEPT ![e] = FALSE]
  /\ shutdown' = (shutdown \/ (Cloud /\ result \in {"readError", "unset"}))

Stay == UNCHANGED <<outcome, connOpen, shutdown>>

-----------------------------------------------------------------------------
(* ServerHandler.Handle.                                                   *)

\* Listen accepts an Xdebug connection and starts its handler.
Accept(e) ==
  /\ ~ Cloud
  /\ pc[e] = "idle"
  /\ Goto(e, "read")
  /\ connOpen' = [connOpen EXCEPT ![e] = TRUE]
  /\ engine' = [engine EXCEPT ![e] = "ready"]
  /\ UNCHANGED <<listVars, client, failed, outcome, readers, inbox, sent,
                 wire, ideVars, signals, shutdown>>

\* CloudConnect: dial Xdebug Cloud and send cloudinit, which Cloud answers.
CloudConnect(e) ==
  /\ Cloud
  /\ pc[e] = "idle"
  /\ \/ /\ Goto(e, "cloudinit")
        /\ connOpen' = [connOpen EXCEPT ![e] = TRUE]
        /\ engine' = [engine EXCEPT ![e] = "ready"]
        /\ wire' = [wire EXCEPT ![e] = <<[kind |-> "cloudinit", n |-> 0]>>]
        /\ UNCHANGED <<outcome, shutdown>>
     \/ Return(e, "refused") /\ UNCHANGED <<engine, wire>>
  /\ UNCHANGED <<listVars, client, failed, readers, inbox, sent, ideVars,
                 signals>>

\* CloudConnect has the reply: it starts the handler, or gives up and main
\* returns.  The reader of RunCommand goes away with whatever it read ahead.
CloudConnected(e) ==
  /\ pc[e] = "cloudinit"
  /\ \/ /\ \E n \in Fetch(<<>>, e) : TakeFromWire(e, n)
        /\ \/ Goto(e, "read") /\ Stay
           \/ Return(e, "refused")
     \/ /\ EndOfFile(<<>>, e)
        /\ Return(e, "refused")
        /\ UNCHANGED wire
  /\ UNCHANGED <<listVars, client, failed, readers, peerVars, ideVars, signals>>

\* Variant of ReadInit that looks at the packet before the signals.
ReadInitHeedless(e) ==
  /\ pc[e] = "read"
  /\ \E n \in Fetch(outer[e], e) :
       LET data == Fetched(outer[e], e, n)
           packet == Head(data)
       IN /\ outer' = [outer EXCEPT ![e] = Tail(data)]
          /\ TakeFromWire(e, n)
          /\ passed' = [passed EXCEPT ![e] = packet.n]
          /\ \/ /\ packet.kind # "init"
                /\ Return(e, "unset")
                /\ UNCHANGED client
             \/ /\ packet.kind = "init"
                /\ client' = [client EXCEPT ![e] = FindByKey(EngineKey[e])]
                /\ Goto(e, IF Registered(EngineKey[e]) THEN "dial" ELSE "detach")
                /\ Stay
  /\ UNCHANGED <<listVars, failed, inner, peerVars, ideVars, signals>>

\* The loop reads a packet it takes for an init and looks up its key.
ReadInit(e) ==
  /\ pc[e] = "read"
  /\ \E n \in Fetch(outer[e], e) :
       LET data == Fetched(outer[e], e, n)
           packet == Head(data)
       IN /\ outer' = [outer EXCEPT ![e] = Tail(data)]
          /\ TakeFromWire(e, n)
          /\ passed' = [passed EXCEPT ![e] = packet.n]
          /\ \/ /\ signals[e]
                /\ Return(e, "nil")
                /\ UNCHANGED client
             \/ /\ ~ signals[e]
                /\ packet.kind # "init"
                /\ Return(e, "unset")
                /\ UNCHANGED client
             \/ /\ ~ signals[e]
                /\ packet.kind = "init"
                /\ client' = [client EXCEPT ![e] = FindByKey(EngineKey[e])]
                /\ Goto(e, IF Registered(EngineKey[e]) THEN "dial" ELSE "detach")
                /\ Stay
  /\ signals' = [signals EXCEPT ![e] = FALSE]
  /\ UNCHANGED <<listVars, failed, inner, peerVars, ideVars>>

\* Variant of ReadStops that leaves the signals channel alone.
ReadStopsAtEndOfFile(e) ==
  /\ pc[e] = "read"
  /\ EndOfFile(outer[e], e)
  /\ Return(e, "nil")
  /\ UNCHANGED <<listVars, client, failed, readers, peerVars, wire, ideVars,
                 signals>>

\* The loop's read brings no packet, and the handler ends quietly: an interrupt
\* is waiting, or the engine has closed the connection.  Otherwise a timeout
\* just sends the loop round again.
ReadStops(e) ==
  /\ pc[e] = "read"
  /\ outer[e] = <<>>
  /\ signals[e] \/ EndOfFile(outer[e], e)
  /\ Return(e, "nil")
  /\ signals' = [signals EXCEPT ![e] = FALSE]
  /\ UNCHANGED <<listVars, client, failed, readers, peerVars, wire, ideVars>>

\* Any other error of the loop's read is returned: a reset, a packet whose data
\* is late, or the connection setupForwarder has closed.
ReadFails(e) ==
  /\ pc[e] = "read"
  /\ outer[e] = <<>>
  /\ ~ signals[e]
  /\ Return(e, "readError")
  /\ UNCHANGED <<listVars, client, failed, readers, peerVars, wire, ideVars,
                 signals>>

-----------------------------------------------------------------------------
(* ServerHandler.setupForwarder.                                           *)

\* Variant of DialFails that goes straight to the detach.
DialFailsDetaches(e) ==
  /\ pc[e] = "dial"
  /\ Goto(e, "detach")
  /\ Stay
  /\ UNCHANGED <<listVars, client, failed, readers, peerVars, wire, ideVars,
                 signals>>

\* connectToIDE fails, or writing the init packet to the IDE does.
DialFails(e) ==
  /\ pc[e] = "dial"
  /\ Goto(e, "remove")
  /\ Stay
  /\ UNCHANGED <<listVars, client, failed, readers, peerVars, wire, ideVars,
                 signals>>

\* The IDE has the init packet; the pipe starts in both directions.
DialSucceeds(e) ==
  /\ pc[e] = "dial"
  /\ Goto(e, "forward")
  /\ ide' = [ide EXCEPT ![e] = "open"]
  /\ copier' = [copier EXCEPT ![e] = "copying"]
  /\ Stay
  /\ UNCHANGED <<listVars, client, failed, readers, peerVars, wire, signals>>

\* setupForwarder returns: the deferred function closes the IDE connection and
\* then waits for the copier.
Unwind(e, err) ==
  /\ Goto(e, "closing")
  /\ failed' = [failed EXCEPT ![e] = err]
  /\ ide' = [ide EXCEPT ![e] = "closed"]

\* Variant of ForwardPacket that does not ask ShouldCloseConnection.
ForwardPacketNeverCloses(e) ==
  /\ pc[e] = "forward"
  /\ \E n \in Fetch(inner[e], e) :
       LET data == Fetched(inner[e], e, n)
       IN /\ inner' = [inner EXCEPT ![e] = Tail(data)]
          /\ TakeFromWire(e, n)
          /\ passed' = [passed EXCEPT ![e] =
                           IF Head(data).kind = "stream" THEN @ ELSE Head(data).n]
  /\ Stay
  /\ UNCHANGED <<listVars, pc, client, failed, outer, peerVars, ideVars, signals>>

\* A packet from the engine: passed on to the IDE, unless it ends the session.
\* An error of the write is ignored.
ForwardPacket(e) ==
  /\ pc[e] = "forward"
  /\ \E n \in Fetch(inner[e], e) :
       LET data == Fetched(inner[e], e, n)
           packet == Head(data)
       IN /\ inner' = [inner EXCEPT ![e] = Tail(data)]
          /\ TakeFromWire(e, n)
          /\ \/ /\ packet.kind = "done"
                /\ Unwind(e, FALSE)
                /\ UNCHANGED passed
             \/ /\ packet.kind # "done"
                /\ passed' = [passed EXCEPT ![e] =
                                IF packet.kind = "stream" THEN @ ELSE packet.n]
                /\ UNCHANGED <<pc, failed, ide>>
  /\ Stay
  /\ UNCHANGED <<listVars, client, outer, peerVars, copier, signals>>

\* Variant of ForwardTimeout that goes on without asking about the copier.
ForwardTimeoutContinues(e) ==
  /\ pc[e] = "forward"
  /\ TimedOut(inner[e], e)
  /\ UNCHANGED vars

\* Nothing from the engine for two seconds: has the copier ended?
ForwardTimeout(e) ==
  /\ pc[e] = "forward"
  /\ TimedOut(inner[e], e)
  /\ copier[e] \in {"failed", "ended"}
  /\ copier' = [copier EXCEPT ![e] = "ended"]
  /\ Unwind(e, TRUE)
  /\ Stay
  /\ UNCHANGED <<listVars, client, readers, peerVars, wire, signals>>

\* The end of the stream or any other error: the engine connection is closed.
ForwardError(e) ==
  /\ pc[e] = "forward"
  /\ inner[e] = <<>>
  /\ connOpen' = [connOpen EXCEPT ![e] = FALSE]
  /\ Unwind(e, FALSE)
  /\ UNCHANGED <<listVars, client, outcome, readers, peerVars, wire, copier,
                 signals, shutdown>>

\* Variant of Unwound that does not wait for the copier.
UnwoundAtOnce(e) ==
  /\ pc[e] = "closing"
  /\ Goto(e, IF failed[e] THEN "remove" ELSE "read")
  /\ ide' = [ide EXCEPT ![e] = "none"]
  /\ inner' = [inner EXCEPT ![e] = <<>>]
  /\ Stay
  /\ UNCHANGED <<listVars, client, failed, outer, passed, peerVars, wire,
                 copier, signals>>

\* The deferred receive from serverChan succeeds.  The reader of setupForwarder
\* goes away with the packets in its buffer.
Unwound(e) ==
  /\ pc[e] = "closing"
  /\ copier[e] \in {"failed", "ended"}
  /\ Goto(e, IF failed[e] THEN "remove" ELSE "read")
  /\ copier' = [copier EXCEPT ![e] = "none"]
  /\ ide' = [ide EXCEPT ![e] = "none"]
  /\ inner' = [inner EXCEPT ![e] = <<>>]
  /\ Stay
  /\ UNCHANGED <<listVars, client, failed, outer, passed, peerVars, wire,
                 signals>>

\* Variant of RemoveIDE that keeps the registration.
RemoveIDEForgotten(e) ==
  /\ pc[e] = "remove"
  /\ Goto(e, "detach")
  /\ Stay
  /\ UNCHANGED <<listVars, client, failed, readers, peerVars, wire, ideVars,
                 signals>>

\* Handle drops the registration of an IDE that failed.
RemoveIDE(e) ==
  /\ pc[e] = "remove"
  /\ \E ok \in BOOLEAN : RemoveByKey(EngineKey[e], ok)
  /\ Goto(e, "detach")
  /\ Stay
  /\ UNCHANGED <<nextSid, client, failed, readers, peerVars, wire, ideVars,
                 signals>>

-----------------------------------------------------------------------------
(* ServerHandler.sendDetach, through RunCommand.                           *)

\* A write to a connection that the engine has closed may still succeed.
SendDetach(e) ==
  /\ pc[e] = "detach"
  /\ \/ /\ connOpen[e]
        /\ inbox' = [inbox EXCEPT ![e] = Append(@, "detach")]
        /\ Goto(e, "await")
     \/ /\ engine[e] = "closed"
        /\ Goto(e, "read")
        /\ UNCHANGED inbox
  /\ Stay
  /\ UNCHANGED <<listVars, client, failed, readers, engine, sent, wire,
                 ideVars, signals>>

\* ReadResponse has no deadline.  It takes the next packet on the wire for the
\* reply, and its reader goes away with whatever it read beyond that.
AwaitReply(e) ==
  /\ pc[e] = "await"
  /\ \/ \E n \in Fetch(<<>>, e) : TakeFromWire(e, n)
     \/ EndOfFile(<<>>, e) /\ UNCHANGED wire
  /\ Goto(e, "read")
  /\ Stay
  /\ UNCHANGED <<listVars, client, failed, readers, peerVars, ideVars, signals>>

-----------------------------------------------------------------------------
(* The copying goroutine of setupForwarder, and the IDE it copies from.    *)

CopierVars == <<listVars, pc, client, failed, outcome, readers, connOpen,
                engine, sent, wire, signals, shutdown>>

\* io.Copy hands the engine a command of the IDE.  A command it had read before
\* the IDE left, or before setupForwarder closed the connection, still goes out.
CopyCommand(e) ==
  /\ copier[e] = "copying"
  /\ connOpen[e]
  /\ engine[e] # "closed"
  /\ sent[e] + Len(inbox[e]) < MaxPackets
  /\ \E command \in {"run", "stop"} :
       inbox' = [inbox EXCEPT ![e] = Append(@, command)]
  /\ UNCHANGED <<CopierVars, ideVars>>

\* io.Copy returns: nil when the IDE has left, and serverChan is closed, or an
\* error, which waits for its receiver.
CopyEnds(e) ==
  /\ copier[e] = "copying"
  /\ \/ ide[e] = "left" /\ copier' = [copier EXCEPT ![e] = "ended"]
     \/ /\ ide[e] # "open" \/ engine[e] = "closed" \/ ~ connOpen[e]
        /\ copier' = [copier EXCEPT ![e] = "failed"]
  /\ UNCHANGED <<CopierVars, inbox, ide>>

\* The IDE closes its connection, or crashes.
IDELeaves(e) ==
  /\ ide[e] = "open"
  /\ ide' = [ide EXCEPT ![e] = "left"]
  /\ UNCHANGED <<CopierVars, inbox, copier>>

-----------------------------------------------------------------------------
(* ClientHandler: the commands of IDEs.                                    *)

CommandVars == <<pc, client, failed, outcome, readers, connOpen, peerVars,
                 wire, ideVars, signals, shutdown>>

\* main starts the listeners for IDEs after CloudConnect has succeeded.
Listening ==
  Cloud => \A e \in Engines : /\ pc[e] \notin {"idle", "cloudinit"}
                              /\ outcome[e] # "refused"

\* ProxyInitCommand.Handle.
ProxyInit(k) ==
  /\ Listening
  /\ nextSid < MaxSid
  /\ \E ok \in BOOLEAN : Add([ideKey |-> k, sid |-> nextSid], ok)
  /\ nextSid' = nextSid + 1
  /\ UNCHANGED CommandVars

\* ProxyStopCommand.Handle.
ProxyStop(k) ==
  /\ Listening
  /\ \E ok \in BOOLEAN : RemoveByKey(k, ok)
  /\ UNCHANGED <<nextSid, CommandVars>>

-----------------------------------------------------------------------------
(* The engine.  Xdebug and Xdebug Cloud are not part of the repository:    *)
(* they are modelled from what the proxy expects of them.                  *)

EngineVars == <<listVars, pc, client, failed, outcome, readers, connOpen,
                ideVars, signals, shutdown>>

Send(e, kind) ==
  /\ wire' = [wire EXCEPT ![e] = Append(@, [kind |-> kind, n |-> sent[e] + 1])]
  /\ sent' = [sent EXCEPT ![e] = @ + 1]

\* A debugging session starts.
EngineInit(e) ==
  /\ engine[e] = "ready"
  /\ pc[e] # "cloudinit"
  /\ inbox[e] = <<>>
  /\ sent[e] < MaxPackets
  /\ Send(e, "init")
  /\ engine' = [engine EXCEPT ![e] = "debugging"]
  /\ UNCHANGED <<EngineVars, inbox>>

\* The engine answers one command.  Stop and detach end the session: Cloud goes
\* on to the next one, Xdebug closes the connection.  Cloud answers a command
\* that reaches it between two sessions with an error.
Answer(e) ==
  /\ engine[e] \in {"ready", "debugging"}
  /\ inbox[e] # <<>>
  /\ LET ends == engine[e] = "debugging" /\ Head(inbox[e]) # "run"
     IN /\ Send(e, IF ends THEN "done" ELSE "response")
        /\ engine' = [engine EXCEPT ![e] =
                        IF ~ ends THEN @ ELSE IF Cloud THEN "ready" ELSE "closed"]
        /\ inbox' = [inbox EXCEPT ![e] =
                       IF ends /\ ~ Cloud THEN <<>> ELSE Tail(@)]
  /\ UNCHANGED EngineVars

\* Output of the script, or a notification.
Stream(e) ==
  /\ Streams
  /\ engine[e] = "debugging"
  /\ Len(wire[e]) < MaxWire
  /\ wire' = [wire EXCEPT ![e] = Append(@, [kind |-> "stream", n |-> 0])]
  /\ UNCHANGED <<EngineVars, peerVars>>

\* The engine dies or its network does; a tail of what it sent may be lost.
Hangup(e) ==
  /\ engine[e] \in {"ready", "debugging"}
  /\ engine' = [engine EXCEPT ![e] = "closed"]
  /\ inbox' = [inbox EXCEPT ![e] = <<>>]
  /\ \E n \in 0..Len(wire[e]) : wire' = [wire EXCEPT ![e] = SubSeq(@, 1, n)]
  /\ UNCHANGED <<EngineVars, sent>>

\* SIGINT, or once a handler runs SIGTERM: every handler's channel gets it.
Interrupt ==
  /\ signals' = [e \in Engines |->
                   pc[e] \notin {"idle", "cloudinit", "done"} \/ signals[e]]
  /\ UNCHANGED <<listVars, pc, client, failed, outcome, readers, connOpen,
                 peerVars, wire, ideVars, shutdown>>

-----------------------------------------------------------------------------
HandlerStep(e) ==
  \/ ReadInit(e) \/ ReadStops(e)
  \/ DialFails(e) \/ DialSucceeds(e)
  \/ ForwardPacket(e) \/ ForwardTimeout(e) \/ Unwound(e)
  \/ RemoveIDE(e) \/ SendDetach(e) \/ AwaitReply(e)

CopierStep(e) == CopyCommand(e) \/ CopyEnds(e)

EngineStep(e) == EngineInit(e) \/ Answer(e) \/ Stream(e) \/ Hangup(e)

Next ==
  \/ \E e \in Engines :
       \/ Accept(e) \/ CloudConnect(e) \/ CloudConnected(e)
       \/ HandlerStep(e) \/ ReadFails(e) \/ ForwardError(e)
       \/ CopierStep(e) \/ IDELeaves(e) \/ EngineStep(e)
  \/ \E k \in Keys : ProxyInit(k) \/ ProxyStop(k)
  \/ Interrupt

Spec == Init /\ [][Next]_vars

(***************************************************************************)
(* Goroutines that can run do run, a read that finds nothing times out, an *)
(* end of file is seen, the copier notices that its IDE connection is gone *)
(* and an engine answers.  Nothing makes an engine or an IDE leave.        *)
(***************************************************************************)
Fairness ==
  \A e \in Engines :
    /\ WF_vars(CloudConnected(e))
    /\ WF_vars(HandlerStep(e))
    /\ WF_vars(ReadFails(e) /\ ~ connOpen[e])
    /\ WF_vars(ForwardError(e) /\ EndOfFile(inner[e], e))
    /\ WF_vars(CopyEnds(e) /\ ide[e] # "open")
    /\ WF_vars(Answer(e))

FairSpec == Spec /\ Fairness

-----------------------------------------------------------------------------
(* Type invariant.                                                         *)

\* Every variable has its type.
TypeOK ==
  /\ ListTypeOK
  /\ nextSid \in Nat
  /\ pc \in [Engines -> Labels]
  /\ client \in [Engines -> Connection \cup {NoConnection}]
  /\ failed \in [Engines -> BOOLEAN]
  /\ outcome \in [Engines -> Outcomes]
  /\ outer \in [Engines -> Seq(Packet)]
  /\ inner \in [Engines -> Seq(Packet)]
  /\ passed \in [Engines -> Nat]
  /\ connOpen \in [Engines -> BOOLEAN]
  /\ engine \in [Engines -> {"off", "ready", "debugging", "closed"}]
  /\ inbox \in [Engines -> Seq(Commands)]
  /\ wire \in [Engines -> Seq(Packet)]
  /\ sent \in [Engines -> Nat]
  /\ ide \in [Engines -> {"none", "open", "left", "closed"}]
  /\ copier \in [Engines -> {"none", "copying", "failed", "ended"}]
  /\ signals \in [Engines -> BOOLEAN]
  /\ shutdown \in BOOLEAN

-----------------------------------------------------------------------------
(* Safety.                                                                 *)

\* The goroutine that copies from the IDE never outlives setupForwarder: once
\* the handler is back in its loop, or about to detach, no IDE can reach the
\* engine any more, and while the copier runs the handler is forwarding or is
\* waiting for it (the deferred function of setupForwarder).
CopierConfined ==
  \A e \in Engines :
    /\ copier[e] # "none" => pc[e] \in {"forward", "closing"}
    /\ pc[e] = "forward" => copier[e] # "none" /\ ide[e] \in {"open", "left"}
    /\ pc[e] \in {"read", "dial", "remove", "detach", "await"} =>
         ide[e] = "none" /\ inner[e] = <<>>

\* A handler dials and forwards to an IDE that registered for its engine's key,
\* a registration is filed under its own key only, and none is newer than the
\* last that was made (FindByKey, Add).
RouteByKey ==
  /\ \A k \in Keys : Registered(k) =>
       connections[k].ideKey = k /\ connections[k].sid < nextSid
  /\ \A e \in Engines : client[e] # NoConnection =>
       client[e].ideKey = EngineKey[e] /\ client[e].sid < nextSid
  /\ \A e \in Engines :
       pc[e] \in {"dial", "forward", "closing", "remove"} =>
         client[e] # NoConnection

\* By the time a handler detaches its engine because the IDE failed, the
\* registration of that IDE is gone and cannot come back: the next session for
\* the key does not try the dead IDE again (Handle's RemoveByKey).
FailedIDEGone ==
  \A e \in Engines :
    (pc[e] \in {"detach", "await"} /\ client[e] # NoConnection) =>
      connections[EngineKey[e]] # client[e]

\* A key never passes from one registration straight to another: the second
\* proxyinit for a key fails until somebody removes the first registration.
NoTakeover ==
  [][\A k \in Keys : Registered(k) =>
       connections'[k] \in {connections[k], NoConnection}]_vars

\* Handle's reader has read no more than output beyond the init.
NothingReadAhead(e) == \A i \in 1..Len(outer[e]) : outer[e][i].kind = "stream"

\* What an IDE is sent is the session it was dialled for, whole and in order:
\* each numbered packet follows the one before it, starting with the init, and
\* all are responses, never the init of another session.  Cloud sends many of
\* them over one connection, and two readers take turns on it: there it takes
\* that the first has not read a packet meant for the second (Handle,
\* setupForwarder).
ForwardsOwnSession ==
  [][\A e \in Engines :
       (pc[e] = "forward" /\ passed'[e] # passed[e] /\ (Cloud => NothingReadAhead(e))) =>
         /\ passed'[e] = passed[e] + 1
         /\ Head(inner[e] \o wire[e]).kind = "response"]_vars

\* The number of a registration, as IDERouting counts them.
Number(c) == IF c = NoConnection THEN 0 ELSE c.sid + 1

\* The IDE's side of a session, by where the handler is.
SessionOf(e) ==
  IF pc[e] = "dial" THEN "calling"
  ELSE IF pc[e] = "remove" \/ (pc[e] = "closing" /\ failed[e]) THEN "broken"
  ELSE IF pc[e] \in {"forward", "closing"} THEN "debugging"
  ELSE "none"

Routing == INSTANCE IDERouting WITH
  last <- nextSid,
  ide <- [k \in Keys |-> Number(connections[k])],
  serving <- [e \in Engines |->
               IF SessionOf(e) = "none" THEN 0 ELSE Number(client[e])],
  session <- [e \in Engines |-> SessionOf(e)]

\* Handlers, copiers, timeouts and the commands of IDEs, in whatever order, amount
\* to what IDERouting promises: in particular a session that fails for whatever
\* reason takes the registration with it, one that ends in good order leaves it
\* alone, and what is gone does not come back (Handle, setupForwarder).
ImplementsRouting == Routing!Spec

\* A handler's stage, as HandlerContract tells them apart.
StageOf(e) ==
  IF pc[e] \in {"idle", "cloudinit"} \/ outcome[e] = "refused" THEN "off"
  ELSE IF pc[e] = "read" THEN "waiting"
  ELSE IF pc[e] # "done" THEN "busy"
  ELSE IF Cloud /\ outcome[e] \in {"readError", "unset"} THEN "failed"
  ELSE "returned"

Handler == INSTANCE HandlerContract WITH
  Handlers <- Engines,
  Reporting <- {e \in Engines : Cloud},
  stage <- [e \in Engines |-> StageOf(e)],
  pending <- [e \in Engines |-> StageOf(e) \in {"waiting", "busy"} /\ signals[e]]

\* To the program around them the handlers are what HandlerContract says: an
\* interrupt that arrives while one dials, forwards or detaches is not lost, and
\* is seen before the packet that the handler reads next, even if that packet is
\* an error (the select in Handle's loop).
ImplementsHandler == Handler!Spec

-----------------------------------------------------------------------------
(* Liveness, under FairSpec.                                               *)

\* An engine whose IDE has left does not stay attached to the corpse: once the
\* engine falls silent the session is given up (the timeouts of setupForwarder's
\* loop).  An engine that streams for ever never is: writes to the IDE that fail
\* are ignored.
OrphanReleased ==
  \A e \in Engines :
    <>[](wire[e] = <<>>) => ((pc[e] = "forward" /\ ide[e] = "left") ~> pc[e] # "forward")

\* Once the engine is gone its handler ends, wherever it was waiting.
HandlerEnds == \A e \in Engines : engine[e] = "closed" ~> pc[e] = "done"

\* A handler that waits for an init packet heeds an interrupt.
InterruptHeeded ==
  \A e \in Engines : (signals[e] /\ pc[e] = "read") ~> pc[e] = "done"

-----------------------------------------------------------------------------
(* What the source says and the code does not do; each is refuted by a run. *)

\* client.go:105: when a session is over the caller will "read next init packet
\* from cloud", so the reader that is thrown away must not hold one.
NextInitStillReadable ==
  \A e \in Engines : pc[e] = "closing" =>
    \A i \in 1..Len(inner[e]) : inner[e][i].kind # "init"

\* client.go:174: when the IDE fails, Cloud is "released" and the handler waits
\* for the next init; it does not give up a Cloud connection that is alive over
\* an answer that it takes for an init (AwaitReply takes the first packet it
\* sees for the reply to detach, ReadInit meets the real reply).
ReleaseKeepsCloud ==
  \A e \in Engines : outcome[e] = "unset" => engine[e] = "closed"

=============================================================================
