----------------------------- MODULE Registration -----------------------------
(***************************************************************************)
(* IDEs come and go (dbgpClient/proxy.go, lib/proxy/server.go,             *)
(* lib/protocol/dbgp-server.go, lib/command): an IDE process told to       *)
(* register (-r) or unregister (-u) connects to the proxy, sends a command *)
(* and waits for the reply; a goroutine of the proxy reads the command,    *)
(* carries it out on the ConnectionList and replies.  A command it does    *)
(* not understand gets no reply, the connection is closed.  Meanwhile the  *)
(* handlers of engines drop registrations whose IDE has failed             *)
(* (DbgpProxy).                                                            *)
(***************************************************************************)
EXTENDS ConnectionList, CommandLine, Responses, FiniteSets

CONSTANTS
  Clients,   \* IDE processes
  Options,   \* the options that the user of each of them may choose from
  MaxDrops   \* bound: registrations dropped by the handlers of engines

Verbs == {"proxyinit", "proxystop"}

\* A process makes at most one connection for each command.
Requests == Clients \X Verbs

\* The tokens that commands are made of.
Words == Verbs \cup {"-i", "-k", "-m", "-p", "-s"} \cup Numerals

\* An option that is not given, or given as an empty string.
NotGiven == <<>>

ASSUME ClientsAssumption == IsFiniteSet(Clients) /\ MaxDrops \in Nat
ASSUME WordsAssumption == Words \subseteq Keys /\ Blank \notin Keys
ASSUME OptionsAssumption ==
  \A c \in Clients : \A a \in Options[c] :
    /\ a.register \in Seq(Keys \cup {Blank})
    /\ a.unregister \in Seq(Keys \cup {Blank})
    /\ NotGiven \notin {a.register} \cap {a.unregister}
    /\ <<Blank>> \notin {a.register, a.unregister}
    /\ a.port \in Numerals
    /\ a.ssl \in BOOLEAN

VARIABLES
  client,    \* where the IDE process is: handleArguments, main
  handler,   \* where the goroutine of a connection is: ClientHandler.Handle
  asked,     \* the options of a process
  line,      \* the command on its way, as tokens
  command,   \* what the proxy understood of it
  reply,     \* the document SendResponse writes
  nextSid,   \* identity of the next Connection
  drops      \* registrations dropped by the handlers of engines, by key

vars == <<connections, client, handler, asked, line, command, reply, nextSid, drops>>

\* The variables of the processes, and of the connections.
clientVars == <<client, asked, line>>
requestVars == <<command, reply>>

NoReply == NewProxyInit(FALSE, FALSE)

Init ==
  /\ ListInit
  /\ client = [c \in Clients |-> "start"]
  /\ handler = [r \in Requests |-> "none"]
  /\ asked = [c \in Clients |-> "nothing"]
  /\ line = [r \in Requests |-> <<>>]
  /\ command = [r \in Requests |-> NotUnderstood]
  /\ reply = [r \in Requests |-> NoReply]
  /\ nextSid = 0
  /\ drops = [k \in Keys |-> 0]

-----------------------------------------------------------------------------
(* dbgpClient.                                                             *)

\* Connect, and send a line with the transaction id of a fresh dbgpClient; or
\* fail to, and exit.
Send(c, verb, l) ==
  \/ /\ client' = [client EXCEPT ![c] = verb]
     /\ handler' = [handler EXCEPT ![<<c, verb>>] = "reading"]
     /\ line' = [line EXCEPT ![<<c, verb>>] = ProcessLine(l, "1")]
  \/ /\ client' = [client EXCEPT ![c] = "failed"]
     /\ UNCHANGED <<handler, line>>

\* handleProxyArguments: to register comes first, if it is asked for.
Start(c) ==
  /\ client[c] = "start"
  /\ \E a \in Options[c] :
       /\ asked' = [asked EXCEPT ![c] = a]
       /\ IF a.register # NotGiven
            THEN Send(c, "proxyinit", RegisterLine(a.register, a.port, a.ssl))
            ELSE Send(c, "proxystop", UnregisterLine(a.unregister))
  /\ UNCHANGED <<connections, requestVars, nextSid, drops>>

\* RunAndQuit returns with the reply.  An error ends the process; if all is well
\* one that is told to unregister does so and ends, another starts to listen.
ReceiveReply(c, verb) ==
  /\ client[c] = verb
  /\ handler[<<c, verb>>] = "replied"
  /\ \/ /\ RunAndQuitResult(reply[<<c, verb>>]) = "error"
        /\ client' = [client EXCEPT ![c] = "failed"]
        /\ UNCHANGED <<handler, line>>
     \/ /\ RunAndQuitResult(reply[<<c, verb>>]) = "nil"
        /\ verb = "proxyinit" /\ asked[c].unregister # NotGiven
        /\ Send(c, "proxystop", UnregisterLine(asked[c].unregister))
     \/ /\ RunAndQuitResult(reply[<<c, verb>>]) = "nil"
        /\ verb = "proxyinit" => asked[c].unregister = NotGiven
        /\ client' = [client EXCEPT ![c] = IF verb = "proxyinit" THEN "listening" ELSE "exited"]
        /\ UNCHANGED <<handler, line>>
  /\ UNCHANGED <<connections, asked, requestVars, nextSid, drops>>

\* The proxy closed the connection without a reply.
ReceiveEOF(c, verb) ==
  /\ client[c] = verb
  /\ handler[<<c, verb>>] = "failed"
  /\ client' = [client EXCEPT ![c] = "failed"]
  /\ UNCHANGED <<connections, handler, asked, line, requestVars, nextSid, drops>>

\* The user interrupts the program while it waits, or ends it later; or the port
\* it has registered is taken.  Nothing is unregistered.
Leave(c) ==
  /\ client[c] \in Verbs \cup {"listening"}
  /\ client' = [client EXCEPT ![c] = "left"]
  /\ UNCHANGED <<connections, handler, asked, line, requestVars, nextSid, drops>>

-----------------------------------------------------------------------------
(* ClientHandler.Handle.                                                   *)

\* Variant of ReadCommand that goes on reading after a command it does not know.
ReadCommandGoesOn(r) ==
  /\ handler[r] = "reading"
  /\ ParseLine(line[r]).ok
  /\ command' = [command EXCEPT ![r] = ParseLine(line[r])]
  /\ handler' = [handler EXCEPT ![r] = "understood"]
  /\ UNCHANGED <<connections, clientVars, reply, nextSid, drops>>

\* ReadCommand and parseLine, or an error of either.
ReadCommand(r) ==
  /\ handler[r] = "reading"
  /\ \/ LET parsed == ParseLine(line[r])
        IN /\ command' = [command EXCEPT ![r] = parsed]
           /\ handler' = [handler EXCEPT ![r] = IF parsed.ok THEN "understood" ELSE "failed"]
     \/ /\ client[r[1]] = "left"  \* before the command arrived in full
        /\ handler' = [handler EXCEPT ![r] = "failed"]
        /\ UNCHANGED command
  /\ UNCHANGED <<connections, clientVars, reply, nextSid, drops>>

\* Variant of HandleProxyInit that reports success whatever Add returned.
HandleProxyInitAlwaysSucceeds(r) ==
  /\ handler[r] = "understood"
  /\ command[r].name = "proxyinit"
  /\ \E ok \in BOOLEAN : Add([ideKey |-> command[r].key, sid |-> nextSid], ok)
  /\ nextSid' = nextSid + 1
  /\ reply' = [reply EXCEPT ![r] = NewProxyInit(TRUE, FALSE)]
  /\ handler' = [handler EXCEPT ![r] = "executed"]
  /\ UNCHANGED <<clientVars, command, drops>>

\* ProxyInitCommand.Handle.
HandleProxyInit(r) ==
  /\ handler[r] = "understood"
  /\ command[r].name = "proxyinit"
  /\ \E ok \in BOOLEAN :
       /\ Add([ideKey |-> command[r].key, sid |-> nextSid], ok)
       /\ reply' = [reply EXCEPT ![r] = NewProxyInit(ok, ~ ok)]
  /\ nextSid' = nextSid + 1
  /\ handler' = [handler EXCEPT ![r] = "executed"]
  /\ UNCHANGED <<clientVars, command, drops>>

\* Variant of HandleProxyStop that does not say why it refuses.
HandleProxyStopSilent(r) ==
  /\ handler[r] = "understood"
  /\ command[r].name = "proxystop"
  /\ \E ok \in BOOLEAN :
       /\ RemoveByKey(command[r].key, ok)
       /\ reply' = [reply EXCEPT ![r] = NewProxyStop(ok, FALSE)]
  /\ handler' = [handler EXCEPT ![r] = "executed"]
  /\ UNCHANGED <<clientVars, command, nextSid, drops>>

\* ProxyStopCommand.Handle.
HandleProxyStop(r) ==
  /\ handler[r] = "understood"
  /\ command[r].name = "proxystop"
  /\ \E ok \in BOOLEAN :
       /\ RemoveByKey(command[r].key, ok)
       /\ reply' = [reply EXCEPT ![r] = NewProxyStop(ok, ~ ok)]
  /\ handler' = [handler EXCEPT ![r] = "executed"]
  /\ UNCHANGED <<clientVars, command, nextSid, drops>>

\* SendResponse; that it fails when the client has left makes no difference.
SendResponse(r) ==
  /\ handler[r] = "executed"
  /\ handler' = [handler EXCEPT ![r] = "replied"]
  /\ UNCHANGED <<connections, clientVars, requestVars, nextSid, drops>>

\* ServerHandler.Handle drops a registration.
Drop(k) ==
  /\ drops[k] < MaxDrops
  /\ Registered(k)
  /\ RemoveByKey(k, TRUE)
  /\ drops' = [drops EXCEPT ![k] = @ + 1]
  /\ UNCHANGED <<clientVars, handler, requestVars, nextSid>>

-----------------------------------------------------------------------------
HandlerStep(r) ==
  ReadCommand(r) \/ HandleProxyInit(r) \/ HandleProxyStop(r) \/ SendResponse(r)

\* The goroutines that serve a process; only one of them has anything to do.
Serve(c) == \E verb \in Verbs : HandlerStep(<<c, verb>>)

Receive(c) == \E verb \in Verbs : ReceiveReply(c, verb) \/ ReceiveEOF(c, verb)

Next ==
  \/ \E c \in Clients : Start(c) \/ Receive(c) \/ Leave(c) \/ Serve(c)
  \/ \E k \in Keys : Drop(k)

Spec == Init /\ [][Next]_vars

\* Goroutines and processes that can run do.
FairSpec == Spec /\ \A c \in Clients : WF_vars(Serve(c)) /\ WF_vars(Receive(c))

-----------------------------------------------------------------------------
\* Every variable has its type.
TypeOK ==
  /\ ListTypeOK
  /\ client \in [Clients -> Verbs \cup {"start", "listening", "exited", "failed", "left"}]
  /\ handler \in [Requests -> {"none", "reading", "understood", "executed",
                               "replied", "failed"}]
  /\ \A c \in Clients : client[c] # "start" => asked[c] \in Options[c]
  /\ line \in [Requests -> Seq(Keys \cup {Blank})]
  /\ \A r \in Requests : command[r].ok => command[r].key \in Keys /\ command[r].name = r[2]
  /\ reply \in [Requests -> {NewProxyInit(s, e) : s \in BOOLEAN, e \in BOOLEAN}
                            \cup {NewProxyStop(s, e) : s \in BOOLEAN, e \in BOOLEAN}]
  /\ nextSid \in Nat
  /\ drops \in [Keys -> 0..MaxDrops]

\* The commands of one kind that have been carried out on k with success.
Successes(verb, k) ==
  {r \in Requests : /\ handler[r] \in {"executed", "replied"}
                    /\ command[r].name = verb
                    /\ command[r].key = k
                    /\ reply[r].success}

\* The replies add up: a key is registered exactly if one more proxyinit than
\* removals has been acknowledged for it, so two IDEs are never both told that
\* they have the key, and none that it has been unregistered when it was not
\* (ProxyInitCommand.Handle, ProxyStopCommand.Handle, RemoveByKey).
RepliesAddUp ==
  \A k \in Keys :
    Cardinality(Successes("proxyinit", k)) =
      Cardinality(Successes("proxystop", k)) + drops[k] + (IF Registered(k) THEN 1 ELSE 0)

\* What a process was told to register and to unregister, as a key without a
\* space in it.
KeyAsked(r) ==
  IF r[2] = "proxyinit" THEN asked[r[1]].register ELSE asked[r[1]].unregister

\* The proxy understands what dbgpClient sends, and as it was meant: the key the
\* user gave is the one that is (un)registered, whatever it looks like, with the
\* port and the SSL mode of the IDE, and only a key with a space in it is refused
\* (processLine, parseLine, CreateProxyInit, CreateProxyStop).
Understood ==
  \A r \in Requests :
    /\ (command[r].ok /\ Len(KeyAsked(r)) = 1) =>
         /\ <<command[r].key>> = KeyAsked(r)
         /\ command[r].name = "proxyinit" =>
              command[r].port = asked[r[1]].port /\ command[r].ssl = asked[r[1]].ssl
    /\ (handler[r] = "failed" /\ client[r[1]] # "left") => Len(KeyAsked(r)) > 1

\* dbgpClient goes on to listen for engines only if the proxy has registered it,
\* exits with success only if the proxy has unregistered it, and is given a
\* reason whenever the proxy refuses (RunAndQuit, handleProxyArguments).
VerdictIsReal ==
  /\ \A c \in Clients :
       /\ client[c] = "listening" => reply[<<c, "proxyinit">>].success
       /\ client[c] = "exited" => reply[<<c, "proxystop">>].success
  /\ \A r \in Requests :
       handler[r] = "replied" => FormatXML(reply[r]).shows # "garbled"

\* Nobody who has sent a command waits for ever, not even for a reply to a
\* command that the proxy does not understand.
RequestEnds == \A c \in Clients : client[c] \in Verbs ~> client[c] \notin Verbs

=============================================================================
