------------------------------ MODULE DbgpClient ------------------------------
(***************************************************************************)
(* The command-line debugger (dbgpClient/main.go): a user, at a prompt,    *)
(* talks to one engine after the other.  Without Cloud, every engine makes *)
(* a connection of its own; with Cloud, all sessions come over the one     *)
(* connection that the client has made, and an interrupt ends it with      *)
(* cloudstop.  handleConnection runs once per connection, or per Cloud     *)
(* session, each time with a new reader and new signal handling.           *)
(***************************************************************************)
EXTENDS Naturals, Sequences, Responses

CONSTANTS
  MaxSent,     \* bound: documents the engines send
  MaxSignals   \* bound: interrupts from outside the prompt

ASSUME BoundsAssumption == MaxSent \in Nat /\ MaxSignals \in Nat

VARIABLES
  cloud,        \* dbgpClient --cloud
  once,         \* dbgpClient -1
  pc,           \* where the main goroutine is
  lastCommand,  \* handleConnection's lastCommand
  abort,        \* abortRequested of the reader in use
  begin,        \* lastSourceBegin of the reader in use
  handling,     \* SIGINT has a handler
  buffer,       \* documents read ahead by the reader in use
  open,         \* the client has not closed the connection
  engine,       \* state of the engine at its other end
  inbox,        \* commands the engine has still to answer
  wire,         \* documents on their way to the client
  sent,         \* documents the engines have sent
  signals       \* interrupts so far

peerVars == <<engine, inbox, wire, sent>>
options == <<cloud, once>>
reader == <<abort, begin, buffer>>
vars == <<options, pc, lastCommand, handling, reader, open, peerVars, signals>>

(***************************************************************************)
(* A command: its verb and the value of its option -b, 0 without one.      *)
(***************************************************************************)
Command(verb) == [verb |-> verb, b |-> 0]

\* An empty line.
Empty == Command("none")

\* What a user types.
Lines == {Command(v) : v \in {"run", "source", "stop", "detach", "break", "none"}}
           \cup {[verb |-> "source", b |-> 2]}

Commands == Lines \cup {Command("cloudinit"), Command("cloudstop")}

(***************************************************************************)
(* A document of an engine; the answer to `source' also has the number of  *)
(* the line that its text starts with, which the document does not tell.   *)
(***************************************************************************)
Doc(root, command, success, first) ==
  [root |-> root, command |-> command, success |-> success, error |-> ~ success,
   first |-> first]

Docs == [root : {"response", "init", "notify", "stream", "cloudinit", "cloudstop", "other"},
         command : {"none", "run", "source", "break", "detach", "stop"},
         success : BOOLEAN,
         error : BOOLEAN,
         first : 1..2]

\* Where the text that answers a command starts.
FirstLine(command) == IF command.b > 0 THEN command.b ELSE 1

Init ==
  /\ cloud \in BOOLEAN
  /\ once \in BOOLEAN
  /\ pc = IF cloud THEN "connect" ELSE "listen"
  /\ lastCommand = Empty
  /\ abort = FALSE
  /\ begin = 1
  /\ handling = FALSE
  /\ buffer = <<>>
  /\ open = FALSE
  /\ engine = "none"
  /\ inbox = <<>>
  /\ wire = <<>>
  /\ sent = 0
  /\ signals = 0

-----------------------------------------------------------------------------
(* Connections.                                                            *)

\* doNormalConnectionLoop accepts a connection.
Accept ==
  /\ pc = "listen"
  /\ pc' = "handle"
  /\ open' = TRUE
  /\ engine' = "ready"
  /\ inbox' = <<>>
  /\ wire' = <<>>
  /\ UNCHANGED <<options, lastCommand, handling, reader, sent, signals>>

\* runAsCloudClient dials the Cloud and sends cloudinit.
Connect ==
  /\ pc = "connect"
  /\ \/ /\ pc' = "handle"
        /\ open' = TRUE
        /\ engine' = "ready"
        /\ inbox' = <<Command("cloudinit")>>
     \/ pc' = "stopped" /\ UNCHANGED <<open, engine, inbox>>
  /\ UNCHANGED <<options, lastCommand, handling, reader, wire, sent, signals>>

\* handleConnection starts: a new reader, and a handler for interrupts.
Handle ==
  /\ pc = "handle"
  /\ pc' = "read"
  /\ lastCommand' = Empty
  /\ abort' = FALSE
  /\ begin' = 1
  /\ handling' = TRUE
  /\ buffer' = <<>>
  /\ UNCHANGED <<options, open, peerVars, signals>>

\* How the program goes on.  To listen again is to close the connection.
LeaveTo(label) ==
  /\ pc' = label
  /\ open' = (open /\ label \notin {"listen", "stopped"})

(***************************************************************************)
(* The callers of handleConnection.  A normal client closes the connection *)
(* and, unless told to debug once, waits for the next; an interrupt        *)
(* changes nothing about that.  A Cloud client leaves on an error, sends   *)
(* detach if the user interrupted the prompt, or cloudstop if the read was *)
(* interrupted, and else waits for the next session.                       *)
(***************************************************************************)
Leave(result) ==
  \/ ~ cloud /\ LeaveTo(IF once THEN "stopped" ELSE "listen") /\ UNCHANGED inbox
  \/ cloud /\ result = "over" /\ LeaveTo("handle") /\ UNCHANGED inbox
  \/ cloud /\ result = "error" /\ LeaveTo("stopped") /\ UNCHANGED inbox
  \/ /\ cloud /\ result = "interrupted"
     /\ \/ engine # "closed" /\ inbox' = Append(inbox, Command("detach")) /\ LeaveTo("handle")
        \/ engine = "closed" /\ UNCHANGED inbox /\ LeaveTo("handle")
        \/ engine = "closed" /\ UNCHANGED inbox /\ LeaveTo("stopped")
  \/ /\ cloud /\ result = "abort"
     /\ inbox' = IF engine = "closed" THEN inbox ELSE Append(inbox, Command("cloudstop"))
     /\ LeaveTo("aborting")

\* Variant of Return that leaves the handler of signals in place.
ReturnStillHandling(result) == Leave(result) /\ UNCHANGED handling

\* handleConnection returns, which resets signal handling.
Return(result) == Leave(result) /\ handling' = FALSE

-----------------------------------------------------------------------------
(* handleConnection.                                                       *)

\* How many documents the next read brings into the buffer.
Fetch == IF buffer # <<>> THEN {0} ELSE 1..Len(wire)

\* A document is displayed; it asks for more, ends the session or lets the user
\* answer it.
Read ==
  /\ pc = "read"
  /\ \E n \in Fetch :
       LET data == buffer \o SubSeq(wire, 1, n)
           doc == Head(data)
       IN /\ buffer' = Tail(data)
          /\ wire' = SubSeq(wire, n + 1, Len(wire))
          /\ \/ /\ ~ Interpreted(doc)
                /\ Return("error")
             \/ /\ Interpreted(doc) /\ FormatXML(doc).more
                /\ IF FormatXML(doc).success
                     THEN UNCHANGED <<pc, handling, open, inbox>>
                     ELSE Return("error")
             \/ /\ Interpreted(doc) /\ ~ FormatXML(doc).more
                /\ FormatXML(doc).closes
                /\ Return("over")
             \/ /\ Interpreted(doc) /\ ~ FormatXML(doc).more
                /\ ~ FormatXML(doc).closes
                /\ pc' = "prompt"
                /\ UNCHANGED <<handling, open, inbox>>
  /\ UNCHANGED <<options, lastCommand, abort, begin, engine, sent, signals>>


\* A second without a document.
TimeOut ==
  /\ pc = "read"
  /\ buffer = <<>> /\ wire = <<>>
  /\ engine # "closed"
  /\ abort
  /\ Return("abort")
  /\ UNCHANGED <<options, lastCommand, reader, engine, wire, sent, signals>>

\* Variant of ReadFails that just tries again.
ReadFailsRetried == pc = "read" /\ engine = "closed" /\ UNCHANGED vars

\* The end of the stream, or another error.
ReadFails ==
  /\ pc = "read"
  /\ buffer = <<>> /\ wire = <<>>
  /\ engine = "closed"
  /\ Return("error")
  /\ UNCHANGED <<options, lastCommand, reader, engine, wire, sent, signals>>

\* What an empty line stands for.
Meant(line) == IF line = Empty THEN lastCommand ELSE line

\* Variant of StoreSourceBegin that leaves it alone if there is no -b.
StoreSourceBeginIfGiven(command) ==
  begin' = IF command.b > 0 THEN command.b ELSE begin

\* storeSourceBeginIfPresent: the number for the first line of the answer.
StoreSourceBegin(command) ==
  begin' = IF command.b > 0 THEN command.b ELSE 1

\* Variant of Type that sends nothing for an empty line.
TypeSkipsEmpty ==
  /\ pc = "prompt"
  /\ \E line \in Lines :
       /\ pc' = "read"
       /\ StoreSourceBegin(Meant(line))
       /\ lastCommand' = Meant(line)
       /\ inbox' = IF engine = "closed" \/ line = Empty THEN inbox ELSE Append(inbox, line)
  /\ UNCHANGED <<options, handling, open, abort, buffer, engine, wire, sent, signals>>

\* The user types a line; an empty one repeats the last command, and `help' only
\* displays a text.  The write may fail if the engine has gone.
Type ==
  /\ pc = "prompt"
  /\ \E line \in Lines :
       /\ StoreSourceBegin(Meant(line))
       /\ \/ /\ pc' = "read"
             /\ lastCommand' = Meant(line)
             /\ inbox' = IF engine = "closed" THEN inbox ELSE Append(inbox, Meant(line))
             /\ UNCHANGED <<handling, open>>
          \/ /\ engine = "closed"
             /\ Return("error")
             /\ UNCHANGED lastCommand
  /\ UNCHANGED <<options, abort, buffer, engine, wire, sent, signals>>

\* The user ends the prompt with control-C or control-D.
LeavePrompt ==
  /\ pc = "prompt"
  /\ Return("interrupted") \/ Return("error")
  /\ UNCHANGED <<options, lastCommand, reader, engine, wire, sent, signals>>

\* After cloudstop: one more document, through the first reader, or the end.
Aborted ==
  /\ pc = "aborting"
  /\ \/ wire # <<>> /\ wire' = Tail(wire)
     \/ wire = <<>> /\ engine = "closed" /\ UNCHANGED wire
  /\ LeaveTo("stopped")
  /\ UNCHANGED <<options, lastCommand, handling, reader, engine, inbox, sent, signals>>

\* SIGINT: with a handler it is noted for the reader in use, else it is fatal.
Interrupt ==
  /\ pc # "stopped"
  /\ signals < MaxSignals
  /\ signals' = signals + 1
  /\ IF handling
       THEN abort' = TRUE /\ UNCHANGED <<pc, open>>
       ELSE LeaveTo("stopped") /\ UNCHANGED abort
  /\ UNCHANGED <<options, lastCommand, handling, begin, buffer, peerVars>>

-----------------------------------------------------------------------------
(* The engine, or the Cloud with the engines behind it: not part of the    *)
(* repository.                                                             *)

Send(doc) ==
  /\ sent < MaxSent
  /\ sent' = sent + 1
  /\ wire' = IF open THEN Append(wire, doc) ELSE wire

\* A session starts.
EngineInit ==
  /\ engine = "ready"
  /\ inbox = <<>>
  /\ Send(Doc("init", "none", TRUE, 1))
  /\ engine' = "debugging"
  /\ UNCHANGED <<options, pc, lastCommand, handling, reader, open, inbox, signals>>

\* The engine answers a command.  It knows no break and no empty command.
Answer ==
  /\ engine \in {"ready", "debugging"}
  /\ inbox # <<>>
  /\ LET command == Head(inbox)
         verb == command.verb
         ends == engine = "debugging" /\ verb \in {"stop", "detach"}
     IN \/ /\ verb = "cloudinit"
           /\ \E success \in BOOLEAN : Send(Doc("cloudinit", "none", success, 1))
           /\ UNCHANGED engine
        \/ /\ verb = "cloudstop"
           /\ Send(Doc("cloudstop", "none", TRUE, 1))
           /\ engine' = "closed"
        \/ /\ command \in Lines
           /\ Send(Doc("response", verb, verb \notin {"break", "none"}, FirstLine(command)))
           /\ engine' = IF ~ ends THEN engine ELSE IF cloud THEN "ready" ELSE "closed"
  /\ inbox' = Tail(inbox)
  /\ UNCHANGED <<options, pc, lastCommand, handling, reader, open, signals>>

\* Output of the script or a notification while a command runs, or a document of
\* a kind that the client does not know.
Stream ==
  /\ engine = "debugging"
  /\ inbox # <<>>
  /\ \E root \in {"stream", "notify", "other"} : Send(Doc(root, "none", TRUE, 1))
  /\ UNCHANGED <<options, pc, lastCommand, handling, reader, open, engine, inbox, signals>>

\* The engine dies.
Hangup ==
  /\ engine \in {"ready", "debugging"}
  /\ engine' = "closed"
  /\ inbox' = <<>>
  /\ UNCHANGED <<options, pc, lastCommand, handling, reader, open, wire, sent, signals>>

-----------------------------------------------------------------------------
ClientStep == Handle \/ Read \/ TimeOut \/ ReadFails \/ Aborted

Next ==
  \/ Accept \/ Connect \/ ClientStep \/ Type \/ LeavePrompt \/ Interrupt
  \/ EngineInit \/ Answer \/ Stream \/ Hangup

Spec == Init /\ [][Next]_vars

\* The client runs, and an engine answers; neither a user nor a session has to
\* come to an end.
FairSpec == Spec /\ WF_vars(ClientStep) /\ WF_vars(Answer)

-----------------------------------------------------------------------------
\* Every variable has its type, and SIGINT has a handler exactly while
\* handleConnection is at work.
TypeOK ==
  /\ cloud \in BOOLEAN /\ once \in BOOLEAN
  /\ handling <=> pc \in {"read", "prompt"}
  /\ pc \in {"listen", "connect", "handle", "read", "prompt", "aborting", "stopped"}
  /\ lastCommand \in Lines
  /\ begin \in 1..2
  /\ abort \in BOOLEAN /\ handling \in BOOLEAN /\ open \in BOOLEAN
  /\ buffer \in Seq(Docs)
  /\ engine \in {"none", "ready", "debugging", "closed"}
  /\ inbox \in Seq(Commands)
  /\ wire \in Seq(Docs)
  /\ sent \in 0..MaxSent
  /\ signals \in 0..MaxSignals

\* The user is asked for a command only when the last one has been answered, so
\* that a reply is never taken for the reply to another command; output and
\* notifications in between do not bring up the prompt (ExpectMoreResponses).
OneCommandAtATime ==
  pc = "prompt" =>
    /\ inbox = <<>>
    /\ \A i \in 1..Len(buffer \o wire) : (buffer \o wire)[i].root # "response"

\* The client and a living engine do not wait for each other: while the client
\* reads in the midst of a session the engine has a command to answer, or a
\* document is on its way.  (With Cloud the init of a session that starts at once
\* may be lost with the reader of the last one, and both do wait.)
NoMutualWait ==
  (~ cloud /\ pc = "read" /\ engine = "debugging") =>
    inbox # <<>> \/ buffer \o wire # <<>>

\* Every text that `source' displays is numbered as it is in the file: the begin
\* that the client will stamp on the answer is that of the command the answer is
\* for, and no other (storeSourceBeginIfPresent, parseResponseXML, formatSource).
NumberedRight ==
  pc = "read" =>
    /\ \A i \in 1..Len(inbox) : FirstLine(inbox[i]) = begin
    /\ \A i \in 1..Len(buffer \o wire) :
         (buffer \o wire)[i].command = "source" => (buffer \o wire)[i].first = begin


\* A client that reads from an engine that has gone notices.
DeadEngineNoticed == (pc \in {"read", "aborting"} /\ engine = "closed") ~>
                       pc \notin {"read", "aborting"}

=============================================================================
