-------------------------- MODULE RegistrationProofs --------------------------
(***************************************************************************)
(* What the proxy replies to IDEs adds up, dbgpClient makes no more of a   *)
(* reply than it says, and the proxy takes a command as it was meant, for  *)
(* any IDE processes, options and keys.  The first two do not depend on    *)
(* how a command is understood, only on who may change what.               *)
(***************************************************************************)
EXTENDS Registration, CommandLineProofs, FiniteSetTheorems, TLAPS

\* What a proxyinit or a proxystop is answered with.
Verdicts == {NewProxyInit(s, e) : s \in BOOLEAN, e \in BOOLEAN}
              \cup {NewProxyStop(s, e) : s \in BOOLEAN, e \in BOOLEAN}

HandlerLabels == {"none", "reading", "understood", "executed", "replied", "failed"}
ClientLabels == Verbs \cup {"start", "listening", "exited", "failed", "left"}

\* The types that count here; commands may be anything.
Types ==
  /\ ListTypeOK
  /\ client \in [Clients -> ClientLabels]
  /\ handler \in [Requests -> HandlerLabels]
  /\ command = [r \in Requests |-> command[r]]
  /\ reply \in [Requests -> Verdicts]
  /\ nextSid \in Nat
  /\ drops \in [Keys -> 0..MaxDrops]

\* A process uses a connection once, and unregisters after it has registered.
OneByOne ==
  \A c \in Clients :
    /\ client[c] = "start" => handler[<<c, "proxyinit">>] = "none"
    /\ client[c] \in {"start", "proxyinit"} => handler[<<c, "proxystop">>] = "none"

\* A process goes on only when it has been answered.
Answered ==
  \A c \in Clients :
    /\ client[c] = "listening" => handler[<<c, "proxyinit">>] = "replied"
    /\ client[c] = "exited" => handler[<<c, "proxystop">>] = "replied"

\* A refusal says why.
SaysWhy ==
  \A r \in Requests :
    handler[r] \in {"executed", "replied"} => reply[r].success \/ reply[r].error

IInv == Types /\ OneByOne /\ Answered /\ SaysWhy /\ VerdictIsReal

-----------------------------------------------------------------------------
\* A reply is a success exactly if it says so, and is shown as it is unless it
\* is a refusal without a reason (FormatXML, RunAndQuit).
LEMMA VerdictRead ==
  ASSUME NEW d \in Verdicts
  PROVE  /\ RunAndQuitResult(d) = "nil" => d.success
         /\ d.success \/ d.error => FormatXML(d).shows # "garbled"
<1>1. d.root = "proxyinit" \/ d.root = "proxystop"
  BY DEF Verdicts, NewProxyInit, NewProxyStop
<1>2. FormatXML(d) = Methods(d.success, FALSE, FALSE, ShowsVerdict(d))
  BY <1>1 DEF FormatXML, ProxyInitXML, ProxyStopXML
<1>3. FormatXML(d).success = d.success /\ FormatXML(d).shows = ShowsVerdict(d)
  BY <1>2 DEF Methods
<1>4. Interpreted(d)
  BY <1>1 DEF Interpreted, Roots
<1> QED
  BY <1>3, <1>4 DEF RunAndQuitResult, ShowsVerdict

\* The proxy replies with verdicts.
LEMMA NewVerdicts ==
  ASSUME NEW s \in BOOLEAN, NEW e \in BOOLEAN
  PROVE  /\ NewProxyInit(s, e) \in Verdicts /\ NewProxyStop(s, e) \in Verdicts
         /\ NewProxyInit(s, e).success = s /\ NewProxyInit(s, e).error = e
         /\ NewProxyStop(s, e).success = s /\ NewProxyStop(s, e).error = e
BY DEF NewProxyInit, NewProxyStop, Verdicts

-----------------------------------------------------------------------------
\* The connections of a process.
LEMMA RequestsOf ==
  ASSUME NEW c \in Clients, NEW verb \in Verbs
  PROVE  <<c, verb>> \in Requests
BY DEF Requests

\* Nobody has asked for anything.
LEMMA InitVerdicts == Init => IInv
<1> SUFFICES ASSUME Init
             PROVE  IInv
  OBVIOUS
<1>1. Types
  <2>1. ListTypeOK
    BY DEF Init, ListInit, ListTypeOK
  <2>2. reply \in [Requests -> Verdicts]
    BY NewVerdicts DEF Init, NoReply
  <2>3. drops \in [Keys -> 0..MaxDrops] /\ nextSid \in Nat
    BY ClientsAssumption DEF Init
  <2> QED
    BY <2>1, <2>2, <2>3 DEF Init, Types, HandlerLabels, ClientLabels
<1>2. \A c \in Clients : client[c] = "start"
  BY DEF Init
<1>3. \A r \in Requests : handler[r] = "none"
  BY DEF Init
<1>4. OneByOne
  BY <1>3, RequestsOf DEF OneByOne, Verbs
<1>5. Answered /\ SaysWhy /\ VerdictIsReal
  BY <1>2, <1>3 DEF Answered, SaysWhy, VerdictIsReal
<1> QED
  BY <1>1, <1>4, <1>5 DEF IInv

\* A goroutine that has a command in hand touches no process.
LEMMA HandlerMoves ==
  ASSUME Types, OneByOne, Answered, UNCHANGED client,
         NEW r \in Requests, handler[r] \in {"reading", "understood", "executed"},
         NEW label \in HandlerLabels, label # "none",
         handler' = [handler EXCEPT ![r] = label]
  PROVE  OneByOne' /\ Answered'
<1>1. ASSUME NEW c \in Clients, NEW verb \in Verbs
      PROVE  /\ handler[<<c, verb>>] = "none" => handler'[<<c, verb>>] = "none"
             /\ handler[<<c, verb>>] = "replied" => handler'[<<c, verb>>] = "replied"
  BY <1>1, RequestsOf DEF Types
<1> QED
  BY <1>1 DEF OneByOne, Answered, Verbs

\* A process that sends a command, or fails to, uses a connection for the first
\* time.
LEMMA SendStep ==
  ASSUME IInv, UNCHANGED <<connections, command, reply, nextSid, drops>>,
         NEW c \in Clients, NEW verb \in Verbs, NEW l, Send(c, verb, l),
         verb = "proxyinit" => client[c] = "start",
         verb = "proxystop" => client[c] \in {"start", "proxyinit"}
  PROVE  IInv'
<1>t. Types /\ OneByOne /\ Answered /\ SaysWhy /\ VerdictIsReal
  BY DEF IInv
<1>1. CASE /\ client' = [client EXCEPT ![c] = verb]
           /\ handler' = [handler EXCEPT ![<<c, verb>>] = "reading"]
  <2>0. <<c, verb>> \in Requests
    BY RequestsOf
  <2>1. handler[<<c, verb>>] = "none"
    BY <1>t DEF OneByOne, Verbs
  <2>2. Types'
    BY <1>t, <1>1, <2>0 DEF Types, ListTypeOK, ClientLabels, HandlerLabels
  <2>3. ASSUME NEW d \in Clients, NEW other \in Verbs, <<d, other>> # <<c, verb>>
        PROVE  handler'[<<d, other>>] = handler[<<d, other>>]
    BY <1>t, <1>1, <2>3, RequestsOf DEF Types
  <2>4. OneByOne'
    <3> SUFFICES ASSUME NEW d \in Clients
                 PROVE  /\ client'[d] = "start" => handler'[<<d, "proxyinit">>] = "none"
                        /\ client'[d] \in {"start", "proxyinit"} =>
                             handler'[<<d, "proxystop">>] = "none"
      BY DEF OneByOne
    <3>1. CASE d = c
      <4>1. client'[c] = verb
        BY <1>t, <1>1 DEF Types
      <4>2. verb = "proxyinit" => handler'[<<c, "proxystop">>] = handler[<<c, "proxystop">>]
        BY <2>3 DEF Verbs
      <4> QED
        BY <1>t, <3>1, <4>1, <4>2 DEF OneByOne, Verbs
    <3>2. CASE d # c
      <4>1. client'[d] = client[d]
        BY <1>t, <1>1, <3>2 DEF Types
      <4>2. \A other \in Verbs : handler'[<<d, other>>] = handler[<<d, other>>]
        BY <2>3, <3>2
      <4> QED
        BY <1>t, <4>1, <4>2 DEF OneByOne, Verbs
    <3> QED BY <3>1, <3>2
  <2>5. \A d \in Clients : client'[d] \in {"listening", "exited"} =>
          d # c /\ client'[d] = client[d]
    BY <1>t, <1>1 DEF Types, Verbs
  <2>6. Answered'
    BY <1>t, <2>3, <2>5 DEF Answered, Verbs
  <2>7. \A r \in Requests : handler'[r] \in {"executed", "replied"} => handler'[r] = handler[r]
    BY <1>t, <1>1, <2>0 DEF Types
  <2>8. SaysWhy'
    BY <1>t, <2>7 DEF SaysWhy
  <2>9. VerdictIsReal'
    BY <1>t, <2>5, <2>7 DEF VerdictIsReal
  <2> QED
    BY <2>2, <2>4, <2>6, <2>8, <2>9 DEF IInv
<1>2. CASE client' = [client EXCEPT ![c] = "failed"] /\ UNCHANGED handler
  <2>1. Types'
    BY <1>t, <1>2 DEF Types, ListTypeOK, ClientLabels
  <2>2. \A d \in Clients : client'[d] # "failed" => client'[d] = client[d]
    BY <1>t, <1>2 DEF Types
  <2>3. OneByOne' /\ Answered'
    BY <1>t, <1>2, <2>2 DEF OneByOne, Answered
  <2>4. SaysWhy' /\ VerdictIsReal'
    BY <1>t, <1>2, <2>2 DEF SaysWhy, VerdictIsReal
  <2> QED
    BY <2>1, <2>3, <2>4 DEF IInv
<1> QED
  BY <1>1, <1>2 DEF Send

\* A process that has its answer, or that goes on without one.
LEMMA ClientStep ==
  ASSUME IInv, NEW c \in Clients,
         \/ Start(c)
         \/ Leave(c)
         \/ \E verb \in Verbs : ReceiveReply(c, verb) \/ ReceiveEOF(c, verb)
  PROVE  IInv'
<1>t. Types /\ OneByOne /\ Answered /\ SaysWhy /\ VerdictIsReal
  BY DEF IInv
<1>1. ASSUME UNCHANGED <<connections, handler, command, reply, nextSid, drops>>,
             NEW label \in ClientLabels \ ({"start"} \cup Verbs),
             client' = [client EXCEPT ![c] = label],
             label = "listening" => /\ handler[<<c, "proxyinit">>] = "replied"
                                    /\ reply[<<c, "proxyinit">>].success,
             label = "exited" => /\ handler[<<c, "proxystop">>] = "replied"
                                 /\ reply[<<c, "proxystop">>].success
      PROVE  IInv'
  <2>1. Types'
    BY <1>t, <1>1 DEF Types, ListTypeOK
  <2>2. \A d \in Clients : client'[d] = IF d = c THEN label ELSE client[d]
    BY <1>t, <1>1 DEF Types
  <2>3. OneByOne' /\ Answered'
    BY <1>t, <1>1, <2>2 DEF OneByOne, Answered, Verbs
  <2>4. SaysWhy' /\ VerdictIsReal'
    BY <1>t, <1>1, <2>2 DEF SaysWhy, VerdictIsReal
  <2> QED
    BY <2>1, <2>3, <2>4 DEF IInv
<1>2. CASE Start(c)
  <2>1. client[c] = "start" /\ UNCHANGED <<connections, command, reply, nextSid, drops>>
    BY <1>2 DEF Start, requestVars
  <2>2. \E l : Send(c, "proxyinit", l) \/ Send(c, "proxystop", l)
    BY <1>2 DEF Start
  <2> QED
    BY <2>1, <2>2, SendStep DEF Verbs
<1>3. CASE Leave(c)
  BY <1>1, <1>3 DEF Leave, requestVars, ClientLabels, Verbs
<1>4. ASSUME NEW verb \in Verbs, ReceiveReply(c, verb)
      PROVE  IInv'
  <2>0. /\ client[c] = verb /\ handler[<<c, verb>>] = "replied"
        /\ UNCHANGED <<connections, command, reply, nextSid, drops>>
    BY <1>4 DEF ReceiveReply, requestVars
  <2>1. CASE client' = [client EXCEPT ![c] = "failed"] /\ UNCHANGED handler
    BY <1>1, <2>0, <2>1 DEF ClientLabels, Verbs
  <2>2. CASE /\ verb = "proxyinit"
             /\ Send(c, "proxystop", UnregisterLine(asked[c].unregister))
    BY <2>0, <2>2, SendStep DEF Verbs
  <2>3. CASE /\ RunAndQuitResult(reply[<<c, verb>>]) = "nil"
             /\ client' = [client EXCEPT ![c] =
                             IF verb = "proxyinit" THEN "listening" ELSE "exited"]
             /\ UNCHANGED handler
    <3>1. reply[<<c, verb>>].success
      BY <1>t, <2>3, RequestsOf, VerdictRead DEF Types
    <3>2. CASE verb = "proxyinit"
      <4>1. client' = [client EXCEPT ![c] = "listening"]
        BY <2>3, <3>2
      <4> QED BY <1>1, <2>0, <2>3, <3>1, <3>2, <4>1 DEF ClientLabels, Verbs
    <3>3. CASE verb = "proxystop"
      <4>1. client' = [client EXCEPT ![c] = "exited"]
        BY <2>3, <3>3
      <4> QED BY <1>1, <2>0, <2>3, <3>1, <3>3, <4>1 DEF ClientLabels, Verbs
    <3> QED BY <3>2, <3>3 DEF Verbs
  <2> QED
    BY <1>4, <2>1, <2>2, <2>3 DEF ReceiveReply
<1>5. ASSUME NEW verb \in Verbs, ReceiveEOF(c, verb)
      PROVE  IInv'
  BY <1>1, <1>5 DEF ReceiveEOF, requestVars, ClientLabels, Verbs
<1> QED
  BY <1>2, <1>3, <1>4, <1>5

\* The list keeps its types, whatever key a command is about.
LEMMA ListStep ==
  ASSUME ListTypeOK
  PROVE  /\ \A key : \A ok \in BOOLEAN : RemoveByKey(key, ok) => ListTypeOK'
         /\ \A key : \A ok \in BOOLEAN : \A sid \in Nat :
              Add([ideKey |-> key, sid |-> sid], ok) => ListTypeOK'
<1>1. ASSUME NEW key, NEW ok \in BOOLEAN, RemoveByKey(key, ok)
      PROVE  ListTypeOK'
  BY <1>1 DEF RemoveByKey, ListTypeOK
<1>2. ASSUME NEW key, NEW ok \in BOOLEAN, NEW sid \in Nat,
             Add([ideKey |-> key, sid |-> sid], ok)
      PROVE  ListTypeOK'
  <2>1. CASE connections' = [connections EXCEPT ![key] = [ideKey |-> key, sid |-> sid]]
    <3>1. key \in Keys => [ideKey |-> key, sid |-> sid] \in Connection
      BY DEF Connection
    <3> QED
      BY <2>1, <3>1 DEF ListTypeOK
  <2>2. CASE connections' = [connections EXCEPT ![key] = NoConnection]
    BY <2>2 DEF ListTypeOK
  <2>3. CASE UNCHANGED connections
    BY <2>3 DEF ListTypeOK
  <2> QED
    BY <1>2, <2>1, <2>2, <2>3 DEF Add
<1> QED
  BY <1>1, <1>2

\* A goroutine of the proxy reads, carries out and answers a command.
LEMMA HandlerStepKeeps ==
  ASSUME IInv, NEW r \in Requests, HandlerStep(r)
  PROVE  IInv'
<1>t. Types /\ OneByOne /\ Answered /\ SaysWhy /\ VerdictIsReal /\ ListTypeOK
  BY DEF IInv, Types
<1>0. UNCHANGED <<client, drops>>
  BY DEF HandlerStep, ReadCommand, HandleProxyInit, HandleProxyStop, SendResponse, clientVars
<1>1. ASSUME handler[r] \in {"reading", "understood", "executed"},
             NEW label \in HandlerLabels, label # "none",
             handler' = [handler EXCEPT ![r] = label],
             label = "replied" => handler[r] = "executed" /\ UNCHANGED reply,
             Types',
             \A q \in Requests : q # r => reply'[q] = reply[q],
             label \in {"executed", "replied"} => reply'[r].success \/ reply'[r].error
      PROVE  IInv'
  <2>1. OneByOne' /\ Answered'
    BY <1>t, <1>0, <1>1, HandlerMoves
  <2>2. \A q \in Requests : q # r => handler'[q] = handler[q] /\ reply'[q] = reply[q]
    BY <1>t, <1>1 DEF Types
  <2>3. handler'[r] = label
    BY <1>t, <1>1 DEF Types
  <2>4. SaysWhy'
    BY <1>t, <1>1, <2>2, <2>3 DEF SaysWhy
  <2>5. \A q \in Requests : reply'[q] \in Verdicts
    BY <1>1 DEF Types
  <2>6. \A q \in Requests : handler'[q] = "replied" => FormatXML(reply'[q]).shows # "garbled"
    BY <2>4, <2>5, VerdictRead DEF SaysWhy
  <2>7. \A c \in Clients : \A verb \in Verbs :
          handler[<<c, verb>>] = "replied" => reply'[<<c, verb>>] = reply[<<c, verb>>]
    BY <1>1, <2>2, RequestsOf
  <2>8. \A c \in Clients :
          /\ client'[c] = "listening" => reply'[<<c, "proxyinit">>].success
          /\ client'[c] = "exited" => reply'[<<c, "proxystop">>].success
    BY <1>t, <1>0, <2>7 DEF Answered, VerdictIsReal, Verbs
  <2>9. VerdictIsReal'
    BY <2>6, <2>8 DEF VerdictIsReal
  <2> QED
    BY <2>1, <2>4, <2>9, <1>1 DEF IInv
<1>2. CASE ReadCommand(r)
  <2>1. PICK label \in {"understood", "failed"} : handler' = [handler EXCEPT ![r] = label]
    BY <1>2 DEF ReadCommand
  <2>2. handler[r] = "reading" /\ UNCHANGED <<connections, reply, nextSid>>
    BY <1>2 DEF ReadCommand
  <2>3. command' = [q \in Requests |-> command'[q]]
    BY <1>t, <1>2 DEF ReadCommand, Types
  <2>4. Types'
    BY <1>t, <1>0, <2>1, <2>2, <2>3 DEF Types, ListTypeOK, HandlerLabels
  <2> QED
    BY <1>1, <2>1, <2>2, <2>4 DEF HandlerLabels
<1>3. CASE HandleProxyInit(r)
  <2>1. PICK ok \in BOOLEAN : /\ Add([ideKey |-> command[r].key, sid |-> nextSid], ok)
                              /\ reply' = [reply EXCEPT ![r] = NewProxyInit(ok, ~ ok)]
    BY <1>3 DEF HandleProxyInit
  <2>2. /\ handler[r] = "understood" /\ handler' = [handler EXCEPT ![r] = "executed"]
        /\ nextSid' = nextSid + 1 /\ UNCHANGED command
    BY <1>3 DEF HandleProxyInit
  <2>3. ListTypeOK'
    BY <1>t, <2>1, ListStep DEF Types
  <2>4. NewProxyInit(ok, ~ ok) \in Verdicts
    BY NewVerdicts
  <2>5. Types'
    BY <1>t, <1>0, <2>1, <2>2, <2>3, <2>4 DEF Types, HandlerLabels
  <2>6. reply'[r].success \/ reply'[r].error
    <3>1. reply'[r] = NewProxyInit(ok, ~ ok)
      BY <1>t, <2>1 DEF Types
    <3> QED BY <3>1, NewVerdicts
  <2>7. \A q \in Requests : q # r => reply'[q] = reply[q]
    BY <1>t, <2>1 DEF Types
  <2> QED
    BY <1>1, <2>2, <2>5, <2>6, <2>7 DEF HandlerLabels
<1>4. CASE HandleProxyStop(r)
  <2>1. PICK ok \in BOOLEAN : /\ RemoveByKey(command[r].key, ok)
                              /\ reply' = [reply EXCEPT ![r] = NewProxyStop(ok, ~ ok)]
    BY <1>4 DEF HandleProxyStop
  <2>2. /\ handler[r] = "understood" /\ handler' = [handler EXCEPT ![r] = "executed"]
        /\ UNCHANGED <<command, nextSid>>
    BY <1>4 DEF HandleProxyStop
  <2>3. ListTypeOK'
    BY <1>t, <2>1, ListStep
  <2>4. NewProxyStop(ok, ~ ok) \in Verdicts
    BY NewVerdicts
  <2>5. Types'
    BY <1>t, <1>0, <2>1, <2>2, <2>3, <2>4 DEF Types, HandlerLabels
  <2>6. reply'[r].success \/ reply'[r].error
    <3>1. reply'[r] = NewProxyStop(ok, ~ ok)
      BY <1>t, <2>1 DEF Types
    <3> QED BY <3>1, NewVerdicts
  <2>7. \A q \in Requests : q # r => reply'[q] = reply[q]
    BY <1>t, <2>1 DEF Types
  <2> QED
    BY <1>1, <2>2, <2>5, <2>6, <2>7 DEF HandlerLabels
<1>5. CASE SendResponse(r)
  <2>1. /\ handler[r] = "executed" /\ handler' = [handler EXCEPT ![r] = "replied"]
        /\ UNCHANGED <<connections, command, reply, nextSid>>
    BY <1>5 DEF SendResponse, requestVars
  <2>2. Types'
    BY <1>t, <1>0, <2>1 DEF Types, ListTypeOK, HandlerLabels
  <2>3. reply'[r].success \/ reply'[r].error
    BY <1>t, <2>1 DEF SaysWhy
  <2> QED
    BY <1>1, <2>1, <2>2, <2>3 DEF HandlerLabels
<1> QED
  BY <1>2, <1>3, <1>4, <1>5 DEF HandlerStep

\* Every step keeps what has been promised.
LEMMA NextVerdicts == IInv /\ [Next]_vars => IInv'
<1> SUFFICES ASSUME IInv, [Next]_vars
             PROVE  IInv'
  OBVIOUS
<1>1. ASSUME NEW c \in Clients, Start(c) \/ Receive(c) \/ Leave(c)
      PROVE  IInv'
  BY <1>1, ClientStep DEF Receive
<1>2. ASSUME NEW c \in Clients, Serve(c)
      PROVE  IInv'
  BY <1>2, HandlerStepKeeps, RequestsOf DEF Serve
<1>3. ASSUME NEW k \in Keys, Drop(k)
      PROVE  IInv'
  <2>0. /\ drops[k] < MaxDrops /\ drops' = [drops EXCEPT ![k] = @ + 1]
        /\ UNCHANGED <<client, handler, command, reply, nextSid>>
    BY <1>3 DEF Drop, clientVars, requestVars
  <2>1. ListTypeOK'
    BY <1>3, ListStep DEF Drop, IInv, Types
  <2>2. drops' \in [Keys -> 0..MaxDrops]
    BY <2>0, ClientsAssumption DEF IInv, Types
  <2>3. Types'
    BY <2>0, <2>1, <2>2 DEF IInv, Types
  <2>4. OneByOne' /\ Answered' /\ SaysWhy' /\ VerdictIsReal'
    BY <2>0 DEF IInv, OneByOne, Answered, SaysWhy, VerdictIsReal
  <2> QED
    BY <2>3, <2>4 DEF IInv
<1>4. CASE UNCHANGED vars
  BY <1>4 DEF vars, clientVars, requestVars, IInv, Types, ListTypeOK, OneByOne, Answered,
              SaysWhy, VerdictIsReal
<1> QED
  BY <1>1, <1>2, <1>3, <1>4 DEF Next

\* In every reachable state: dbgpClient goes on to listen, or exits with success,
\* only if the proxy has done what it asked for, and whoever is refused is told
\* why (RunAndQuit, handleProxyArguments, ProxyInitCommand.Handle,
\* ProxyStopCommand.Handle).
THEOREM VerdictsAreReal == Spec => []VerdictIsReal
<1>1. Init => IInv
  BY InitVerdicts
<1>2. IInv /\ [Next]_vars => IInv'
  BY NextVerdicts
<1>3. IInv => VerdictIsReal
  BY DEF IInv
<1> QED
  BY <1>1, <1>2, <1>3, PTL DEF Spec

-----------------------------------------------------------------------------
\* What has been acknowledged is finite, as a part of all requests.
LEMMA SuccessesFinite ==
  ASSUME NEW verb, NEW k
  PROVE  /\ IsFiniteSet(Successes(verb, k)) /\ Cardinality(Successes(verb, k)) \in Nat
         /\ IsFiniteSet(Successes(verb, k)') /\ Cardinality(Successes(verb, k)') \in Nat
<1>1. IsFiniteSet(Verbs)
  <2>1. Verbs = {} \cup {"proxyinit"} \cup {"proxystop"}
    BY DEF Verbs
  <2> QED BY <2>1, FS_EmptySet, FS_AddElement
<1>2. IsFiniteSet(Requests)
  BY <1>1, ClientsAssumption, FS_Product DEF Requests
<1>3. Successes(verb, k) \in SUBSET Requests /\ Successes(verb, k)' \in SUBSET Requests
  BY DEF Successes
<1>4. IsFiniteSet(Successes(verb, k)) /\ IsFiniteSet(Successes(verb, k)')
  BY <1>2, <1>3, FS_Subset
<1> QED
  BY <1>4, FS_CardinalityType

\* Who has been acknowledged is a matter of those four.
LEMMA SuccessesBy ==
  ASSUME NEW verb, NEW k,
         \A r \in Requests :
           \/ handler'[r] = handler[r] /\ command'[r] = command[r] /\ reply'[r] = reply[r]
           \/ /\ handler[r] \notin {"executed", "replied"}
              /\ handler'[r] \notin {"executed", "replied"}
           \/ /\ {handler[r], handler'[r]} \subseteq {"executed", "replied"}
              /\ command'[r] = command[r] /\ reply'[r] = reply[r]
  PROVE  Successes(verb, k)' = Successes(verb, k)
BY DEF Successes

\* How many commands of a kind have been carried out on a key with success.
Acknowledged(verb, k) == Cardinality(Successes(verb, k))

\* Nobody is told of a success with the key, or one with this command is, or the
\* handler of an engine drops it.
NobodyIsTold(k) ==
  /\ UNCHANGED <<Acknowledged("proxyinit", k), Acknowledged("proxystop", k)>>
  /\ drops'[k] = drops[k]

Told(verb, other, k) ==
  /\ Acknowledged(verb, k)' = Acknowledged(verb, k) + 1
  /\ Acknowledged(other, k)' = Acknowledged(other, k)
  /\ drops'[k] = drops[k]

Dropped(k) ==
  /\ UNCHANGED <<Acknowledged("proxyinit", k), Acknowledged("proxystop", k)>>
  /\ drops'[k] = drops[k] + 1

\* What may happen to the registration of a key, and who is told of it: it comes
\* with the success of a proxyinit, and goes with that of a proxystop, is dropped,
\* or goes with the success of a proxyinit if the proxy was started with -f.
Booked(k) ==
  \/ NobodyIsTold(k) /\ connections'[k] = connections[k]
  \/ Told("proxyinit", "proxystop", k) /\ ~ Registered(k) /\ Registered(k)'
  \/ Told("proxyinit", "proxystop", k) /\ ForceAdd /\ Registered(k) /\ ~ Registered(k)'
  \/ Told("proxystop", "proxyinit", k) /\ Registered(k) /\ ~ Registered(k)'
  \/ Dropped(k) /\ Registered(k) /\ ~ Registered(k)'

\* With -f a key may be registered no more, although more proxyinits than removals
\* have been acknowledged for it; never the other way round.
NoMoreThanAcknowledged ==
  \A k \in Keys :
    Acknowledged("proxystop", k) + drops[k] + (IF Registered(k) THEN 1 ELSE 0)
      <= Acknowledged("proxyinit", k)

\* A step that acknowledges nothing, and moves no registration.
LEMMA NothingBooked ==
  ASSUME UNCHANGED <<connections, drops>>,
         \A r \in Requests :
           \/ handler'[r] = handler[r] /\ command'[r] = command[r] /\ reply'[r] = reply[r]
           \/ /\ handler[r] \notin {"executed", "replied"}
              /\ handler'[r] \notin {"executed", "replied"}
           \/ /\ {handler[r], handler'[r]} \subseteq {"executed", "replied"}
              /\ command'[r] = command[r] /\ reply'[r] = reply[r],
         NEW k
  PROVE  Booked(k)
<1>1. \A verb : Successes(verb, k)' = Successes(verb, k)
  BY SuccessesBy
<1> QED
  BY <1>1 DEF Booked, NobodyIsTold, Acknowledged

\* A process that sends a command uses a connection that was not in use, and
\* touches no other.
LEMMA SendTouches ==
  ASSUME IInv, NEW c \in Clients, NEW verb \in Verbs, NEW l, Send(c, verb, l),
         verb = "proxyinit" => client[c] = "start",
         verb = "proxystop" => client[c] \in {"start", "proxyinit"}
  PROVE  \A r \in Requests :
           \/ handler'[r] = handler[r]
           \/ r = <<c, verb>> /\ handler[r] = "none" /\ handler'[r] = "reading"
<1>1. <<c, verb>> \in Requests /\ handler[<<c, verb>>] = "none"
  BY RequestsOf DEF IInv, OneByOne, Verbs
<1>2. CASE handler' = [handler EXCEPT ![<<c, verb>>] = "reading"]
  BY <1>1, <1>2 DEF IInv, Types
<1> QED
  BY <1>2 DEF Send

\* A process acknowledges nothing.
LEMMA ClientBooked ==
  ASSUME IInv, NEW c \in Clients, Start(c) \/ Receive(c) \/ Leave(c), NEW k
  PROVE  Booked(k)
<1>0. UNCHANGED <<connections, command, reply, drops>>
  BY DEF Start, Receive, ReceiveReply, ReceiveEOF, Leave, requestVars
<1>1. CASE UNCHANGED handler
  BY <1>0, <1>1, NothingBooked
<1>2. CASE client[c] = "start" /\ \E l : Send(c, "proxyinit", l) \/ Send(c, "proxystop", l)
  <2>1. \A r \in Requests :
          \/ handler'[r] = handler[r]
          \/ handler[r] = "none" /\ handler'[r] = "reading"
    BY <1>2, SendTouches DEF Verbs
  <2> QED BY <1>0, <2>1, NothingBooked
<1>3. CASE client[c] = "proxyinit" /\ \E l : Send(c, "proxystop", l)
  <2>1. \A r \in Requests :
          \/ handler'[r] = handler[r]
          \/ handler[r] = "none" /\ handler'[r] = "reading"
    BY <1>3, SendTouches DEF Verbs
  <2> QED BY <1>0, <2>1, NothingBooked
<1> QED
  BY <1>1, <1>2, <1>3 DEF Start, Receive, ReceiveReply, ReceiveEOF, Leave

\* Carrying out a command changes the registration of its key exactly if the reply
\* is a success; without -f an Add that succeeds has found nothing.
LEMMA ExecutionBooked ==
  ASSUME IInv, NEW r \in Requests, HandleProxyInit(r) \/ HandleProxyStop(r), NEW k \in Keys
  PROVE  Booked(k)
<1>t. Types /\ ListTypeOK /\ nextSid \in Nat
  BY DEF IInv, Types
<1>0. /\ handler[r] = "understood" /\ handler' = [handler EXCEPT ![r] = "executed"]
      /\ command[r].name \in Verbs /\ UNCHANGED <<command, drops>>
  BY DEF HandleProxyInit, HandleProxyStop, Verbs
<1>1. PICK ok \in BOOLEAN :
        /\ command[r].name = "proxyinit" =>
             Add([ideKey |-> command[r].key, sid |-> nextSid], ok)
        /\ command[r].name = "proxystop" => RemoveByKey(command[r].key, ok)
        /\ \E d \in Verdicts : d.success = ok /\ reply' = [reply EXCEPT ![r] = d]
  <2>1. CASE HandleProxyInit(r)
    <3>1. PICK ok \in BOOLEAN : /\ Add([ideKey |-> command[r].key, sid |-> nextSid], ok)
                                /\ reply' = [reply EXCEPT ![r] = NewProxyInit(ok, ~ ok)]
      BY <2>1 DEF HandleProxyInit
    <3>2. command[r].name = "proxyinit"
      BY <2>1 DEF HandleProxyInit
    <3> QED BY <3>1, <3>2, NewVerdicts
  <2>2. CASE HandleProxyStop(r)
    <3>1. PICK ok \in BOOLEAN : /\ RemoveByKey(command[r].key, ok)
                                /\ reply' = [reply EXCEPT ![r] = NewProxyStop(ok, ~ ok)]
      BY <2>2 DEF HandleProxyStop
    <3>2. command[r].name = "proxystop"
      BY <2>2 DEF HandleProxyStop
    <3> QED BY <3>1, <3>2, NewVerdicts
  <2> QED BY <2>1, <2>2
<1>2. /\ handler'[r] = "executed" /\ (reply'[r].success <=> ok)
      /\ \A q \in Requests : q # r => handler'[q] = handler[q] /\ reply'[q] = reply[q]
  BY <1>t, <1>0, <1>1 DEF Types
<1>3. ASSUME NEW verb \in Verbs, ~ (command[r].name = verb /\ command[r].key = k /\ ok)
      PROVE  Acknowledged(verb, k)' = Acknowledged(verb, k)
  <2>1. Successes(verb, k)' = Successes(verb, k)
    BY <1>0, <1>2, <1>3 DEF Successes
  <2> QED BY <2>1 DEF Acknowledged
<1>4. ASSUME NEW verb \in Verbs, command[r].name = verb, command[r].key = k, ok
      PROVE  Acknowledged(verb, k)' = Acknowledged(verb, k) + 1
  <2>1. Successes(verb, k)' = Successes(verb, k) \cup {r}
    BY <1>0, <1>2, <1>4 DEF Successes
  <2>2. r \notin Successes(verb, k)
    BY <1>0 DEF Successes
  <2> QED
    BY <2>1, <2>2, SuccessesFinite, FS_AddElement DEF Acknowledged
<1>6. CASE command[r].key # k
  <2>1. connections'[k] = connections[k]
    BY <1>0, <1>1, <1>6, <1>t DEF Add, RemoveByKey, ListTypeOK, Verbs
  <2>2. UNCHANGED <<Acknowledged("proxyinit", k), Acknowledged("proxystop", k)>>
    BY <1>3, <1>6 DEF Verbs
  <2> QED
    BY <1>0, <2>1, <2>2 DEF Booked, NobodyIsTold
<1>7. CASE command[r].key = k /\ ~ ok
  <2>1. connections'[k] = connections[k]
    BY <1>0, <1>1, <1>7, <1>t DEF Add, RemoveByKey, Registered, ListTypeOK, Verbs
  <2>2. UNCHANGED <<Acknowledged("proxyinit", k), Acknowledged("proxystop", k)>>
    BY <1>3, <1>7 DEF Verbs
  <2> QED
    BY <1>0, <2>1, <2>2 DEF Booked, NobodyIsTold
<1>8. CASE command[r].key = k /\ ok /\ command[r].name = "proxyinit"
  <2>1. Told("proxyinit", "proxystop", k)
    BY <1>0, <1>3, <1>4, <1>8 DEF Told, Verbs
  <2>2. Add([ideKey |-> k, sid |-> nextSid], TRUE)
    BY <1>1, <1>8
  <2>3. CASE ~ Registered(k) /\ connections'[k] = [ideKey |-> k, sid |-> nextSid]
    <3>1. Registered(k)'
      BY <1>t, <2>3, NoConnectionAssumption DEF Registered, Connection
    <3> QED BY <2>1, <2>3, <3>1 DEF Booked
  <2>4. CASE Registered(k) /\ ForceAdd /\ connections'[k] = NoConnection
    <3>1. ~ Registered(k)'
      BY <2>4 DEF Registered
    <3> QED BY <2>1, <2>4, <3>1 DEF Booked
  <2> QED
    BY <1>t, <2>2, <2>3, <2>4 DEF Add, ListTypeOK
<1>9. CASE command[r].key = k /\ ok /\ command[r].name = "proxystop"
  <2>1. Told("proxystop", "proxyinit", k)
    BY <1>0, <1>3, <1>4, <1>9 DEF Told, Verbs
  <2>2. Registered(k) /\ ~ Registered(k)'
    BY <1>1, <1>9, <1>t DEF RemoveByKey, Registered, ListTypeOK
  <2> QED BY <2>1, <2>2 DEF Booked
<1> QED
  BY <1>0, <1>6, <1>7, <1>8, <1>9 DEF Verbs

\* Every step keeps the books.
LEMMA NextBooked ==
  ASSUME IInv, [Next]_vars, NEW k \in Keys
  PROVE  Booked(k)
<1>t. Types
  BY DEF IInv
<1>1. ASSUME NEW c \in Clients, Start(c) \/ Receive(c) \/ Leave(c)
      PROVE  Booked(k)
  BY <1>1, ClientBooked
<1>2. ASSUME NEW c \in Clients, Serve(c)
      PROVE  Booked(k)
  <2>1. PICK r \in Requests : HandlerStep(r)
    BY <1>2, RequestsOf DEF Serve
  <2>2. CASE ReadCommand(r)
    <3>1. /\ handler[r] = "reading" /\ handler'[r] \in {"understood", "failed"}
          /\ UNCHANGED <<connections, reply, drops>>
          /\ \A q \in Requests : q # r => handler'[q] = handler[q] /\ command'[q] = command[q]
      BY <1>t, <2>2 DEF ReadCommand, Types
    <3>2. \A q \in Requests :
            \/ handler'[q] = handler[q] /\ command'[q] = command[q] /\ reply'[q] = reply[q]
            \/ /\ handler[q] \notin {"executed", "replied"}
               /\ handler'[q] \notin {"executed", "replied"}
      BY <3>1
    <3> QED BY <3>1, <3>2, NothingBooked
  <2>3. CASE SendResponse(r)
    <3>1. /\ handler[r] = "executed" /\ handler'[r] = "replied"
          /\ UNCHANGED <<connections, command, reply, drops>>
          /\ \A q \in Requests : q # r => handler'[q] = handler[q]
      BY <1>t, <2>3 DEF SendResponse, Types, requestVars
    <3>2. \A q \in Requests :
            \/ handler'[q] = handler[q]
            \/ {handler[q], handler'[q]} \subseteq {"executed", "replied"}
      BY <3>1
    <3> QED BY <3>1, <3>2, NothingBooked
  <2> QED
    BY <2>1, <2>2, <2>3, ExecutionBooked DEF HandlerStep
<1>3. ASSUME NEW m \in Keys, Drop(m)
      PROVE  Booked(k)
  <2>0. /\ Registered(m) /\ connections' = [connections EXCEPT ![m] = NoConnection]
        /\ drops' = [drops EXCEPT ![m] = @ + 1]
        /\ UNCHANGED <<handler, command, reply>>
    BY <1>3 DEF Drop, RemoveByKey, requestVars
  <2>1. UNCHANGED <<Acknowledged("proxyinit", k), Acknowledged("proxystop", k)>>
    BY <2>0, SuccessesBy DEF Acknowledged
  <2>2. CASE k # m
    BY <1>t, <2>0, <2>1, <2>2 DEF Types, ListTypeOK, Booked, NobodyIsTold
  <2>3. CASE k = m
    <3>1. Registered(k) /\ ~ Registered(k)' /\ drops'[k] = drops[k] + 1
      BY <1>t, <2>0, <2>3, ClientsAssumption DEF Types, ListTypeOK, Registered
    <3> QED
      BY <2>1, <3>1 DEF Booked, Dropped
  <2> QED BY <2>2, <2>3
<1>4. CASE UNCHANGED vars
  <2>1. UNCHANGED <<connections, drops, handler, command, reply>>
    BY <1>4 DEF vars, clientVars, requestVars
  <2> QED
    BY <2>1, NothingBooked
<1> QED
  BY <1>1, <1>2, <1>3, <1>4 DEF Next

\* At the start the books are empty.
LEMMA InitBooks ==
  Init => RepliesAddUp /\ NoMoreThanAcknowledged
<1> SUFFICES ASSUME Init, NEW k \in Keys
             PROVE  /\ Acknowledged("proxyinit", k) = 0 /\ Acknowledged("proxystop", k) = 0
                    /\ drops[k] = 0 /\ ~ Registered(k)
  BY DEF RepliesAddUp, NoMoreThanAcknowledged, Acknowledged
<1>1. Successes("proxyinit", k) = {} /\ Successes("proxystop", k) = {}
  BY DEF Init, Successes
<1>2. drops[k] = 0 /\ ~ Registered(k)
  BY DEF Init, ListInit, Registered
<1> QED BY <1>1, <1>2, FS_EmptySet DEF Acknowledged

\* What is counted is a number.
LEMMA BooksAreNumbers ==
  ASSUME IInv, NEW k \in Keys
  PROVE  /\ Acknowledged("proxyinit", k) \in Nat /\ Acknowledged("proxyinit", k)' \in Nat
         /\ Acknowledged("proxystop", k) \in Nat /\ Acknowledged("proxystop", k)' \in Nat
         /\ drops[k] \in Nat
BY SuccessesFinite, ClientsAssumption DEF Acknowledged, IInv, Types

\* In every step: the registration of a key changes only when exactly one success
\* is acknowledged for it, or an engine's handler drops it; a success always
\* changes it, and in the right direction unless the proxy was started with -f
\* (ProxyInitCommand.Handle, ProxyStopCommand.Handle, Add, RemoveByKey).
THEOREM ChangesAreAcknowledged == Spec => [][\A k \in Keys : Booked(k)]_vars
<1>1. Init => IInv
  BY InitVerdicts
<1>2. IInv /\ [Next]_vars => IInv' /\ [\A k \in Keys : Booked(k)]_vars
  BY NextVerdicts, NextBooked
<1> QED
  BY <1>1, <1>2, PTL DEF Spec

\* Unless the proxy was started with -f: in every reachable state, a key is
\* registered exactly if one more proxyinit than removals has been acknowledged for
\* it, whoever asks for what at the same time (ProxyInitCommand.Handle,
\* ProxyStopCommand.Handle, Add, RemoveByKey).
THEOREM AcknowledgementsAddUp ==
  ASSUME ~ ForceAdd
  PROVE  Spec => []RepliesAddUp
<1>1. Init => IInv /\ RepliesAddUp
  BY InitVerdicts, InitBooks
<1>2. IInv /\ RepliesAddUp /\ [Next]_vars => IInv' /\ RepliesAddUp'
  <2> SUFFICES ASSUME IInv, RepliesAddUp, [Next]_vars, NEW k \in Keys
               PROVE  Acknowledged("proxyinit", k)' =
                        Acknowledged("proxystop", k)' + drops'[k]
                          + (IF Registered(k)' THEN 1 ELSE 0)
    BY NextVerdicts DEF RepliesAddUp, Acknowledged
  <2>1. Acknowledged("proxyinit", k) =
          Acknowledged("proxystop", k) + drops[k] + (IF Registered(k) THEN 1 ELSE 0)
    BY DEF RepliesAddUp, Acknowledged
  <2>2. Booked(k)
    BY NextBooked
  <2>3. (connections'[k] = connections[k]) => (Registered(k)' <=> Registered(k))
    BY DEF Registered
  <2> QED
    BY <2>1, <2>2, <2>3, BooksAreNumbers DEF Booked, NobodyIsTold, Told, Dropped
<1> QED
  BY <1>1, <1>2, PTL DEF Spec

\* With -f or without: in every reachable state, no key is registered for which
\* not more proxyinits than removals have been acknowledged, so no IDE is ever
\* registered that was not told so, or after it was told that it is no longer; and
\* no proxystop succeeds that nothing was registered for (ProxyInitCommand.Handle,
\* ProxyStopCommand.Handle, Add, RemoveByKey).
THEOREM NothingUnacknowledged == Spec => []NoMoreThanAcknowledged
<1>1. Init => IInv /\ NoMoreThanAcknowledged
  BY InitVerdicts, InitBooks
<1>2. IInv /\ NoMoreThanAcknowledged /\ [Next]_vars => IInv' /\ NoMoreThanAcknowledged'
  <2> SUFFICES ASSUME IInv, NoMoreThanAcknowledged, [Next]_vars, NEW k \in Keys
               PROVE  Acknowledged("proxystop", k)' + drops'[k]
                        + (IF Registered(k)' THEN 1 ELSE 0) <= Acknowledged("proxyinit", k)'
    BY NextVerdicts DEF NoMoreThanAcknowledged
  <2>1. Acknowledged("proxystop", k) + drops[k] + (IF Registered(k) THEN 1 ELSE 0)
          <= Acknowledged("proxyinit", k)
    BY DEF NoMoreThanAcknowledged
  <2>2. Booked(k)
    BY NextBooked
  <2>3. (connections'[k] = connections[k]) => (Registered(k)' <=> Registered(k))
    BY DEF Registered
  <2> QED
    BY <2>1, <2>2, <2>3, BooksAreNumbers DEF Booked, NobodyIsTold, Told, Dropped
<1> QED
  BY <1>1, <1>2, PTL DEF Spec

-----------------------------------------------------------------------------
(* How commands are understood.                                            *)

\* The line that is sent for a request.
Written(r) ==
  LET a == asked[r[1]]
  IN IF r[2] = "proxyinit" THEN ProcessLine(RegisterLine(a.register, a.port, a.ssl), "1")
                           ELSE ProcessLine(UnregisterLine(a.unregister), "1")

\* What is on record of a request is what was asked for, and what the parser made
\* of it; nothing else is ever carried out.
OnRecord(r) ==
  /\ handler[r] = "none" => line[r] = <<>>
  /\ handler[r] # "none" =>
       client[r[1]] # "start" /\ line[r] = Written(r) /\ KeyAsked(r) # NotGiven
  /\ handler[r] \in {"understood", "executed", "replied"} => command[r] = ParseLine(line[r])
  /\ handler[r] \in {"none", "reading", "failed"} => ~ command[r].ok
  /\ (handler[r] = "failed" /\ client[r[1]] # "left") => ~ ParseLine(line[r]).ok

Recorded ==
  /\ asked = [c \in Clients |-> asked[c]]
  /\ line = [r \in Requests |-> line[r]]
  /\ \A c \in Clients : client[c] # "start" => asked[c] \in Options[c]
  /\ \A r \in Requests : OnRecord(r)

\* A request is a process and the name of a command.
LEMMA RequestParts ==
  ASSUME NEW r \in Requests
  PROVE  r[1] \in Clients /\ r[2] \in Verbs /\ r = <<r[1], r[2]>>
BY DEF Requests

\* A step that leaves a request alone, and does not bring its process back.
LEMMA StaysOnRecord ==
  ASSUME NEW r \in Requests, OnRecord(r),
         handler'[r] = handler[r], line'[r] = line[r], command'[r] = command[r],
         handler[r] # "none" =>
           /\ asked'[r[1]] = asked[r[1]] /\ client'[r[1]] # "start"
           /\ client[r[1]] = "left" => client'[r[1]] = "left"
  PROVE  OnRecord(r)'
BY DEF OnRecord, Written, KeyAsked

\* A process sends what its user has asked for.
LEMMA SendRecorded ==
  ASSUME IInv, Recorded, UNCHANGED command, NEW c \in Clients, NEW verb \in Verbs, NEW l,
         Send(c, verb, l),
         verb = "proxyinit" => client[c] = "start",
         verb = "proxystop" => client[c] \in {"start", "proxyinit"},
         asked' = [d \in Clients |-> asked'[d]], asked'[c] \in Options[c],
         \A d \in Clients : d # c => asked'[d] = asked[d],
         client[c] = "start" \/ asked'[c] = asked[c],
         verb = "proxyinit" => /\ asked'[c].register # NotGiven
                               /\ l = RegisterLine(asked'[c].register, asked'[c].port,
                                                   asked'[c].ssl),
         verb = "proxystop" => /\ asked'[c].unregister # NotGiven
                               /\ l = UnregisterLine(asked'[c].unregister)
  PROVE  Recorded'
<1>t. Types /\ OneByOne
  BY DEF IInv
<1>0. <<c, verb>> \in Requests /\ handler[<<c, verb>>] = "none"
  BY <1>t, RequestsOf DEF OneByOne, Verbs
<1>1. /\ \A d \in Clients : d # c => client'[d] = client[d]
      /\ client'[c] \in {verb, "failed"} /\ client'[c] \notin {"start"}
      /\ client[c] # "left"
  BY <1>t DEF Send, Types, Verbs
<1>2. \A r \in Requests : r # <<c, verb>> => handler'[r] = handler[r] /\ line'[r] = line[r]
  BY <1>t, <1>0 DEF Send, Types, Recorded
<1>3. line' = [r \in Requests |-> line'[r]]
  <2>1. CASE line' = [line EXCEPT ![<<c, verb>>] = ProcessLine(l, "1")]
    BY <2>1 DEF Recorded
  <2>2. CASE UNCHANGED line
    BY <2>2 DEF Recorded
  <2> QED BY <2>1, <2>2 DEF Send
<1>4. \A d \in Clients : client'[d] # "start" => asked'[d] \in Options[d]
  BY <1>1 DEF Recorded
<1>5. ASSUME NEW r \in Requests, handler'[r] = handler[r], line'[r] = line[r]
      PROVE  OnRecord(r)'
  <2>1. handler[r] # "none" =>
          /\ asked'[r[1]] = asked[r[1]] /\ client'[r[1]] # "start"
          /\ client[r[1]] = "left" => client'[r[1]] = "left"
    <3>1. r[1] \in Clients
      BY RequestParts
    <3>2. handler[r] # "none" => client[r[1]] # "start"
      BY DEF Recorded, OnRecord
    <3> QED BY <1>1, <3>1, <3>2
  <2> QED
    BY <1>5, <2>1, StaysOnRecord DEF Recorded
<1>6. CASE /\ client' = [client EXCEPT ![c] = verb]
           /\ handler' = [handler EXCEPT ![<<c, verb>>] = "reading"]
           /\ line' = [line EXCEPT ![<<c, verb>>] = ProcessLine(l, "1")]
  <2> DEFINE r == <<c, verb>>
  <2>1. r \in Requests /\ r[1] = c /\ r[2] = verb
    BY <1>0
  <2>2. handler'[r] = "reading" /\ line'[r] = ProcessLine(l, "1")
    BY <1>t, <1>6, <2>1 DEF Types, Recorded
  <2>3. ~ command[r].ok
    BY <1>0 DEF Recorded, OnRecord
  <2> HIDE DEF r
  <2>4. Written(r)' = ProcessLine(l, "1") /\ KeyAsked(r)' # NotGiven
    BY <2>1 DEF Written, KeyAsked, Verbs
  <2>5. OnRecord(r)'
    BY <1>1, <2>1, <2>2, <2>3, <2>4 DEF OnRecord
  <2>6. \A q \in Requests : OnRecord(q)'
    BY <1>2, <1>5, <2>5 DEF r
  <2> QED
    BY <1>3, <1>4, <2>6 DEF Recorded
<1>7. CASE UNCHANGED <<handler, line>>
  BY <1>3, <1>4, <1>5, <1>7 DEF Recorded
<1> QED
  BY <1>6, <1>7 DEF Send

\* Every step of a process leaves the record straight.
LEMMA ClientRecorded ==
  ASSUME IInv, Recorded, NEW c \in Clients, Start(c) \/ Receive(c) \/ Leave(c)
  PROVE  Recorded'
<1>t. Types
  BY DEF IInv
<1>1. ASSUME UNCHANGED <<asked, line, handler, command>>,
             client[c] # "left", NEW label, label # "start",
             client' = [client EXCEPT ![c] = label]
      PROVE  Recorded'
  <2>1. \A d \in Clients : client'[d] = IF d = c THEN label ELSE client[d]
    BY <1>t, <1>1 DEF Types
  <2>2. ASSUME NEW r \in Requests
        PROVE  OnRecord(r)'
    <3>1. r[1] \in Clients /\ OnRecord(r)
      BY RequestParts DEF Recorded
    <3>2. handler[r] # "none" => client[r[1]] # "start"
      BY <3>1 DEF OnRecord
    <3>3. /\ client'[r[1]] = "start" => client[r[1]] = "start"
          /\ client[r[1]] = "left" => client'[r[1]] = "left"
      BY <1>1, <2>1, <3>1
    <3> QED BY <1>1, <3>1, <3>2, <3>3, StaysOnRecord
  <2>3. asked' = [d \in Clients |-> asked'[d]] /\ line' = [r \in Requests |-> line'[r]]
    BY <1>1 DEF Recorded
  <2>4. client[c] # "start" => \A d \in Clients : client'[d] # "start" => asked'[d] \in Options[d]
    BY <1>1, <2>1 DEF Recorded
  <2>5. client[c] \in Verbs \cup {"listening"} => client[c] # "start"
    BY DEF Verbs
  <2>6. ASSUME client[c] # "start" PROVE Recorded'
    BY <2>2, <2>3, <2>4, <2>6 DEF Recorded
  <2>7. CASE client[c] = "start"
    <3>1. ~ (Receive(c) \/ Leave(c))
      BY <2>7 DEF Receive, ReceiveReply, ReceiveEOF, Leave, Verbs
    <3>2. PICK a \in Options[c] : asked' = [asked EXCEPT ![c] = a]
      BY <3>1 DEF Start
    <3>3. asked'[c] \in Options[c]
      BY <3>2 DEF Recorded
    <3>4. \A d \in Clients : client'[d] # "start" => asked'[d] \in Options[d]
      BY <1>1, <2>1, <3>3 DEF Recorded
    <3> QED BY <2>2, <2>3, <3>4 DEF Recorded
  <2> QED BY <2>6, <2>7
<1>2. CASE Start(c)
  <2>1. client[c] = "start" /\ UNCHANGED command
    BY <1>2 DEF Start, requestVars
  <2>2. PICK a \in Options[c] :
          /\ asked' = [asked EXCEPT ![c] = a]
          /\ IF a.register # NotGiven
               THEN Send(c, "proxyinit", RegisterLine(a.register, a.port, a.ssl))
               ELSE Send(c, "proxystop", UnregisterLine(a.unregister))
    BY <1>2 DEF Start
  <2>3. /\ asked'[c] = a /\ \A d \in Clients : d # c => asked'[d] = asked[d]
        /\ asked' = [d \in Clients |-> asked'[d]]
    BY <2>2 DEF Recorded
  <2>4. CASE a.register # NotGiven
    BY <2>1, <2>2, <2>3, <2>4, SendRecorded DEF Verbs
  <2>5. CASE a.register = NotGiven
    <3>1. a.unregister # NotGiven
      BY <2>5, OptionsAssumption
    <3> QED BY <2>1, <2>2, <2>3, <2>5, <3>1, SendRecorded DEF Verbs
  <2> QED BY <2>4, <2>5
<1>3. CASE Leave(c)
  <2>1. client[c] # "left"
    BY <1>3 DEF Leave, Verbs
  <2> QED BY <1>1, <1>3, <2>1 DEF Leave, requestVars
<1>4. ASSUME NEW verb \in Verbs, ReceiveReply(c, verb)
      PROVE  Recorded'
  <2>0. client[c] = verb /\ client[c] # "left" /\ client[c] # "start" /\ UNCHANGED <<asked, command>>
    BY <1>4 DEF ReceiveReply, requestVars, Verbs
  <2>1. CASE client' = [client EXCEPT ![c] = "failed"] /\ UNCHANGED <<handler, line>>
    BY <1>1, <2>0, <2>1
  <2>2. CASE /\ verb = "proxyinit" /\ asked[c].unregister # NotGiven
             /\ Send(c, "proxystop", UnregisterLine(asked[c].unregister))
    <3>1. asked' = [d \in Clients |-> asked'[d]] /\ asked'[c] \in Options[c]
      BY <2>0 DEF Recorded
    <3>2. \A d \in Clients : d # c => asked'[d] = asked[d]
      BY <2>0
    <3> QED BY <2>0, <2>2, <3>1, <3>2, SendRecorded DEF Verbs
  <2>3. CASE /\ client' = [client EXCEPT ![c] =
                             IF verb = "proxyinit" THEN "listening" ELSE "exited"]
             /\ UNCHANGED <<handler, line>>
    <3>1. (IF verb = "proxyinit" THEN "listening" ELSE "exited") # "start"
      OBVIOUS
    <3> QED BY <1>1, <2>0, <2>3, <3>1
  <2> QED
    BY <1>4, <2>1, <2>2, <2>3 DEF ReceiveReply
<1>5. ASSUME NEW verb \in Verbs, ReceiveEOF(c, verb)
      PROVE  Recorded'
  <2>1. client[c] # "left"
    BY <1>5 DEF ReceiveEOF, Verbs
  <2> QED BY <1>1, <1>5, <2>1 DEF ReceiveEOF, requestVars
<1> QED
  BY <1>2, <1>3, <1>4, <1>5 DEF Receive

\* Every step of a goroutine does, too.
LEMMA HandlerRecorded ==
  ASSUME IInv, Recorded, NEW r \in Requests, HandlerStep(r)
  PROVE  Recorded'
<1>t. Types
  BY DEF IInv
<1>0. UNCHANGED <<client, asked, line>>
  BY DEF HandlerStep, ReadCommand, HandleProxyInit, HandleProxyStop, SendResponse, clientVars
<1>1. /\ asked' = [c \in Clients |-> asked'[c]] /\ line' = [q \in Requests |-> line'[q]]
      /\ \A c \in Clients : client'[c] # "start" => asked'[c] \in Options[c]
  BY <1>0 DEF Recorded
<1>2. OnRecord(r) /\ Written(r)' = Written(r) /\ KeyAsked(r)' = KeyAsked(r)
  BY <1>0 DEF Recorded, Written, KeyAsked
<1>3. ASSUME NEW label, handler[r] # "none", label # "none",
             handler' = [handler EXCEPT ![r] = label],
             \A q \in Requests : q # r => command'[q] = command[q],
             label \in {"understood", "executed", "replied"} => command'[r] = ParseLine(line[r]),
             label \in {"reading", "failed"} => ~ command'[r].ok,
             (label = "failed" /\ client[r[1]] # "left") => ~ ParseLine(line[r]).ok
      PROVE  Recorded'
  <2>1. handler'[r] = label /\ \A q \in Requests : q # r => handler'[q] = handler[q]
    BY <1>t, <1>3 DEF Types
  <2>2. OnRecord(r)'
    BY <1>0, <1>2, <1>3, <2>1 DEF OnRecord
  <2>3. ASSUME NEW q \in Requests, q # r
        PROVE  OnRecord(q)'
    <3>1. OnRecord(q) /\ handler'[q] = handler[q] /\ line'[q] = line[q] /\ command'[q] = command[q]
      BY <1>0, <1>3, <2>1, <2>3 DEF Recorded
    <3>2. handler[q] # "none" => client'[q[1]] # "start"
      BY <1>0, <3>1 DEF OnRecord
    <3> QED BY <1>0, <3>1, <3>2, StaysOnRecord
  <2> QED BY <1>1, <2>2, <2>3 DEF Recorded
<1>4. CASE ReadCommand(r)
  <2>0. handler[r] = "reading"
    BY <1>4 DEF ReadCommand
  <2>1. CASE /\ command' = [command EXCEPT ![r] = ParseLine(line[r])]
             /\ handler' = [handler EXCEPT ![r] =
                              IF ParseLine(line[r]).ok THEN "understood" ELSE "failed"]
    <3>1. /\ command'[r] = ParseLine(line[r])
          /\ \A q \in Requests : q # r => command'[q] = command[q]
      BY <1>t, <2>1 DEF Types
    <3>2. CASE ParseLine(line[r]).ok
      <4>1. handler' = [handler EXCEPT ![r] = "understood"]
        BY <2>1, <3>2
      <4> QED BY <1>3, <2>0, <3>1, <4>1
    <3>3. CASE ~ ParseLine(line[r]).ok
      <4>1. handler' = [handler EXCEPT ![r] = "failed"]
        BY <2>1, <3>3
      <4> QED BY <1>3, <2>0, <3>1, <3>3, <4>1
    <3> QED BY <3>2, <3>3
  <2>2. CASE /\ client[r[1]] = "left"
             /\ handler' = [handler EXCEPT ![r] = "failed"]
             /\ UNCHANGED command
    <3>1. ~ command[r].ok
      BY <1>2, <2>0 DEF OnRecord
    <3> QED BY <1>3, <2>0, <2>2, <3>1
  <2> QED BY <1>4, <2>1, <2>2 DEF ReadCommand
<1>5. CASE HandleProxyInit(r) \/ HandleProxyStop(r)
  <2>1. /\ handler[r] = "understood" /\ handler' = [handler EXCEPT ![r] = "executed"]
        /\ UNCHANGED command
    BY <1>5 DEF HandleProxyInit, HandleProxyStop
  <2>2. command[r] = ParseLine(line[r])
    BY <1>2, <2>1 DEF OnRecord
  <2> QED BY <1>3, <2>1, <2>2
<1>6. CASE SendResponse(r)
  <2>1. /\ handler[r] = "executed" /\ handler' = [handler EXCEPT ![r] = "replied"]
        /\ UNCHANGED command
    BY <1>6 DEF SendResponse, requestVars
  <2>2. command[r] = ParseLine(line[r])
    BY <1>2, <2>1 DEF OnRecord
  <2> QED BY <1>3, <2>1, <2>2
<1> QED
  BY <1>4, <1>5, <1>6 DEF HandlerStep

\* The record is straight from the start, and stays so.
LEMMA RecordedAlways ==
  /\ Init => Recorded
  /\ IInv /\ Recorded /\ [Next]_vars => Recorded'
<1>1. ASSUME Init
      PROVE  Recorded
  <2>1. \A c \in Clients : client[c] = "start"
    BY <1>1 DEF Init
  <2>2. \A r \in Requests : handler[r] = "none" /\ line[r] = <<>> /\ command[r] = NotUnderstood
    BY <1>1 DEF Init
  <2>3. \A r \in Requests : OnRecord(r)
    BY <2>2 DEF OnRecord, NotUnderstood
  <2>4. asked = [c \in Clients |-> asked[c]] /\ line = [r \in Requests |-> line[r]]
    BY <1>1 DEF Init
  <2> QED BY <2>1, <2>3, <2>4 DEF Recorded
<1>2. ASSUME IInv, Recorded, [Next]_vars
      PROVE  Recorded'
  <2>1. ASSUME NEW c \in Clients, Start(c) \/ Receive(c) \/ Leave(c)
        PROVE  Recorded'
    BY <1>2, <2>1, ClientRecorded
  <2>2. ASSUME NEW c \in Clients, Serve(c)
        PROVE  Recorded'
    BY <1>2, <2>2, HandlerRecorded, RequestsOf DEF Serve
  <2>3. ASSUME UNCHANGED <<client, handler, asked, line, command>>
        PROVE  Recorded'
    BY <1>2, <2>3 DEF Recorded, OnRecord, Written, KeyAsked
  <2>4. ASSUME NEW k \in Keys, Drop(k)
        PROVE  Recorded'
    BY <2>3, <2>4 DEF Drop, clientVars, requestVars
  <2>5. CASE UNCHANGED vars
    BY <2>3, <2>5 DEF vars, clientVars, requestVars
  <2> QED
    BY <1>2, <2>1, <2>2, <2>4, <2>5 DEF Next
<1> QED
  BY <1>1, <1>2

\* The tokens of a request: those of the command, and of the key.
LEMMA WrittenTypes ==
  ASSUME NEW r \in Requests, asked[r[1]] \in Options[r[1]]
  PROVE  /\ Written(r) \in Seq(Keys \cup {Blank}) /\ Len(Written(r)) > 0
         /\ Head(Written(r)) = r[2]
         /\ KeyAsked(r) \in Seq(Keys \cup {Blank}) /\ KeyAsked(r) # <<Blank>>
<1> DEFINE a == asked[r[1]]
<1> DEFINE S == Keys \cup {Blank}
<1>1. r[1] \in Clients /\ r[2] \in Verbs
  BY RequestParts
<1>2. /\ a.register \in Seq(S) /\ a.unregister \in Seq(S) /\ a.port \in Numerals
      /\ a.ssl \in BOOLEAN /\ <<Blank>> \notin {a.register, a.unregister}
  BY <1>1, OptionsAssumption
<1>3. CommandTokens \subseteq S /\ Blank \notin CommandTokens
  BY WordsAssumption, NumeralsAssumption DEF Words, Verbs, CommandTokens
<1>4. a.port \in S
  BY <1>2, WordsAssumption DEF Words
<1> HIDE DEF a, S
<1>12. ASSUME NEW key \in Seq(S), NEW port \in S, NEW ssl \in BOOLEAN
       PROVE  /\ ProcessLine(RegisterLine(key, port, ssl), "1") \in Seq(S)
              /\ Len(ProcessLine(RegisterLine(key, port, ssl), "1")) > 0
              /\ Head(ProcessLine(RegisterLine(key, port, ssl), "1")) = "proxyinit"
  BY <1>3, LineTypes, Zenon
<1>5. /\ ProcessLine(RegisterLine(a.register, a.port, a.ssl), "1") \in Seq(S)
      /\ Len(ProcessLine(RegisterLine(a.register, a.port, a.ssl), "1")) > 0
      /\ Head(ProcessLine(RegisterLine(a.register, a.port, a.ssl), "1")) = "proxyinit"
  BY <1>2, <1>4, <1>12, Zenon
<1>6. /\ ProcessLine(UnregisterLine(a.unregister), "1") \in Seq(S)
      /\ Len(ProcessLine(UnregisterLine(a.unregister), "1")) > 0
      /\ Head(ProcessLine(UnregisterLine(a.unregister), "1")) = "proxystop"
  BY <1>2, <1>3, <1>4, LineTypes, Zenon
<1>7. KeyAsked(r) = IF r[2] = "proxyinit" THEN a.register ELSE a.unregister
  BY DEF KeyAsked, a
<1>8. Written(r) = IF r[2] = "proxyinit"
                     THEN ProcessLine(RegisterLine(a.register, a.port, a.ssl), "1")
                     ELSE ProcessLine(UnregisterLine(a.unregister), "1")
  BY DEF Written, a
<1>9. r[2] = "proxyinit" \/ r[2] = "proxystop"
  BY <1>1 DEF Verbs
<1>10. CASE r[2] = "proxyinit"
  BY <1>2, <1>5, <1>7, <1>8, <1>10 DEF S
<1>11. CASE r[2] = "proxystop"
  BY <1>2, <1>6, <1>7, <1>8, <1>11 DEF S
<1> QED
  BY <1>9, <1>10, <1>11

\* A key without a space in it is understood, with all that goes with it.
LEMMA WrittenUnderstood ==
  ASSUME NEW r \in Requests, asked[r[1]] \in Options[r[1]], Len(KeyAsked(r)) = 1
  PROVE  LET parsed == ParseLine(Written(r))
         IN /\ parsed.ok /\ <<parsed.key>> = KeyAsked(r)
            /\ parsed.name = r[2]
            /\ parsed.name = "proxyinit" =>
                 parsed.port = asked[r[1]].port /\ parsed.ssl = asked[r[1]].ssl
<1> DEFINE a == asked[r[1]]
<1> DEFINE k == KeyAsked(r)[1]
<1>1. r[1] \in Clients /\ r[2] \in Verbs
  BY RequestParts
<1>2. a.port \in Numerals /\ a.ssl \in BOOLEAN
  BY <1>1, OptionsAssumption
<1>3. KeyAsked(r) \in Seq(Keys \cup {Blank}) /\ KeyAsked(r) # <<Blank>>
  BY WrittenTypes
<1>4. KeyAsked(r) = <<k>> /\ k \in Keys
  <2>0. 1 \in 1..Len(KeyAsked(r))
    OBVIOUS
  <2>1. k \in Keys \cup {Blank}
    BY <1>3, <2>0, ElementOfSeq
  <2>2. KeyAsked(r) = <<k>>
    BY <1>3
  <2> QED BY <1>3, <2>1, <2>2
<1>5. /\ {"proxyinit", "-i", "-m", "1", "-k", "-p", "-s"} \subseteq Keys
      /\ {"proxystop", "-i", "1", "-k"} \subseteq Keys
      /\ Blank \notin Keys /\ a.port \in Keys \cap Numerals
  BY <1>2, WordsAssumption, NumeralsAssumption DEF Words, Verbs
<1>6. KeyAsked(r) = IF r[2] = "proxyinit" THEN a.register ELSE a.unregister
  BY DEF KeyAsked, a
<1>7. Written(r) = IF r[2] = "proxyinit"
                     THEN ProcessLine(RegisterLine(a.register, a.port, a.ssl), "1")
                     ELSE ProcessLine(UnregisterLine(a.unregister), "1")
  BY DEF Written, a
<1> HIDE DEF a, k
<1>8. CASE r[2] = "proxyinit"
  <2>1. Written(r) = ProcessLine(RegisterLine(<<k>>, a.port, a.ssl), "1")
    BY <1>4, <1>6, <1>7, <1>8
  <2>2. LET parsed == ParseLine(ProcessLine(RegisterLine(<<k>>, a.port, a.ssl), "1"))
        IN /\ parsed.ok /\ parsed.name = "proxyinit" /\ parsed.key = k
           /\ parsed.port = a.port /\ parsed.ssl = a.ssl
    BY <1>2, <1>4, <1>5, RegisterUnderstood
  <2> QED BY <1>4, <1>8, <2>1, <2>2, Zenon DEF a
<1>9. CASE r[2] = "proxystop"
  <2>1. Written(r) = ProcessLine(UnregisterLine(<<k>>), "1")
    BY <1>4, <1>6, <1>7, <1>9
  <2>2. LET parsed == ParseLine(ProcessLine(UnregisterLine(<<k>>), "1"))
        IN parsed.ok /\ parsed.name = "proxystop" /\ parsed.key = k
    BY <1>4, <1>5, UnregisterUnderstood
  <2>3. "proxystop" # "proxyinit"
    OBVIOUS
  <2> QED BY <1>4, <1>9, <2>1, <2>2, <2>3, Zenon
<1> QED
  BY <1>1, <1>8, <1>9 DEF Verbs

\* In every reachable state: the key that is (un)registered, the port and the SSL
\* mode are those that the user gave, even if the key reads like a flag, and a
\* command is refused only if its key has a space in it (processLine, parseLine,
\* CreateProxyInit, CreateProxyStop).
THEOREM MeantIsUnderstood == Spec => []Understood
<1>1. Init => IInv /\ Recorded
  BY InitVerdicts, RecordedAlways
<1>2. IInv /\ Recorded /\ [Next]_vars => IInv' /\ Recorded'
  BY NextVerdicts, RecordedAlways
<1>3. IInv /\ Recorded => Understood
  <2> SUFFICES ASSUME Types, Recorded, NEW r \in Requests
               PROVE  /\ (command[r].ok /\ Len(KeyAsked(r)) = 1) =>
                           /\ <<command[r].key>> = KeyAsked(r)
                           /\ command[r].name = "proxyinit" =>
                                /\ command[r].port = asked[r[1]].port
                                /\ command[r].ssl = asked[r[1]].ssl
                      /\ (handler[r] = "failed" /\ client[r[1]] # "left") =>
                           Len(KeyAsked(r)) > 1
    BY DEF Understood, IInv
  <2>1. OnRecord(r) /\ r[1] \in Clients /\ handler[r] \in HandlerLabels
    BY RequestParts DEF Recorded, Types
  <2>2. CASE handler[r] = "none"
    BY <2>1, <2>2 DEF OnRecord
  <2>3. CASE handler[r] # "none"
    <3>1. /\ asked[r[1]] \in Options[r[1]] /\ line[r] = Written(r) /\ KeyAsked(r) # NotGiven
      BY <2>1, <2>3 DEF OnRecord, Recorded
    <3>2. ASSUME command[r].ok, Len(KeyAsked(r)) = 1
          PROVE  /\ <<command[r].key>> = KeyAsked(r)
                 /\ command[r].name = "proxyinit" =>
                      /\ command[r].port = asked[r[1]].port
                      /\ command[r].ssl = asked[r[1]].ssl
      <4>1. CASE command[r] = ParseLine(Written(r))
        BY <3>1, <3>2, <4>1, WrittenUnderstood, Zenon
      <4>2. CASE handler[r] \notin {"understood", "executed", "replied"}
        BY <2>1, <2>3, <3>2, <4>2 DEF OnRecord, HandlerLabels
      <4> QED BY <2>1, <3>1, <4>1, <4>2 DEF OnRecord
    <3>3. ASSUME handler[r] = "failed", client[r[1]] # "left"
          PROVE  Len(KeyAsked(r)) > 1
      <4>1. ~ ParseLine(Written(r)).ok
        BY <2>1, <3>1, <3>3 DEF OnRecord
      <4>2. Len(KeyAsked(r)) # 1
        BY <3>1, <4>1, WrittenUnderstood, Zenon
      <4>3. KeyAsked(r) \in Seq(Keys \cup {Blank}) /\ KeyAsked(r) # <<>>
        BY <3>1, WrittenTypes DEF NotGiven
      <4>4. Len(KeyAsked(r)) \in Nat
        BY <4>3
      <4>5. Len(KeyAsked(r)) # 0
        BY <4>3, EmptySeq
      <4> QED BY <4>2, <4>4, <4>5
    <3> QED BY <3>2, <3>3
  <2> QED BY <2>2, <2>3
<1> QED
  BY <1>1, <1>2, <1>3, PTL DEF Spec

\* In every reachable state: every variable has its type, so that what the proxy
\* (un)registers is always a key of its own, never an empty one, and under the
\* name of the command that was sent (parseLine, CreateProxyInit, CreateProxyStop).
THEOREM TypesAreRight == Spec => []TypeOK
<1>1. Init => IInv /\ Recorded
  BY InitVerdicts, RecordedAlways
<1>2. IInv /\ Recorded /\ [Next]_vars => IInv' /\ Recorded'
  BY NextVerdicts, RecordedAlways
<1>3. IInv /\ Recorded => TypeOK
  <2> SUFFICES ASSUME Types, Recorded
               PROVE  TypeOK
    BY DEF IInv
  <2>1. \A r \in Requests :
          /\ line[r] \in Seq(Keys \cup {Blank})
          /\ command[r].ok => command[r].key \in Keys /\ command[r].name = r[2]
    <3> SUFFICES ASSUME NEW r \in Requests
                 PROVE  /\ line[r] \in Seq(Keys \cup {Blank})
                        /\ command[r].ok => command[r].key \in Keys /\ command[r].name = r[2]
      OBVIOUS
    <3>1. OnRecord(r) /\ r[1] \in Clients /\ handler[r] \in HandlerLabels
      BY RequestParts DEF Recorded, Types
    <3>2. CASE handler[r] = "none"
      <4>1. line[r] = <<>> /\ ~ command[r].ok
        BY <3>1, <3>2 DEF OnRecord
      <4>2. <<>> \in Seq(Keys \cup {Blank})
        OBVIOUS
      <4> QED BY <4>1, <4>2
    <3>3. CASE handler[r] # "none"
      <4>1. asked[r[1]] \in Options[r[1]] /\ line[r] = Written(r)
        BY <3>1, <3>3 DEF OnRecord, Recorded
      <4>2. /\ Written(r) \in Seq(Keys \cup {Blank}) /\ Len(Written(r)) > 0
            /\ Head(Written(r)) = r[2]
        BY <4>1, WrittenTypes
      <4>3. ASSUME command[r].ok
            PROVE  command[r].key \in Keys /\ command[r].name = r[2]
        <5>1. command[r] = ParseLine(Written(r))
          BY <3>1, <3>3, <4>1, <4>3 DEF OnRecord, HandlerLabels
        <5>2. ParseLine(Written(r)).ok
          BY <4>3, <5>1
        <5>3. Blank \in Keys \cup {Blank}
          OBVIOUS
        <5>4. /\ ParseLine(Written(r)).name = Head(Written(r))
              /\ ParseLine(Written(r)).key \in (Keys \cup {Blank}) \ {Blank}
          BY <4>2, <5>2, <5>3, ParsedTypes, Zenon
        <5> QED BY <4>2, <5>1, <5>4
      <4> QED BY <4>1, <4>2, <4>3
    <3> QED BY <3>2, <3>3
  <2>2. line \in [Requests -> Seq(Keys \cup {Blank})]
    BY <2>1 DEF Recorded
  <2>3. \A c \in Clients : client[c] # "start" => asked[c] \in Options[c]
    BY DEF Recorded
  <2>4. /\ client \in [Clients -> Verbs \cup {"start", "listening", "exited", "failed", "left"}]
        /\ handler \in [Requests -> {"none", "reading", "understood", "executed",
                                     "replied", "failed"}]
    BY DEF Types, HandlerLabels, ClientLabels
  <2>5. reply \in [Requests -> {NewProxyInit(s, e) : s \in BOOLEAN, e \in BOOLEAN}
                                \cup {NewProxyStop(s, e) : s \in BOOLEAN, e \in BOOLEAN}]
    BY DEF Types, Verdicts
  <2>6. ListTypeOK /\ nextSid \in Nat /\ drops \in [Keys -> 0..MaxDrops]
    BY DEF Types
  <2> QED
    BY <2>1, <2>2, <2>3, <2>4, <2>5, <2>6 DEF TypeOK
<1> QED
  BY <1>1, <1>2, <1>3, PTL DEF Spec

-----------------------------------------------------------------------------
(* Why every request ends: somebody always has it in hand, and every step  *)
(* that is taken for a process is one of the few that it has left.         *)

\* The goroutine of a request can read it, carry it out or reply to it.
CanServe(r) ==
  \/ handler[r] \in {"reading", "executed"}
  \/ handler[r] = "understood" /\ command[r].name \in Verbs

\* The process that waits for a request can read the reply, or the end of file.
CanReceive(r) == client[r[1]] = r[2] /\ handler[r] \in {"replied", "failed"}

\* A process waits only while its request is in somebody's hands.
NobodyWaitsInVain ==
  \A c \in Clients :
    client[c] \in Verbs => CanServe(<<c, client[c]>>) \/ CanReceive(<<c, client[c]>>)

\* The steps that a process and a goroutine have left at most, those of the
\* goroutines that the process is still going to keep busy included.
ProcessSteps(label) ==
  CASE label = "start" -> 9 [] label = "proxyinit" -> 5 [] label = "proxystop" -> 1
    [] OTHER -> 0

GoroutineSteps(label) ==
  CASE label = "reading" -> 3 [] label = "understood" -> 2 [] label = "executed" -> 1
    [] OTHER -> 0

StepsLeft(c) ==
  ProcessSteps(client[c]) + GoroutineSteps(handler[<<c, "proxyinit">>])
    + GoroutineSteps(handler[<<c, "proxystop">>])

\* No step gives a process more to do, and those taken for it leave it less.
StepsRunOut ==
  \A c \in Clients :
    /\ StepsLeft(c) \in Nat /\ StepsLeft(c)' \in Nat
    /\ StepsLeft(c)' <= StepsLeft(c)
    /\ (Start(c) \/ Serve(c) \/ Receive(c)) => StepsLeft(c)' < StepsLeft(c)

\* A request that is waited for was sent, and is carried out only when understood.
InHand ==
  /\ \A c \in Clients : client[c] \in Verbs => handler[<<c, client[c]>>] # "none"
  /\ \A r \in Requests : handler[r] = "understood" => command[r].ok

\* A process waits for the request that it has sent.
LEMMA ClientInHand ==
  ASSUME IInv, InHand, NEW c \in Clients, Start(c) \/ Receive(c) \/ Leave(c)
  PROVE  InHand'
<1>t. Types
  BY DEF IInv
<1>0. UNCHANGED command
  BY DEF Start, Receive, ReceiveReply, ReceiveEOF, Leave, requestVars
<1>1. ASSUME NEW label, label \notin Verbs, client' = [client EXCEPT ![c] = label], UNCHANGED handler
      PROVE  InHand'
  <2>1. \A d \in Clients : client'[d] \in Verbs => client'[d] = client[d]
    BY <1>t, <1>1 DEF Types
  <2> QED BY <1>0, <1>1, <2>1 DEF InHand
<1>2. ASSUME NEW verb \in Verbs, NEW l, Send(c, verb, l),
             verb = "proxyinit" => client[c] = "start",
             verb = "proxystop" => client[c] \in {"start", "proxyinit"}
      PROVE  InHand'
  <2>1. \A r \in Requests :
          \/ handler'[r] = handler[r]
          \/ r = <<c, verb>> /\ handler[r] = "none" /\ handler'[r] = "reading"
    BY <1>2, SendTouches
  <2>2. \A r \in Requests : handler'[r] = "understood" => handler[r] = "understood"
    BY <2>1
  <2>3. CASE /\ client' = [client EXCEPT ![c] = verb]
             /\ handler' = [handler EXCEPT ![<<c, verb>>] = "reading"]
    <3>1. \A d \in Clients : client'[d] = IF d = c THEN verb ELSE client[d]
      BY <1>t, <2>3 DEF Types
    <3>2. \A r \in Requests : handler[r] # "none" => handler'[r] # "none"
      BY <2>1
    <3>3. handler'[<<c, verb>>] = "reading"
      BY <1>t, <2>3, RequestsOf DEF Types
    <3>4. ASSUME NEW d \in Clients, client'[d] \in Verbs
          PROVE  handler'[<<d, client'[d]>>] # "none"
      BY <3>1, <3>2, <3>3, <3>4, RequestsOf DEF InHand
    <3> QED BY <1>0, <2>2, <3>4 DEF InHand
  <2>4. CASE client' = [client EXCEPT ![c] = "failed"] /\ UNCHANGED handler
    BY <1>1, <2>4 DEF Verbs
  <2> QED BY <1>2, <2>3, <2>4 DEF Send
<1>3. CASE Start(c)
  <2>1. client[c] = "start" /\ \E l : Send(c, "proxyinit", l) \/ Send(c, "proxystop", l)
    BY <1>3 DEF Start
  <2> QED BY <1>2, <2>1 DEF Verbs
<1>4. CASE Leave(c)
  BY <1>1, <1>4 DEF Leave, Verbs
<1>5. ASSUME NEW verb \in Verbs, ReceiveEOF(c, verb)
      PROVE  InHand'
  BY <1>1, <1>5 DEF ReceiveEOF, Verbs
<1>6. ASSUME NEW verb \in Verbs, ReceiveReply(c, verb)
      PROVE  InHand'
  <2>1. CASE client' = [client EXCEPT ![c] = "failed"] /\ UNCHANGED handler
    BY <1>1, <2>1 DEF Verbs
  <2>2. CASE client[c] = "proxyinit" /\ \E l : Send(c, "proxystop", l)
    BY <1>2, <2>2 DEF Verbs
  <2>3. CASE /\ client' = [client EXCEPT ![c] =
                             IF verb = "proxyinit" THEN "listening" ELSE "exited"]
             /\ UNCHANGED handler
    <3>1. (IF verb = "proxyinit" THEN "listening" ELSE "exited") \notin Verbs
      BY DEF Verbs
    <3> QED BY <1>1, <2>3, <3>1
  <2> QED BY <1>6, <2>1, <2>2, <2>3 DEF ReceiveReply
<1> QED
  BY <1>3, <1>4, <1>5, <1>6 DEF Receive

\* A goroutine goes on only with a command it has understood.
LEMMA HandlerInHand ==
  ASSUME IInv, InHand, NEW r \in Requests, HandlerStep(r)
  PROVE  InHand'
<1>t. Types
  BY DEF IInv
<1>0. UNCHANGED client
  BY DEF HandlerStep, ReadCommand, HandleProxyInit, HandleProxyStop, SendResponse, clientVars
<1>1. ASSUME NEW label, label # "none", handler' = [handler EXCEPT ![r] = label],
             \A q \in Requests : q # r => command'[q] = command[q],
             label = "understood" => command'[r].ok
      PROVE  InHand'
  <2>1. handler'[r] = label /\ \A q \in Requests : q # r => handler'[q] = handler[q]
    BY <1>t, <1>1 DEF Types
  <2> QED BY <1>0, <1>1, <2>1, RequestsOf DEF InHand
<1>2. CASE ReadCommand(r)
  <2>1. CASE UNCHANGED command /\ handler' = [handler EXCEPT ![r] = "failed"]
    BY <1>1, <2>1
  <2>2. CASE /\ command' = [command EXCEPT ![r] = ParseLine(line[r])]
             /\ handler' = [handler EXCEPT ![r] =
                              IF ParseLine(line[r]).ok THEN "understood" ELSE "failed"]
    <3>1. /\ command'[r] = ParseLine(line[r])
          /\ \A q \in Requests : q # r => command'[q] = command[q]
      BY <1>t, <2>2 DEF Types
    <3>2. CASE ParseLine(line[r]).ok
      <4>1. handler' = [handler EXCEPT ![r] = "understood"]
        BY <2>2, <3>2
      <4> QED BY <1>1, <3>1, <3>2, <4>1
    <3>3. CASE ~ ParseLine(line[r]).ok
      <4>1. handler' = [handler EXCEPT ![r] = "failed"]
        BY <2>2, <3>3
      <4> QED BY <1>1, <3>1, <4>1
    <3> QED BY <3>2, <3>3
  <2> QED BY <1>2, <2>1, <2>2 DEF ReadCommand
<1>3. CASE HandleProxyInit(r) \/ HandleProxyStop(r)
  <2>1. handler' = [handler EXCEPT ![r] = "executed"] /\ UNCHANGED command
    BY <1>3 DEF HandleProxyInit, HandleProxyStop
  <2> QED BY <1>1, <2>1
<1>4. CASE SendResponse(r)
  <2>1. handler' = [handler EXCEPT ![r] = "replied"] /\ UNCHANGED command
    BY <1>4 DEF SendResponse, requestVars
  <2> QED BY <1>1, <2>1
<1> QED
  BY <1>2, <1>3, <1>4 DEF HandlerStep

\* Requests are in hand from the start, and stay so.
LEMMA InHandAlways ==
  /\ Init => InHand
  /\ IInv /\ InHand /\ [Next]_vars => InHand'
<1>1. ASSUME Init
      PROVE  InHand
  <2>1. /\ \A c \in Clients : client[c] = "start"
        /\ \A r \in Requests : handler[r] = "none"
    BY <1>1 DEF Init
  <2> QED BY <2>1 DEF InHand, Verbs
<1>2. ASSUME IInv, InHand, [Next]_vars
      PROVE  InHand'
  <2>1. ASSUME NEW c \in Clients, Start(c) \/ Receive(c) \/ Leave(c)
        PROVE  InHand'
    BY <1>2, <2>1, ClientInHand
  <2>2. ASSUME NEW c \in Clients, Serve(c)
        PROVE  InHand'
    BY <1>2, <2>2, HandlerInHand, RequestsOf DEF Serve
  <2>3. ASSUME UNCHANGED <<client, handler, command>>
        PROVE  InHand'
    BY <1>2, <2>3 DEF InHand
  <2>4. ASSUME NEW k \in Keys, Drop(k)
        PROVE  InHand'
    BY <2>3, <2>4 DEF Drop, clientVars, requestVars
  <2>5. CASE UNCHANGED vars
    BY <2>3, <2>5 DEF vars, clientVars, requestVars
  <2> QED
    BY <1>2, <2>1, <2>2, <2>4, <2>5 DEF Next
<1> QED
  BY <1>1, <1>2

\* In every reachable state: whoever waits for the proxy waits for a request that
\* the proxy can read, carry out or reply to, or for a reply or an end of file that
\* has come; so nobody waits for ever unless a goroutine that can run does not
\* (RunAndQuit, ClientHandler.Handle, parseLine).
THEOREM WaitingIsNotInVain == Spec => []NobodyWaitsInVain
<1>1. Init => IInv /\ InHand
  BY InitVerdicts, InHandAlways
<1>2. IInv /\ InHand /\ [Next]_vars => IInv' /\ InHand'
  BY NextVerdicts, InHandAlways
<1>3. IInv /\ InHand /\ TypeOK => NobodyWaitsInVain
  <2> SUFFICES ASSUME Types, InHand, TypeOK, NEW c \in Clients, client[c] \in Verbs
               PROVE  CanServe(<<c, client[c]>>) \/ CanReceive(<<c, client[c]>>)
    BY DEF IInv, NobodyWaitsInVain
  <2> DEFINE r == <<c, client[c]>>
  <2>1. r \in Requests /\ r[1] = c /\ r[2] = client[c]
    BY RequestsOf
  <2>2. handler[r] \in HandlerLabels \ {"none"}
    BY <2>1 DEF Types, InHand
  <2>3. handler[r] = "understood" => command[r].name \in Verbs
    BY <2>1 DEF InHand, TypeOK
  <2> QED
    BY <2>1, <2>2, <2>3 DEF CanServe, CanReceive, HandlerLabels
<1> QED
  BY <1>1, <1>2, <1>3, TypesAreRight, PTL DEF Spec

\* Sending takes a process on, and its goroutine is one that had nothing to do.
LEMMA SendStepsLeft ==
  ASSUME IInv, NEW c \in Clients, NEW verb \in Verbs, NEW l, Send(c, verb, l),
         verb = "proxyinit" => client[c] = "start",
         verb = "proxystop" => client[c] \in {"start", "proxyinit"}
  PROVE  /\ StepsLeft(c)' < StepsLeft(c)
         /\ \A d \in Clients : d # c => StepsLeft(d)' = StepsLeft(d)
<1>t. Types
  BY DEF IInv
<1>1. \A r \in Requests :
        \/ handler'[r] = handler[r]
        \/ r = <<c, verb>> /\ handler[r] = "none" /\ handler'[r] = "reading"
  BY SendTouches
<1>2. /\ \A d \in Clients : d # c => client'[d] = client[d]
      /\ client'[c] \in {verb, "failed"}
  BY <1>t DEF Send, Types
<1>3. \A d \in Clients : <<d, "proxyinit">> \in Requests /\ <<d, "proxystop">> \in Requests
  BY RequestsOf DEF Verbs
<1>4. \A d \in Clients : d # c => StepsLeft(d)' = StepsLeft(d)
  <2> SUFFICES ASSUME NEW d \in Clients, d # c
               PROVE  StepsLeft(d)' = StepsLeft(d)
    OBVIOUS
  <2>1. /\ handler'[<<d, "proxyinit">>] = handler[<<d, "proxyinit">>]
        /\ handler'[<<d, "proxystop">>] = handler[<<d, "proxystop">>]
    BY <1>1, <1>3
  <2> QED BY <1>2, <2>1 DEF StepsLeft
<1>5. handler[<<c, "proxyinit">>] \in HandlerLabels /\ handler[<<c, "proxystop">>] \in HandlerLabels
  BY <1>t, <1>3 DEF Types
<1>6. CASE verb = "proxyinit"
  <2>1. /\ handler'[<<c, "proxystop">>] = handler[<<c, "proxystop">>]
        /\ \/ handler'[<<c, "proxyinit">>] = handler[<<c, "proxyinit">>]
           \/ handler[<<c, "proxyinit">>] = "none" /\ handler'[<<c, "proxyinit">>] = "reading"
    BY <1>1, <1>3, <1>6
  <2> QED
    BY <1>2, <1>4, <1>5, <1>6, <2>1 DEF StepsLeft, ProcessSteps, GoroutineSteps, HandlerLabels
<1>7. CASE verb = "proxystop"
  <2>1. /\ handler'[<<c, "proxyinit">>] = handler[<<c, "proxyinit">>]
        /\ \/ handler'[<<c, "proxystop">>] = handler[<<c, "proxystop">>]
           \/ handler[<<c, "proxystop">>] = "none" /\ handler'[<<c, "proxystop">>] = "reading"
    BY <1>1, <1>3, <1>7
  <2> QED
    BY <1>2, <1>4, <1>5, <1>7, <2>1 DEF StepsLeft, ProcessSteps, GoroutineSteps, HandlerLabels
<1> QED
  BY <1>6, <1>7 DEF Verbs

\* A process that goes on, gives up or leaves has nothing left to do.
LEMMA ClientStepsLeft ==
  ASSUME IInv, NEW c \in Clients, Start(c) \/ Receive(c) \/ Leave(c)
  PROVE  /\ StepsLeft(c)' <= StepsLeft(c)
         /\ Start(c) \/ Receive(c) => StepsLeft(c)' < StepsLeft(c)
         /\ \A d \in Clients : d # c => StepsLeft(d)' = StepsLeft(d)
<1>t. Types
  BY DEF IInv
<1>n. StepsLeft(c) \in Nat
  BY DEF StepsLeft, ProcessSteps, GoroutineSteps
<1>1. ASSUME NEW label \in {"failed", "listening", "exited", "left"},
             client' = [client EXCEPT ![c] = label], UNCHANGED handler
      PROVE  /\ StepsLeft(c)' <= StepsLeft(c)
             /\ client[c] \in Verbs => StepsLeft(c)' < StepsLeft(c)
             /\ \A d \in Clients : d # c => StepsLeft(d)' = StepsLeft(d)
  <2>1. client'[c] = label /\ \A d \in Clients : d # c => client'[d] = client[d]
    BY <1>t, <1>1 DEF Types
  <2>2. \A d \in Clients : d # c => StepsLeft(d)' = StepsLeft(d)
    BY <1>1, <2>1 DEF StepsLeft
  <2>3. /\ GoroutineSteps(handler[<<c, "proxyinit">>]) \in Nat
        /\ GoroutineSteps(handler[<<c, "proxystop">>]) \in Nat
    BY DEF GoroutineSteps
  <2>4. StepsLeft(c)' = GoroutineSteps(handler[<<c, "proxyinit">>])
                          + GoroutineSteps(handler[<<c, "proxystop">>])
    BY <1>1, <2>1, <2>3 DEF StepsLeft, ProcessSteps
  <2>5. /\ ProcessSteps(client[c]) \in Nat
        /\ client[c] \in Verbs => ProcessSteps(client[c]) > 0
    BY DEF ProcessSteps, Verbs
  <2> QED BY <2>2, <2>3, <2>4, <2>5 DEF StepsLeft
<1>2. CASE Start(c)
  <2>1. client[c] = "start" /\ \E l : Send(c, "proxyinit", l) \/ Send(c, "proxystop", l)
    BY <1>2 DEF Start
  <2>2. StepsLeft(c)' < StepsLeft(c) /\ \A d \in Clients : d # c => StepsLeft(d)' = StepsLeft(d)
    BY <2>1, SendStepsLeft DEF Verbs
  <2>3. StepsLeft(c)' \in Nat
    BY DEF StepsLeft, ProcessSteps, GoroutineSteps
  <2> QED BY <1>n, <2>2, <2>3
<1>3. CASE Leave(c)
  <2>1. (~ Start(c) /\ ~ Receive(c)) \/ client[c] \in Verbs
    BY <1>3 DEF Receive, ReceiveReply, ReceiveEOF, Leave, Start, Verbs
  <2>2. client' = [client EXCEPT ![c] = "left"] /\ UNCHANGED handler
    BY <1>3 DEF Leave
  <2> QED BY <1>1, <1>3, <2>1, <2>2
<1>4. CASE Receive(c)
  <2>1. PICK verb \in Verbs : client[c] = verb /\ (ReceiveReply(c, verb) \/ ReceiveEOF(c, verb))
    BY <1>4 DEF Receive, ReceiveReply, ReceiveEOF
  <2>2. CASE \E l : verb = "proxyinit" /\ Send(c, "proxystop", l)
    <3>1. StepsLeft(c)' < StepsLeft(c) /\ \A d \in Clients : d # c => StepsLeft(d)' = StepsLeft(d)
      BY <2>1, <2>2, SendStepsLeft DEF Verbs
    <3>2. StepsLeft(c)' \in Nat
      BY DEF StepsLeft, ProcessSteps, GoroutineSteps
    <3> QED BY <1>n, <3>1, <3>2
  <2>3. CASE \E label \in {"failed", "listening", "exited"} :
               client' = [client EXCEPT ![c] = label] /\ UNCHANGED handler
    BY <1>1, <2>1, <2>3
  <2> QED
    BY <2>1, <2>2, <2>3 DEF ReceiveReply, ReceiveEOF
<1> QED
  BY <1>2, <1>3, <1>4

\* A goroutine has one step less to take, and no other has more.
LEMMA HandlerStepsLeft ==
  ASSUME IInv, NEW r \in Requests, HandlerStep(r)
  PROVE  /\ StepsLeft(r[1])' < StepsLeft(r[1])
         /\ \A d \in Clients : d # r[1] => StepsLeft(d)' = StepsLeft(d)
<1>t. Types
  BY DEF IInv
<1>0. UNCHANGED client
  BY DEF HandlerStep, ReadCommand, HandleProxyInit, HandleProxyStop, SendResponse, clientVars
<1>1. PICK label \in HandlerLabels :
        /\ GoroutineSteps(label) < GoroutineSteps(handler[r])
        /\ handler' = [handler EXCEPT ![r] = label]
  <2>1. CASE ReadCommand(r)
    BY <2>1 DEF ReadCommand, GoroutineSteps, HandlerLabels
  <2>2. CASE HandleProxyInit(r) \/ HandleProxyStop(r)
    BY <2>2 DEF HandleProxyInit, HandleProxyStop, GoroutineSteps, HandlerLabels
  <2>3. CASE SendResponse(r)
    BY <2>3 DEF SendResponse, GoroutineSteps, HandlerLabels
  <2> QED BY <2>1, <2>2, <2>3 DEF HandlerStep
<1>2. handler'[r] = label /\ \A q \in Requests : q # r => handler'[q] = handler[q]
  BY <1>t, <1>1 DEF Types
<1>3. \A d \in Clients : <<d, "proxyinit">> \in Requests /\ <<d, "proxystop">> \in Requests
  BY RequestsOf DEF Verbs
<1>4. \A d \in Clients : d # r[1] => StepsLeft(d)' = StepsLeft(d)
  <2> SUFFICES ASSUME NEW d \in Clients, d # r[1]
               PROVE  StepsLeft(d)' = StepsLeft(d)
    OBVIOUS
  <2>1. /\ handler'[<<d, "proxyinit">>] = handler[<<d, "proxyinit">>]
        /\ handler'[<<d, "proxystop">>] = handler[<<d, "proxystop">>]
    BY <1>2, <1>3
  <2> QED BY <1>0, <2>1 DEF StepsLeft
<1>5. r[1] \in Clients /\ r[2] \in Verbs /\ r = <<r[1], r[2]>>
  BY RequestParts
<1>n. \A l : GoroutineSteps(l) \in Nat /\ ProcessSteps(l) \in Nat
  BY DEF GoroutineSteps, ProcessSteps
<1>6. CASE r[2] = "proxyinit"
  <2>1. r = <<r[1], "proxyinit">>
    BY <1>5, <1>6
  <2>2. /\ handler[<<r[1], "proxyinit">>] = handler[r] /\ handler'[<<r[1], "proxyinit">>] = label
        /\ handler'[<<r[1], "proxystop">>] = handler[<<r[1], "proxystop">>]
    BY <1>2, <1>3, <1>5, <2>1
  <2> QED BY <1>0, <1>1, <1>4, <1>n, <2>2 DEF StepsLeft
<1>7. CASE r[2] = "proxystop"
  <2>1. r = <<r[1], "proxystop">>
    BY <1>5, <1>7
  <2>2. /\ handler[<<r[1], "proxystop">>] = handler[r] /\ handler'[<<r[1], "proxystop">>] = label
        /\ handler'[<<r[1], "proxyinit">>] = handler[<<r[1], "proxyinit">>]
    BY <1>2, <1>3, <1>5, <2>1
  <2> QED BY <1>0, <1>1, <1>4, <1>n, <2>2 DEF StepsLeft
<1> QED
  BY <1>4, <1>5, <1>6, <1>7 DEF Verbs

\* In every step: no process is given more to do, and a step that it, or a
\* goroutine that serves it, takes leaves it with less, whatever everybody else
\* does; so it has at most nine of them to wait for (handleProxyArguments,
\* RunAndQuit, ClientHandler.Handle).
THEOREM EveryRequestRunsOut == Spec => [][StepsRunOut]_vars
<1>1. Init => IInv
  BY InitVerdicts
<1>2. IInv /\ [Next]_vars => IInv' /\ [StepsRunOut]_vars
  <2> SUFFICES ASSUME IInv, Next
               PROVE  StepsRunOut
    BY NextVerdicts
  <2>n. \A c \in Clients : StepsLeft(c) \in Nat /\ StepsLeft(c)' \in Nat
    BY DEF StepsLeft, ProcessSteps, GoroutineSteps
  <2>1. \A c \in Clients : Start(c) \/ Receive(c) => StepsLeft(c)' < StepsLeft(c)
    BY ClientStepsLeft
  <2>2. ASSUME NEW c \in Clients, Serve(c)
        PROVE  /\ StepsLeft(c)' < StepsLeft(c)
               /\ \A d \in Clients : d # c => StepsLeft(d)' = StepsLeft(d)
    <3>1. PICK verb \in Verbs : HandlerStep(<<c, verb>>)
      BY <2>2 DEF Serve
    <3>2. <<c, verb>> \in Requests /\ <<c, verb>>[1] = c
      BY RequestsOf
    <3> QED BY <3>1, <3>2, HandlerStepsLeft
  <2>3. \A d \in Clients : StepsLeft(d)' <= StepsLeft(d)
    <3>1. ASSUME NEW c \in Clients, Start(c) \/ Receive(c) \/ Leave(c)
          PROVE  \A d \in Clients : StepsLeft(d)' <= StepsLeft(d)
      BY <2>n, <3>1, ClientStepsLeft
    <3>2. ASSUME NEW c \in Clients, Serve(c)
          PROVE  \A d \in Clients : StepsLeft(d)' <= StepsLeft(d)
      BY <2>n, <2>2, <3>2
    <3>3. ASSUME NEW k \in Keys, Drop(k)
          PROVE  \A d \in Clients : StepsLeft(d)' <= StepsLeft(d)
      <4>1. UNCHANGED <<client, handler>>
        BY <3>3 DEF Drop, clientVars
      <4>2. \A d \in Clients : StepsLeft(d)' = StepsLeft(d)
        BY <4>1 DEF StepsLeft
      <4> QED BY <2>n, <4>2
    <3> QED BY <3>1, <3>2, <3>3 DEF Next
  <2> QED
    BY <2>n, <2>1, <2>2, <2>3 DEF StepsRunOut
<1> QED
  BY <1>1, <1>2, PTL DEF Spec

=============================================================================
