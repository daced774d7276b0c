--------------------------- MODULE DbgpProxyProofs ---------------------------
(***************************************************************************)
(* Proofs about DbgpProxy, for any number of engines, keys, registrations  *)
(* and packets, with or without Cloud and -f.                              *)
(***************************************************************************)
EXTENDS DbgpProxy, SequenceTheorems, TLAPS

-----------------------------------------------------------------------------
(* Reading.                                                                *)

\* A read returns a packet, and leaves sequences of packets behind it, both in
\* the reader and on the wire (readResponse through a bufio.Reader).
LEMMA ReadTypes ==
  ASSUME TypeOK, NEW e \in Engines, NEW buf \in Seq(Packet),
         NEW n \in Fetch(buf, e)
  PROVE  /\ Fetched(buf, e, n) # <<>>
         /\ Head(Fetched(buf, e, n)) \in Packet
         /\ Tail(Fetched(buf, e, n)) \in Seq(Packet)
         /\ TakeFromWire(e, n) => wire' \in [Engines -> Seq(Packet)]
<1>1. wire[e] \in Seq(Packet) /\ Len(wire[e]) \in Nat
  BY LenProperties DEF TypeOK
<1>2. n \in 0..Len(wire[e])
  BY <1>1 DEF Fetch
<1>3. \A i \in 1..n : wire[e][i] \in Packet
  BY <1>1, <1>2, ElementOfSeq
<1>4. /\ SubSeq(wire[e], 1, n) \in Seq(Packet)
      /\ Len(SubSeq(wire[e], 1, n)) = n
  BY <1>2, <1>3, SubSeqProperties
<1>5. SubSeq(wire[e], n + 1, Len(wire[e])) \in Seq(Packet)
  <2>1. \A i \in (n + 1)..Len(wire[e]) : wire[e][i] \in Packet
    BY <1>1, <1>2, ElementOfSeq
  <2> QED BY <2>1, <1>1, <1>2, SubSeqProperties
<1>6. Fetched(buf, e, n) \in Seq(Packet)
  BY <1>4, ConcatProperties DEF Fetched
<1>7. Fetched(buf, e, n) # <<>>
  <2>1. CASE buf # <<>>
    BY <2>1, <1>4, ConcatEqualIffEmpty DEF Fetched
  <2>2. CASE buf = <<>>
    <3>1. n >= 1
      BY <2>2, <1>1 DEF Fetch
    <3>2. SubSeq(wire[e], 1, n) # <<>>
      BY <3>1, <1>2, <1>4, EmptySeq
    <3> QED BY <3>2, <1>4, ConcatEqualIffEmpty DEF Fetched
  <2> QED BY <2>1, <2>2
<1>8. TakeFromWire(e, n) => wire' \in [Engines -> Seq(Packet)]
  BY <1>5 DEF TakeFromWire, TypeOK
<1> QED BY <1>6, <1>7, <1>8, HeadTailProperties

-----------------------------------------------------------------------------
(* Types.                                                                  *)

\* The program starts with every variable of its type.
LEMMA InitTypes == Init => TypeOK
<1> SUFFICES ASSUME Init PROVE TypeOK
  OBVIOUS
<1>1. /\ <<>> \in Seq(Packet)
      /\ <<>> \in Seq(Commands)
  BY EmptySeq
<1>2. ListTypeOK /\ nextSid \in Nat /\ passed \in [Engines -> Nat] /\ sent \in [Engines -> Nat]
  BY DEF Init, ListInit, ListTypeOK
<1>3. /\ pc \in [Engines -> Labels]
      /\ outcome \in [Engines -> Outcomes]
      /\ client \in [Engines -> Connection \cup {NoConnection}]
      /\ engine \in [Engines -> {"off", "ready", "debugging", "closed"}]
      /\ ide \in [Engines -> {"none", "open", "left", "closed"}]
      /\ copier \in [Engines -> {"none", "copying", "failed", "ended"}]
  BY DEF Init, Labels, Outcomes
<1>4. /\ outer \in [Engines -> Seq(Packet)]
      /\ inner \in [Engines -> Seq(Packet)]
      /\ wire \in [Engines -> Seq(Packet)]
      /\ inbox \in [Engines -> Seq(Commands)]
  BY <1>1 DEF Init
<1>5. /\ failed \in [Engines -> BOOLEAN]
      /\ connOpen \in [Engines -> BOOLEAN]
      /\ signals \in [Engines -> BOOLEAN]
      /\ shutdown \in BOOLEAN
  BY DEF Init
<1> QED
  BY <1>2, <1>3, <1>4, <1>5 DEF TypeOK

\* Whatever a proxyinit does to the registry, it stays a registry (Add).
LEMMA AddTypes ==
  ASSUME ListTypeOK, nextSid \in Nat, NEW k \in Keys, NEW ok \in BOOLEAN,
         Add([ideKey |-> k, sid |-> nextSid], ok)
  PROVE  connections' \in [Keys -> Connection \cup {NoConnection}]
<1> DEFINE c == [ideKey |-> k, sid |-> nextSid]
<1>1. c \in Connection /\ c.ideKey = k
  BY DEF Connection
<1>2. \/ connections' = [connections EXCEPT ![k] = c]
      \/ connections' = [connections EXCEPT ![k] = NoConnection]
      \/ connections' = connections
  BY <1>1 DEF Add
<1> HIDE DEF c
<1> QED BY <1>1, <1>2 DEF ListTypeOK

\* No step of any goroutine, IDE or engine breaks a type.
LEMMA NextTypes == TypeOK /\ [Next]_vars => TypeOK'
<1> SUFFICES ASSUME TypeOK, [Next]_vars PROVE TypeOK'
  OBVIOUS
<1> USE DEF TypeOK, ListTypeOK, Labels, Outcomes, Goto, Stay, listVars, readers,
            ideVars, peerVars
<1>1. ASSUME NEW e \in Engines, Accept(e) PROVE TypeOK'
  BY <1>1 DEF Accept
<1>2. ASSUME NEW e \in Engines, CloudConnect(e) PROVE TypeOK'
  <2>1. <<[kind |-> "cloudinit", n |-> 0]>> \in Seq(Packet)
    BY DEF Packet, Kinds
  <2>2. wire' \in [Engines -> Seq(Packet)]
    <3>1. \/ wire' = [wire EXCEPT ![e] = <<[kind |-> "cloudinit", n |-> 0]>>]
          \/ wire' = wire
      BY <1>2, Zenon DEF CloudConnect
    <3> QED BY <2>1, <3>1
  <2>3. CASE wire' = wire
    BY <1>2, <2>3 DEF CloudConnect, Return
  <2>4. CASE wire' # wire
    BY <1>2, <2>2, <2>4 DEF CloudConnect, Return
  <2> QED BY <2>3, <2>4
<1>3. ASSUME NEW e \in Engines, CloudConnected(e) PROVE TypeOK'
  <2>1. wire' \in [Engines -> Seq(Packet)]
    <3>1. <<>> \in Seq(Packet)
      BY EmptySeq
    <3> QED BY <1>3, <3>1, ReadTypes DEF CloudConnected
  <2>2. /\ pc' \in [Engines -> Labels]
        /\ outcome' \in [Engines -> Outcomes]
        /\ connOpen' \in [Engines -> BOOLEAN]
        /\ shutdown' \in BOOLEAN
    BY <1>3 DEF CloudConnected, Return
  <2> QED BY <1>3, <2>1, <2>2 DEF CloudConnected
<1>4. ASSUME NEW e \in Engines, ReadInit(e) PROVE TypeOK'
  <2>1. outer[e] \in Seq(Packet)
    OBVIOUS
  <2>2. PICK n \in Fetch(outer[e], e) :
          /\ outer' = [outer EXCEPT ![e] = Tail(Fetched(outer[e], e, n))]
          /\ TakeFromWire(e, n)
          /\ passed' = [passed EXCEPT ![e] = Head(Fetched(outer[e], e, n)).n]
    BY <1>4 DEF ReadInit
  <2>3. /\ outer' \in [Engines -> Seq(Packet)]
        /\ wire' \in [Engines -> Seq(Packet)]
        /\ passed' \in [Engines -> Nat]
    BY <2>1, <2>2, ReadTypes DEF Packet
  <2>4. client' \in [Engines -> Connection \cup {NoConnection}]
    <3>1. connections[EngineKey[e]] \in Connection \cup {NoConnection}
      BY EngineKeyAssumption
    <3>2. \/ client' = [client EXCEPT ![e] = connections[EngineKey[e]]]
          \/ client' = client
      BY <1>4, Zenon DEF ReadInit, FindByKey
    <3> QED BY <3>1, <3>2
  <2>5. /\ pc' \in [Engines -> Labels]
        /\ outcome' \in [Engines -> Outcomes]
        /\ connOpen' \in [Engines -> BOOLEAN]
        /\ shutdown' \in BOOLEAN
        /\ signals' \in [Engines -> BOOLEAN]
    BY <1>4 DEF ReadInit, Return
  <2> QED BY <1>4, <2>3, <2>4, <2>5 DEF ReadInit
<1>5. ASSUME NEW e \in Engines, ReadStops(e) PROVE TypeOK'
  BY <1>5 DEF ReadStops, Return
<1>6. ASSUME NEW e \in Engines, ReadFails(e) PROVE TypeOK'
  BY <1>6 DEF ReadFails, Return
<1>7. ASSUME NEW e \in Engines, DialFails(e) PROVE TypeOK'
  BY <1>7 DEF DialFails
<1>8. ASSUME NEW e \in Engines, DialSucceeds(e) PROVE TypeOK'
  BY <1>8 DEF DialSucceeds
<1>9. ASSUME NEW e \in Engines, ForwardPacket(e) PROVE TypeOK'
  <2>1. inner[e] \in Seq(Packet)
    OBVIOUS
  <2>2. PICK n \in Fetch(inner[e], e) :
          /\ inner' = [inner EXCEPT ![e] = Tail(Fetched(inner[e], e, n))]
          /\ TakeFromWire(e, n)
          /\ \/ UNCHANGED passed
             \/ passed' = [passed EXCEPT ![e] =
                  IF Head(Fetched(inner[e], e, n)).kind = "stream"
                  THEN @ ELSE Head(Fetched(inner[e], e, n)).n]
    BY <1>9 DEF ForwardPacket
  <2>3. /\ inner' \in [Engines -> Seq(Packet)]
        /\ wire' \in [Engines -> Seq(Packet)]
    BY <2>1, <2>2, ReadTypes
  <2>4. /\ pc' \in [Engines -> Labels]
        /\ failed' \in [Engines -> BOOLEAN]
        /\ ide' \in [Engines -> {"none", "open", "left", "closed"}]
    BY <1>9 DEF ForwardPacket, Unwind
  <2>5. passed' \in [Engines -> Nat]
    <3>1. Head(Fetched(inner[e], e, n)).n \in Nat /\ passed[e] \in Nat
      BY <2>1, ReadTypes DEF Packet
    <3> DEFINE packet == Head(Fetched(inner[e], e, n))
               next == IF packet.kind = "stream" THEN passed[e] ELSE packet.n
    <3>2. next \in Nat
      BY <3>1
    <3>3. passed' = passed \/ passed' = [passed EXCEPT ![e] = next]
      BY <2>2
    <3> HIDE DEF next
    <3> QED BY <3>2, <3>3
  <2> QED BY <1>9, <2>3, <2>4, <2>5 DEF ForwardPacket
<1>10. ASSUME NEW e \in Engines, ForwardTimeout(e) PROVE TypeOK'
  BY <1>10 DEF ForwardTimeout, Unwind
<1>11. ASSUME NEW e \in Engines, ForwardError(e) PROVE TypeOK'
  BY <1>11 DEF ForwardError, Unwind
<1>12. ASSUME NEW e \in Engines, Unwound(e) PROVE TypeOK'
  <2>1. inner' \in [Engines -> Seq(Packet)]
    BY <1>12, EmptySeq DEF Unwound
  <2> QED BY <1>12, <2>1 DEF Unwound
<1>13. ASSUME NEW e \in Engines, RemoveIDE(e) PROVE TypeOK'
  <2>1. connections' \in [Keys -> Connection \cup {NoConnection}]
    BY <1>13 DEF RemoveIDE, RemoveByKey
  <2>2. pc' \in [Engines -> Labels]
    BY <1>13 DEF RemoveIDE
  <2> QED BY <1>13, <2>1, <2>2 DEF RemoveIDE
<1>14. ASSUME NEW e \in Engines, SendDetach(e) PROVE TypeOK'
  <2>1. inbox' \in [Engines -> Seq(Commands)]
    <3>1. inbox[e] \in Seq(Commands) /\ "detach" \in Commands
      BY DEF Commands
    <3>2. Append(inbox[e], "detach") \in Seq(Commands)
      BY <3>1, AppendProperties
    <3> QED BY <1>14, <3>2 DEF SendDetach
  <2>2. pc' \in [Engines -> Labels]
    <3>1. \/ pc' = [pc EXCEPT ![e] = "await"]
          \/ pc' = [pc EXCEPT ![e] = "read"]
      BY <1>14, Zenon DEF SendDetach
    <3> QED BY <3>1
  <2> QED BY <1>14, <2>1, <2>2 DEF SendDetach
<1>15. ASSUME NEW e \in Engines, AwaitReply(e) PROVE TypeOK'
  <2>1. wire' \in [Engines -> Seq(Packet)]
    <3>1. <<>> \in Seq(Packet)
      BY EmptySeq
    <3> QED BY <1>15, <3>1, ReadTypes DEF AwaitReply
  <2>2. pc' \in [Engines -> Labels]
    BY <1>15 DEF AwaitReply
  <2> QED BY <1>15, <2>1, <2>2 DEF AwaitReply
<1>16. ASSUME NEW e \in Engines, CopyCommand(e) PROVE TypeOK'
  <2>1. inbox' \in [Engines -> Seq(Commands)]
    <3>1. PICK command \in {"run", "stop"} :
            inbox' = [inbox EXCEPT ![e] = Append(@, command)]
      BY <1>16 DEF CopyCommand
    <3>2. inbox[e] \in Seq(Commands) /\ command \in Commands
      BY DEF Commands
    <3>3. Append(inbox[e], command) \in Seq(Commands)
      BY <3>2, AppendProperties
    <3> QED BY <3>1, <3>3
  <2> QED BY <1>16, <2>1 DEF CopyCommand, CopierVars
<1>17. ASSUME NEW e \in Engines, CopyEnds(e) PROVE TypeOK'
  BY <1>17 DEF CopyEnds, CopierVars
<1>18. ASSUME NEW e \in Engines, IDELeaves(e) PROVE TypeOK'
  BY <1>18 DEF IDELeaves, CopierVars
<1>19. ASSUME NEW e \in Engines, NEW kind \in Kinds, Send(e, kind)
       PROVE  /\ wire' \in [Engines -> Seq(Packet)]
              /\ sent' \in [Engines -> Nat]
  <2>1. wire[e] \in Seq(Packet) /\ [kind |-> kind, n |-> sent[e] + 1] \in Packet
    <3>1. sent[e] + 1 \in Nat
      OBVIOUS
    <3> QED BY <3>1 DEF Packet
  <2>2. Append(wire[e], [kind |-> kind, n |-> sent[e] + 1]) \in Seq(Packet)
    BY <2>1, AppendProperties
  <2> QED BY <1>19, <2>2 DEF Send
<1>20. ASSUME NEW e \in Engines, EngineInit(e) PROVE TypeOK'
  <2>1. "init" \in Kinds
    BY DEF Kinds
  <2>2. wire' \in [Engines -> Seq(Packet)] /\ sent' \in [Engines -> Nat]
    BY <1>19, <1>20, <2>1 DEF EngineInit
  <2> QED BY <1>20, <2>2 DEF EngineInit, EngineVars
<1>21. ASSUME NEW e \in Engines, Answer(e) PROVE TypeOK'
  <2>1. "done" \in Kinds /\ "response" \in Kinds
    BY DEF Kinds
  <2>2. wire' \in [Engines -> Seq(Packet)] /\ sent' \in [Engines -> Nat]
    BY <1>19, <1>21, <2>1 DEF Answer
  <2>3. inbox' \in [Engines -> Seq(Commands)]
    <3>1. <<>> \in Seq(Commands) /\ Tail(inbox[e]) \in Seq(Commands)
      BY <1>21, EmptySeq, HeadTailProperties DEF Answer
    <3> QED BY <1>21, <3>1 DEF Answer
  <2>4. engine' \in [Engines -> {"off", "ready", "debugging", "closed"}]
    BY <1>21 DEF Answer
  <2> QED BY <1>21, <2>2, <2>3, <2>4 DEF Answer, EngineVars
<1>22. ASSUME NEW e \in Engines, Stream(e) PROVE TypeOK'
  <2>1. wire[e] \in Seq(Packet) /\ [kind |-> "stream", n |-> 0] \in Packet
    BY DEF Packet, Kinds
  <2>2. Append(wire[e], [kind |-> "stream", n |-> 0]) \in Seq(Packet)
    BY <2>1, AppendProperties
  <2>3. wire' \in [Engines -> Seq(Packet)]
    BY <1>22, <2>2 DEF Stream
  <2> QED BY <1>22, <2>3 DEF Stream, EngineVars
<1>23. ASSUME NEW e \in Engines, Hangup(e) PROVE TypeOK'
  <2>1. wire' \in [Engines -> Seq(Packet)]
    <3>1. PICK n \in 0..Len(wire[e]) :
            wire' = [wire EXCEPT ![e] = SubSeq(@, 1, n)]
      BY <1>23 DEF Hangup
    <3>2. wire[e] \in Seq(Packet) /\ Len(wire[e]) \in Nat
      BY LenProperties
    <3>3. \A i \in 1..n : wire[e][i] \in Packet
      BY <3>2, ElementOfSeq
    <3>4. SubSeq(wire[e], 1, n) \in Seq(Packet)
      BY <3>2, <3>3, SubSeqProperties
    <3> QED BY <3>1, <3>4
  <2>2. inbox' \in [Engines -> Seq(Commands)]
    BY <1>23, EmptySeq DEF Hangup
  <2> QED BY <1>23, <2>1, <2>2 DEF Hangup, EngineVars
<1>24. ASSUME NEW k \in Keys, ProxyInit(k) PROVE TypeOK'
  <2>1. /\ connections' \in [Keys -> Connection \cup {NoConnection}]
        /\ nextSid' \in Nat
    BY <1>24, AddTypes DEF ProxyInit
  <2> QED BY <1>24, <2>1 DEF ProxyInit, CommandVars
<1>25. ASSUME NEW k \in Keys, ProxyStop(k) PROVE TypeOK'
  <2>1. connections' \in [Keys -> Connection \cup {NoConnection}]
    BY <1>25 DEF ProxyStop, RemoveByKey
  <2> QED BY <1>25, <2>1 DEF ProxyStop, CommandVars
<1>26. CASE Interrupt
  BY <1>26 DEF Interrupt
<1>27. CASE UNCHANGED vars
  BY <1>27 DEF vars
<1> QED
  BY <1>1, <1>2, <1>3, <1>4, <1>5, <1>6, <1>7, <1>8, <1>9, <1>10, <1>11, <1>12,
     <1>13, <1>14, <1>15, <1>16, <1>17, <1>18, <1>20, <1>21, <1>22, <1>23,
     <1>24, <1>25, <1>26, <1>27
     DEF Next, HandlerStep, CopierStep, EngineStep

\* Every variable keeps its type.
THEOREM TypeCorrect == Spec => []TypeOK
<1>1. Init => TypeOK
  BY InitTypes
<1>2. TypeOK /\ [Next]_vars => TypeOK'
  BY NextTypes
<1> QED BY <1>1, <1>2, PTL DEF Spec

-----------------------------------------------------------------------------
(* The registry and the handlers that look IDEs up in it.                  *)

RegistryInv == TypeOK /\ RouteByKey /\ FailedIDEGone

\* The handlers that hold a client, and those that have given it up.
Holding == {"dial", "forward", "closing", "remove"}
Detaching == {"detach", "await"}

\* A step that leaves the registry and every client alone keeps the invariant
\* if no handler starts to hold a client, or to detach, by it.
LEMMA RegistryUntouched ==
  ASSUME RegistryInv, TypeOK', UNCHANGED <<connections, nextSid, client>>,
         \A e \in Engines : /\ pc'[e] \in Holding => pc[e] \in Holding
                            /\ pc'[e] \in Detaching => pc[e] \in Detaching
  PROVE  RegistryInv'
BY DEF RegistryInv, RouteByKey, FailedIDEGone, Registered, Holding, Detaching

\* A registration that a command or a handler deletes, or that -f deletes, is
\* only missed by whoever looks it up later.
LEMMA RegistryDeletes ==
  ASSUME RegistryInv, TypeOK', NEW k \in Keys,
         connections' = [connections EXCEPT ![k] = NoConnection],
         nextSid' \in Nat, nextSid' >= nextSid, UNCHANGED client,
         \A e \in Engines :
           /\ pc'[e] \in Holding => pc[e] \in Holding
           /\ pc'[e] \in Detaching =>
                \/ pc[e] \in Detaching
                \/ EngineKey[e] = k
  PROVE  RegistryInv'
<1> USE DEF RegistryInv, TypeOK, ListTypeOK, Registered
<1>1. \A e \in Engines : EngineKey[e] \in Keys
  BY EngineKeyAssumption
<1>2. \A m \in Keys : connections'[m] \in {connections[m], NoConnection}
  OBVIOUS
<1>3. RouteByKey'
  <2>1. \A m \in Keys : Registered(m)' =>
          connections'[m].ideKey = m /\ connections'[m].sid < nextSid'
    BY <1>2 DEF RouteByKey, Connection
  <2>2. \A e \in Engines : client'[e] # NoConnection =>
          client'[e].ideKey = EngineKey[e] /\ client'[e].sid < nextSid'
    BY DEF RouteByKey, Connection
  <2>4. \A e \in Engines : pc'[e] \in Holding => client'[e] # NoConnection
    BY DEF RouteByKey, Holding
  <2> QED BY <2>1, <2>2, <2>4 DEF RouteByKey, Holding
<1>4. FailedIDEGone'
  BY <1>1, <1>2 DEF FailedIDEGone, Detaching
<1> QED BY <1>3, <1>4

\* proxyinit: the new registration has an identity nobody has seen before, so
\* it is not the one that a detaching handler gave up.
LEMMA RegistryAdds ==
  ASSUME RegistryInv, TypeOK', NEW k \in Keys, NEW ok \in BOOLEAN,
         Add([ideKey |-> k, sid |-> nextSid], ok),
         nextSid' = nextSid + 1, UNCHANGED <<client, pc>>
  PROVE  RegistryInv'
<1> USE DEF RegistryInv, TypeOK, ListTypeOK
<1> DEFINE c == [ideKey |-> k, sid |-> nextSid]
<1>1. c \in Connection /\ c.ideKey = k /\ c.sid = nextSid
  BY DEF Connection
<1>2. \/ connections' = [connections EXCEPT ![k] = c]
      \/ connections' = [connections EXCEPT ![k] = NoConnection]
      \/ connections' = connections
  BY <1>1 DEF Add
<1> HIDE DEF c
<1>3. CASE connections' = [connections EXCEPT ![k] = NoConnection]
  <2>1. nextSid' \in Nat /\ nextSid' >= nextSid
    OBVIOUS
  <2> QED BY <1>3, <2>1, RegistryDeletes
<1>4. CASE connections' \in {[connections EXCEPT ![k] = c], connections}
  <2>1. /\ connections \in [Keys -> Connection \cup {NoConnection}]
        /\ client \in [Engines -> Connection \cup {NoConnection}]
        /\ nextSid \in Nat
    OBVIOUS
  <2>2. \A m \in Keys : \/ connections'[m] = connections[m]
                        \/ connections'[m] = c /\ m = k
    BY <1>4, <2>1
  <2>3. \A m \in Keys : connections[m] # NoConnection =>
          /\ connections[m].ideKey = m
          /\ connections[m].sid \in Nat
          /\ connections[m].sid < nextSid
    BY <2>1 DEF RouteByKey, Registered, Connection
  <2>4. \A e \in Engines : client[e] # NoConnection =>
          /\ client[e].ideKey = EngineKey[e]
          /\ client[e].sid \in Nat
          /\ client[e].sid < nextSid
    BY <2>1 DEF RouteByKey, Connection
  <2>5. ASSUME NEW m \in Keys, connections'[m] # NoConnection
        PROVE  connections'[m].ideKey = m /\ connections'[m].sid < nextSid'
    <3>1. CASE connections'[m] = connections[m]
      BY <2>1, <2>3, <2>5, <3>1
    <3>2. CASE connections'[m] = c /\ m = k
      BY <1>1, <2>1, <3>2
    <3> QED BY <2>2, <3>1, <3>2
  <2>7. \A e \in Engines : client[e] # NoConnection => client[e].sid < nextSid'
    BY <2>1, <2>4
  <2>8. RouteByKey'
    BY <2>4, <2>5, <2>7 DEF RouteByKey, Registered
  <2>9. FailedIDEGone'
    <3>1. \A e \in Engines : client[e] # NoConnection => client[e] # c
      BY <1>1, <2>4
    <3> QED BY <2>2, <3>1, EngineKeyAssumption DEF FailedIDEGone
  <2> QED BY <2>8, <2>9
<1> QED BY <1>2, <1>3, <1>4

\* The registry invariant is inductive.
LEMMA RegistryStep == RegistryInv /\ [Next]_vars => RegistryInv'
<1> SUFFICES ASSUME RegistryInv, [Next]_vars PROVE RegistryInv'
  OBVIOUS
<1>1. TypeOK /\ TypeOK'
  BY NextTypes DEF RegistryInv
<1>11. /\ pc \in [Engines -> Labels]
       /\ client \in [Engines -> Connection \cup {NoConnection}]
       /\ connections \in [Keys -> Connection \cup {NoConnection}]
       /\ nextSid \in Nat
  BY <1>1 DEF TypeOK, ListTypeOK
<1> USE DEF Goto, listVars
<1>2. ASSUME NEW e \in Engines, ReadInit(e) PROVE RegistryInv'
  <2>1. connections[EngineKey[e]] \in Connection \cup {NoConnection}
    BY <1>11, EngineKeyAssumption
  <2>2. UNCHANGED listVars /\ pc[e] = "read"
    BY <1>2 DEF ReadInit
  <2>3. CASE pc' = [pc EXCEPT ![e] = "done"] /\ UNCHANGED client
    <3>1. \A f \in Engines : /\ pc'[f] \in Holding => pc[f] \in Holding
                             /\ pc'[f] \in Detaching => pc[f] \in Detaching
      BY <1>11, <2>3 DEF Holding, Detaching
    <3> QED BY <1>1, <2>2, <2>3, <3>1, RegistryUntouched
  <2>4. CASE /\ client' = [client EXCEPT ![e] = connections[EngineKey[e]]]
             /\ pc' = [pc EXCEPT ![e] = IF Registered(EngineKey[e])
                                        THEN "dial" ELSE "detach"]
    <3>1. /\ client'[e] = connections[EngineKey[e]]
          /\ \A f \in Engines \ {e} : client'[f] = client[f] /\ pc'[f] = pc[f]
          /\ pc'[e] = IF client'[e] # NoConnection THEN "dial" ELSE "detach"
      BY <1>11, <2>4 DEF Registered
    <3>2. EngineKey[e] \in Keys
      BY EngineKeyAssumption
    <3>3. RouteByKey'
      <4>1. \A f \in Engines : client'[f] # NoConnection =>
              client'[f].ideKey = EngineKey[f] /\ client'[f].sid < nextSid
        BY <3>1, <3>2 DEF RegistryInv, RouteByKey, Registered
      <4>2. \A f \in Engines :
              pc'[f] \in Holding => client'[f] # NoConnection
        BY <3>1 DEF RegistryInv, RouteByKey, Holding
      <4> QED BY <2>2, <4>1, <4>2
                 DEF RegistryInv, RouteByKey, Registered, Holding
    <3>4. FailedIDEGone'
      BY <2>2, <3>1 DEF RegistryInv, FailedIDEGone
    <3> QED BY <1>1, <2>2, <3>3, <3>4 DEF RegistryInv
  <2>5. \/ pc' = [pc EXCEPT ![e] = "done"] /\ UNCHANGED client
        \/ /\ client' = [client EXCEPT ![e] = connections[EngineKey[e]]]
           /\ pc' = [pc EXCEPT ![e] = IF Registered(EngineKey[e])
                                      THEN "dial" ELSE "detach"]
    BY <1>2, Zenon DEF ReadInit, Return, FindByKey
  <2> QED BY <2>3, <2>4, <2>5
<1>3. ASSUME NEW e \in Engines, RemoveIDE(e) PROVE RegistryInv'
  <2>1. /\ connections' = [connections EXCEPT ![EngineKey[e]] = NoConnection]
        /\ pc' = [pc EXCEPT ![e] = "detach"] /\ pc[e] = "remove"
        /\ UNCHANGED <<nextSid, client>>
    BY <1>3 DEF RemoveIDE, RemoveByKey
  <2>2. EngineKey[e] \in Keys
    BY EngineKeyAssumption
  <2>3. nextSid' \in Nat /\ nextSid' >= nextSid
    BY <1>11, <2>1
  <2>4. \A f \in Engines :
          /\ pc'[f] \in Holding => pc[f] \in Holding
          /\ pc'[f] \in Detaching => \/ pc[f] \in Detaching
                                    \/ EngineKey[f] = EngineKey[e]
    BY <1>11, <2>1 DEF Holding, Detaching
  <2> QED BY <1>1, <2>1, <2>2, <2>3, <2>4, RegistryDeletes
<1>4. ASSUME NEW k \in Keys, ProxyInit(k) PROVE RegistryInv'
  BY <1>1, <1>4, RegistryAdds DEF ProxyInit, CommandVars
<1>5. ASSUME NEW k \in Keys, ProxyStop(k) PROVE RegistryInv'
  <2>1. /\ connections' = [connections EXCEPT ![k] = NoConnection]
        /\ UNCHANGED <<nextSid, client, pc>>
    BY <1>5 DEF ProxyStop, RemoveByKey, CommandVars
  <2>2. nextSid' \in Nat /\ nextSid' >= nextSid
    BY <1>11, <2>1
  <2> QED BY <1>1, <2>1, <2>2, RegistryDeletes
<1>6. ASSUME NEW e \in Engines,
             \/ Accept(e) \/ CloudConnect(e) \/ CloudConnected(e)
             \/ ReadStops(e) \/ ReadFails(e)
      PROVE RegistryInv'
  <2>1. UNCHANGED <<connections, nextSid, client>>
    BY <1>6 DEF Accept, CloudConnect, CloudConnected, ReadStops, ReadFails
  <2>2. \/ pc' = [pc EXCEPT ![e] = "read"]
        \/ pc' = [pc EXCEPT ![e] = "cloudinit"]
        \/ pc' = [pc EXCEPT ![e] = "done"]
    BY <1>6 DEF Accept, CloudConnect, CloudConnected, ReadStops, ReadFails, Return
  <2>3. \A f \in Engines : /\ pc'[f] \in Holding => pc[f] \in Holding
                           /\ pc'[f] \in Detaching => pc[f] \in Detaching
    BY <1>11, <2>2 DEF Holding, Detaching
  <2> QED BY <1>1, <2>1, <2>3, RegistryUntouched
<1>7. ASSUME NEW e \in Engines,
             \/ DialFails(e) \/ DialSucceeds(e) \/ ForwardPacket(e)
             \/ ForwardTimeout(e) \/ ForwardError(e) \/ Unwound(e)
      PROVE RegistryInv'
  <2>1. UNCHANGED <<connections, nextSid, client>>
    BY <1>7 DEF DialFails, DialSucceeds, ForwardPacket, ForwardTimeout,
                ForwardError, Unwound
  <2>2. /\ pc[e] \in Holding
        /\ \/ UNCHANGED pc
           \/ \E label \in {"remove", "forward", "closing", "read"} :
                pc' = [pc EXCEPT ![e] = label]
    BY <1>7 DEF DialFails, DialSucceeds, ForwardPacket, ForwardTimeout,
                ForwardError, Unwound, Unwind, Holding
  <2>3. \A f \in Engines : /\ pc'[f] \in Holding => pc[f] \in Holding
                           /\ pc'[f] \in Detaching => pc[f] \in Detaching
    BY <1>11, <2>2 DEF Holding, Detaching
  <2> QED BY <1>1, <2>1, <2>3, RegistryUntouched
<1>8. ASSUME NEW e \in Engines, SendDetach(e) \/ AwaitReply(e)
      PROVE RegistryInv'
  <2>1. UNCHANGED <<connections, nextSid, client>>
    BY <1>8 DEF SendDetach, AwaitReply
  <2>2. /\ pc[e] \in Detaching
        /\ \/ pc' = [pc EXCEPT ![e] = "await"]
           \/ pc' = [pc EXCEPT ![e] = "read"]
    BY <1>8, Zenon DEF SendDetach, AwaitReply, Detaching
  <2>3. \A f \in Engines : /\ pc'[f] \in Holding => pc[f] \in Holding
                           /\ pc'[f] \in Detaching => pc[f] \in Detaching
    BY <1>11, <2>2 DEF Holding, Detaching
  <2> QED BY <1>1, <2>1, <2>3, RegistryUntouched
<1>9. ASSUME NEW e \in Engines,
             CopierStep(e) \/ IDELeaves(e) \/ EngineStep(e)
      PROVE RegistryInv'
  <2>1. UNCHANGED <<connections, nextSid, client, pc>>
    BY <1>9 DEF CopierStep, CopyCommand, CopyEnds, CopierVars, IDELeaves,
                EngineStep, EngineInit, Answer, Stream, Hangup, EngineVars
  <2> QED BY <1>1, <2>1, RegistryUntouched
<1>10. CASE Interrupt \/ UNCHANGED vars
  <2>1. UNCHANGED <<connections, nextSid, client, pc>>
    BY <1>10 DEF Interrupt, vars
  <2> QED BY <1>1, <2>1, RegistryUntouched
<1> QED
  BY <1>2, <1>3, <1>4, <1>5, <1>6, <1>7, <1>8, <1>9, <1>10 DEF Next, HandlerStep

\* No handler dials an IDE of another key, and a registration whose IDE failed
\* is gone before its engine is detached.
THEOREM RegistryCorrect == Spec => [](RouteByKey /\ FailedIDEGone)
<1>1. Init => RegistryInv
  <2> SUFFICES ASSUME Init PROVE RegistryInv
    OBVIOUS
  <2>1. TypeOK
    BY InitTypes
  <2>2. \A e \in Engines : client[e] = NoConnection /\ pc[e] = "idle"
    BY DEF Init
  <2>3. \A k \in Keys : connections[k] = NoConnection
    BY DEF Init, ListInit
  <2> QED BY <2>1, <2>2, <2>3
             DEF RegistryInv, RouteByKey, FailedIDEGone, Registered
<1>2. RegistryInv /\ [Next]_vars => RegistryInv'
  BY RegistryStep
<1>3. RegistryInv => RouteByKey /\ FailedIDEGone
  BY DEF RegistryInv
<1> QED BY <1>1, <1>2, <1>3, PTL DEF Spec

-----------------------------------------------------------------------------
(* The copier.                                                             *)

\* Where CopierConfined says nothing of an engine the handler has not started.
Quiet(e) == copier[e] = "none" /\ ide[e] = "none" /\ inner[e] = <<>>

CopierInvOf(e) ==
  /\ pc[e] \notin {"forward", "closing", "done"} => Quiet(e)
  /\ pc[e] = "forward" => copier[e] # "none" /\ ide[e] \in {"open", "left"}
  /\ pc[e] = "done" => copier[e] = "none"

CopierInv == TypeOK /\ \A e \in Engines : CopierInvOf(e)

\* A step that concerns the handler, the copier or the IDE of one engine keeps
\* the invariant of the others.
LEMMA CopierLocal ==
  ASSUME CopierInv, TypeOK', NEW e \in Engines, CopierInvOf(e)',
         \A f \in Engines \ {e} :
           /\ pc'[f] = pc[f] /\ copier'[f] = copier[f]
           /\ ide'[f] = ide[f] /\ inner'[f] = inner[f]
  PROVE  CopierInv'
BY DEF CopierInv, CopierInvOf, Quiet

\* The copier invariant is inductive.
LEMMA CopierStepInv == CopierInv /\ [Next]_vars => CopierInv'
<1> SUFFICES ASSUME CopierInv, [Next]_vars PROVE CopierInv'
  OBVIOUS
<1>1. TypeOK /\ TypeOK'
  BY NextTypes DEF CopierInv
<1>2. /\ pc \in [Engines -> Labels]
      /\ copier \in [Engines -> {"none", "copying", "failed", "ended"}]
      /\ ide \in [Engines -> {"none", "open", "left", "closed"}]
      /\ inner \in [Engines -> Seq(Packet)]
  BY <1>1 DEF TypeOK
<1>3. \A e \in Engines : CopierInvOf(e)
  BY DEF CopierInv
<1> USE DEF Goto, readers, ideVars
<1>4. ASSUME NEW e \in Engines,
             \/ Accept(e) \/ CloudConnect(e) \/ CloudConnected(e) \/ ReadInit(e)
             \/ ReadStops(e) \/ ReadFails(e) \/ DialFails(e) \/ RemoveIDE(e)
             \/ SendDetach(e) \/ AwaitReply(e)
      PROVE CopierInv'
  <2>1. UNCHANGED <<inner, ide, copier>>
    BY <1>4, Zenon DEF Accept, CloudConnect, CloudConnected, ReadInit, ReadStops,
       ReadFails, DialFails, RemoveIDE, SendDetach, AwaitReply
  <2>2. pc[e] \in {"idle", "cloudinit", "read", "dial", "remove", "detach", "await"}
    BY <1>4 DEF Accept, CloudConnect, CloudConnected, ReadInit, ReadStops,
       ReadFails, DialFails, RemoveIDE, SendDetach, AwaitReply
  <2>3. \E label \in {"cloudinit", "read", "dial", "remove", "detach", "await", "done"} :
          pc' = [pc EXCEPT ![e] = label]
    BY <1>4, Zenon DEF Accept, CloudConnect, CloudConnected, ReadInit, ReadStops,
       ReadFails, DialFails, RemoveIDE, SendDetach, AwaitReply, Return
  <2>4. CopierInvOf(e)'
    BY <1>2, <1>3, <2>1, <2>2, <2>3 DEF CopierInvOf, Quiet
  <2> QED BY <1>1, <1>2, <2>1, <2>3, <2>4, CopierLocal
<1>5. ASSUME NEW e \in Engines, DialSucceeds(e) PROVE CopierInv'
  <2>1. CopierInvOf(e)'
    BY <1>2, <1>3, <1>5 DEF DialSucceeds, CopierInvOf, Quiet
  <2> QED BY <1>1, <1>2, <1>5, <2>1, CopierLocal DEF DialSucceeds
<1>6. ASSUME NEW e \in Engines,
             ForwardPacket(e) \/ ForwardTimeout(e) \/ ForwardError(e)
      PROVE CopierInv'
  <2>1. /\ pc[e] = "forward" /\ copier[e] # "none" /\ ide[e] \in {"open", "left"}
        /\ UNCHANGED copier \/ copier' = [copier EXCEPT ![e] = "ended"]
        /\ \/ UNCHANGED <<pc, ide>>
           \/ /\ pc' = [pc EXCEPT ![e] = "closing"]
              /\ ide' = [ide EXCEPT ![e] = "closed"]
    BY <1>3, <1>6 DEF ForwardPacket, ForwardTimeout, ForwardError, Unwind, CopierInvOf
  <2>2. \A f \in Engines \ {e} : inner'[f] = inner[f]
    BY <1>2, <1>6 DEF ForwardPacket, ForwardTimeout, ForwardError
  <2>3. CopierInvOf(e)'
    BY <1>2, <2>1 DEF CopierInvOf
  <2> QED BY <1>1, <1>2, <2>1, <2>2, <2>3, CopierLocal
<1>7. ASSUME NEW e \in Engines, Unwound(e) PROVE CopierInv'
  <2>1. /\ \/ pc' = [pc EXCEPT ![e] = "remove"]
           \/ pc' = [pc EXCEPT ![e] = "read"]
        /\ copier' = [copier EXCEPT ![e] = "none"]
        /\ ide' = [ide EXCEPT ![e] = "none"]
        /\ inner' = [inner EXCEPT ![e] = <<>>]
    BY <1>7 DEF Unwound
  <2>2. CopierInvOf(e)'
    BY <1>2, <2>1 DEF CopierInvOf, Quiet
  <2> QED BY <1>1, <1>2, <2>1, <2>2, CopierLocal
<1>8. ASSUME NEW e \in Engines, CopyCommand(e) \/ CopyEnds(e) \/ IDELeaves(e)
      PROVE CopierInv'
  <2>1. UNCHANGED <<pc, inner>>
    BY <1>8 DEF CopyCommand, CopyEnds, IDELeaves, CopierVars
  <2>2. /\ \/ UNCHANGED copier
           \/ /\ copier[e] = "copying"
              /\ \E state \in {"ended", "failed"} :
                   copier' = [copier EXCEPT ![e] = state]
        /\ \/ UNCHANGED ide
           \/ ide[e] = "open" /\ ide' = [ide EXCEPT ![e] = "left"]
    BY <1>8 DEF CopyCommand, CopyEnds, IDELeaves
  <2>3. CopierInvOf(e)'
    BY <1>2, <1>3, <2>1, <2>2 DEF CopierInvOf, Quiet
  <2> QED BY <1>1, <1>2, <2>1, <2>2, <2>3, CopierLocal
<1>9. CASE \/ Interrupt \/ UNCHANGED vars
           \/ \E e \in Engines : EngineStep(e)
           \/ \E k \in Keys : ProxyInit(k) \/ ProxyStop(k)
  <2>1. UNCHANGED <<pc, inner, ide, copier>>
    BY <1>9 DEF Interrupt, vars, EngineStep, EngineInit, Answer, Stream, Hangup,
                EngineVars, ProxyInit, ProxyStop, CommandVars
  <2> QED BY <1>1, <1>3, <2>1 DEF CopierInv, CopierInvOf, Quiet
<1> QED
  BY <1>4, <1>5, <1>6, <1>7, <1>8, <1>9 DEF Next, HandlerStep, CopierStep

\* The goroutine that copies from an IDE never outlives the session.
THEOREM CopierNeverLeaks == Spec => []CopierConfined
<1>1. Init => CopierInv
  <2> SUFFICES ASSUME Init PROVE CopierInv
    OBVIOUS
  <2>1. \A e \in Engines : pc[e] = "idle" /\ Quiet(e)
    BY DEF Init, Quiet
  <2> QED BY <2>1, InitTypes DEF CopierInv, CopierInvOf
<1>2. CopierInv /\ [Next]_vars => CopierInv'
  BY CopierStepInv
<1>3. CopierInv => CopierConfined
  <2> SUFFICES ASSUME CopierInv PROVE CopierConfined
    OBVIOUS
  <2>1. \A e \in Engines : CopierInvOf(e) /\ pc[e] \in Labels
    BY DEF CopierInv, TypeOK
  <2> QED BY <2>1 DEF CopierConfined, CopierInvOf, Quiet, Labels
<1> QED BY <1>1, <1>2, <1>3, PTL DEF Spec

-----------------------------------------------------------------------------
\* With or without -f, a key never passes from one registration to another.
THEOREM KeysAreNotTakenOver == Spec => NoTakeover
<1>1. ASSUME TypeOK, [Next]_vars
      PROVE  \A k \in Keys : Registered(k) =>
               connections'[k] \in {connections[k], NoConnection}
  <2>1. connections \in [Keys -> Connection \cup {NoConnection}]
    BY <1>1 DEF TypeOK, ListTypeOK
  <2>2. ASSUME NEW e \in Engines, RemoveIDE(e)
        PROVE connections' = [connections EXCEPT ![EngineKey[e]] = NoConnection]
    BY <2>2 DEF RemoveIDE, RemoveByKey
  <2>3. ASSUME NEW k \in Keys, ProxyStop(k)
        PROVE connections' = [connections EXCEPT ![k] = NoConnection]
    BY <2>3 DEF ProxyStop, RemoveByKey
  <2>4. ASSUME NEW k \in Keys, ProxyInit(k)
        PROVE  \/ connections' = connections
               \/ connections' = [connections EXCEPT ![k] = NoConnection]
               \/ /\ connections[k] = NoConnection
                  /\ \A m \in Keys \ {k} : connections'[m] = connections[m]
    BY <2>1, <2>4 DEF ProxyInit, Add, Registered
  <2>5. \/ \E e \in Engines : RemoveIDE(e)
        \/ \E k \in Keys : ProxyInit(k) \/ ProxyStop(k)
        \/ UNCHANGED connections
    BY <1>1 DEF Next, HandlerStep, CopierStep, EngineStep, Accept, CloudConnect,
       CloudConnected, ReadInit, ReadStops, ReadFails, DialFails, DialSucceeds,
       ForwardPacket, ForwardTimeout, ForwardError, Unwound, SendDetach,
       AwaitReply, CopyCommand, CopyEnds, CopierVars, IDELeaves, EngineInit,
       Answer, Stream, Hangup, EngineVars, Interrupt, listVars, vars
  <2> QED BY <2>1, <2>2, <2>3, <2>4, <2>5, EngineKeyAssumption DEF Registered
<1> QED BY <1>1, TypeCorrect, PTL DEF Spec, NoTakeover

-----------------------------------------------------------------------------
\* The parts of RegistryCorrect by themselves.
THEOREM RoutesByKey == Spec => []RouteByKey
<1>1. Spec => [](RouteByKey /\ FailedIDEGone)
  BY RegistryCorrect
<1> QED BY <1>1, PTL

\* No engine is detached while the registration of the IDE that failed it stands.
THEOREM FailedIDEsAreGone == Spec => []FailedIDEGone
<1>1. Spec => [](RouteByKey /\ FailedIDEGone)
  BY RegistryCorrect
<1> QED BY <1>1, PTL

-----------------------------------------------------------------------------
(* The proxy implements IDERouting.                                        *)

\* The expressions that Routing puts for the variables of IDERouting.
Ide == [k \in Keys |-> Number(connections[k])]
Serving == [e \in Engines |->
              IF SessionOf(e) = "none" THEN 0 ELSE Number(client[e])]
Session == [e \in Engines |-> SessionOf(e)]

\* A step that leaves the registry alone and changes the standing of one engine
\* at most is a step of IDERouting if that change is.
LEMMA OneSession ==
  ASSUME TypeOK, NEW e \in Engines,
         \A f \in Engines \ {e} :
           pc'[f] = pc[f] /\ failed'[f] = failed[f] /\ client'[f] = client[f]
  PROVE  /\ Session' = [Session EXCEPT ![e] = SessionOf(e)']
         /\ Serving' = [Serving EXCEPT ![e] =
                          IF SessionOf(e)' = "none" THEN 0 ELSE Number(client'[e])]
<1>1. \A f \in Engines \ {e} : SessionOf(f)' = SessionOf(f)
  BY DEF SessionOf
<1>2. \A f \in Engines \ {e} :
        Session'[f] = Session[f] /\ Serving'[f] = Serving[f]
  BY <1>1 DEF Session, Serving
<1>3. /\ Session'[e] = SessionOf(e)'
      /\ Serving'[e] = IF SessionOf(e)' = "none" THEN 0 ELSE Number(client'[e])
  BY DEF Session, Serving
<1> QED
  BY <1>2, <1>3, Zenon DEF Session, Serving

\* An engine whose standing is what it was changes nothing.
LEMMA SameSession ==
  ASSUME TypeOK, NEW e \in Engines,
         \A f \in Engines \ {e} :
           pc'[f] = pc[f] /\ failed'[f] = failed[f] /\ client'[f] = client[f],
         SessionOf(e)' = SessionOf(e),
         SessionOf(e) = "none" \/ client'[e] = client[e]
  PROVE  UNCHANGED <<Serving, Session>>
<1>1. \A f \in Engines : SessionOf(f)' = SessionOf(f)
  BY DEF SessionOf
<1>2. \A f \in Engines : SessionOf(f) = "none" \/ client'[f] = client[f]
  OBVIOUS
<1> QED
  BY <1>1, <1>2 DEF Session, Serving

\* A registration has a number, and no registration has none.
LEMMA Numbered ==
  ASSUME TypeOK, NEW k \in Keys
  PROVE  Number(connections[k]) # 0 <=> Registered(k)
<1>1. connections[k] \in Connection \cup {NoConnection}
  BY DEF TypeOK, ListTypeOK
<1>2. connections[k] # NoConnection => connections[k].sid \in Nat
  BY <1>1 DEF Connection
<1> QED
  BY <1>2 DEF Number, Registered

\* What deleting and adding a registration is to IDERouting.
LEMMA RegistryChange ==
  ASSUME TypeOK, NEW k \in Keys, NEW c \in Connection \cup {NoConnection},
         connections' = [connections EXCEPT ![k] = c]
  PROVE  Ide' = [Ide EXCEPT ![k] = Number(c)]
<1>1. \A m \in Keys : connections'[m] = IF m = k THEN c ELSE connections[m]
  BY DEF TypeOK, ListTypeOK
<1>2. \A m \in Keys :
        Number(connections'[m]) = IF m = k THEN Number(c) ELSE Number(connections[m])
  BY <1>1
<1> QED
  BY <1>2 DEF Ide

\* Every step of the proxy is a step of IDERouting, or none.
LEMMA StepOfRouting ==
  ASSUME TypeOK, [Next]_vars
  PROVE  [Routing!Next]_<<nextSid, Ide, Serving, Session>>
<1> USE DEF Goto, Stay, listVars
<1>1. /\ pc \in [Engines -> Labels]
      /\ failed \in [Engines -> BOOLEAN]
      /\ client \in [Engines -> Connection \cup {NoConnection}]
      /\ connections \in [Keys -> Connection \cup {NoConnection}]
  BY DEF TypeOK, ListTypeOK
<1>2. ASSUME NEW e \in Engines,
             \/ Accept(e) \/ CloudConnect(e) \/ CloudConnected(e) \/ ReadStops(e)
             \/ ReadFails(e) \/ SendDetach(e) \/ AwaitReply(e)
      PROVE  UNCHANGED <<nextSid, Ide, Serving, Session>>
  <2>1. UNCHANGED <<connections, nextSid, client, failed>>
    BY <1>2 DEF Accept, CloudConnect, CloudConnected, ReadStops, ReadFails,
                SendDetach, AwaitReply
  <2>2. pc[e] \in {"idle", "cloudinit", "read", "detach", "await"}
    BY <1>2 DEF Accept, CloudConnect, CloudConnected, ReadStops, ReadFails,
                SendDetach, AwaitReply
  <2>3. \E label \in {"cloudinit", "read", "await", "done"} :
          pc' = [pc EXCEPT ![e] = label]
    BY <1>2, Zenon DEF Accept, CloudConnect, CloudConnected, ReadStops, ReadFails,
                SendDetach, AwaitReply, Return
  <2>4. SessionOf(e) = "none" /\ SessionOf(e)' = "none"
    BY <1>1, <2>2, <2>3 DEF SessionOf
  <2>5. UNCHANGED <<Serving, Session>>
    BY <1>1, <2>1, <2>3, <2>4, SameSession
  <2> QED
    BY <2>1, <2>5 DEF Ide
<1>3. ASSUME NEW e \in Engines, ReadInit(e)
      PROVE  [Routing!Next]_<<nextSid, Ide, Serving, Session>>
  <2>1. UNCHANGED <<connections, nextSid, failed>> /\ pc[e] = "read"
    BY <1>3 DEF ReadInit
  <2>2. SessionOf(e) = "none"
    BY <2>1 DEF SessionOf
  <2>3. \/ pc' = [pc EXCEPT ![e] = "done"] /\ UNCHANGED client
        \/ /\ client' = [client EXCEPT ![e] = connections[EngineKey[e]]]
           /\ pc' = [pc EXCEPT ![e] = IF Registered(EngineKey[e])
                                      THEN "dial" ELSE "detach"]
    BY <1>3, Zenon DEF ReadInit, Return, FindByKey
  <2>4. \A f \in Engines \ {e} :
          pc'[f] = pc[f] /\ failed'[f] = failed[f] /\ client'[f] = client[f]
    BY <1>1, <2>1, <2>3
  <2>5. UNCHANGED <<nextSid, Ide>>
    BY <2>1 DEF Ide
  <2>6. CASE pc'[e] # "dial"
    <3>1. pc'[e] \in {"done", "detach"}
      BY <1>1, <2>3, <2>6
    <3>2. SessionOf(e)' = "none"
      BY <3>1 DEF SessionOf
    <3> QED
      BY <2>2, <2>4, <2>5, <3>2, SameSession
  <2>7. CASE pc'[e] = "dial"
    <3>1. client'[e] = connections[EngineKey[e]] /\ Registered(EngineKey[e])
      BY <1>1, <2>3, <2>7
    <3>2. SessionOf(e)' = "calling"
      BY <2>7 DEF SessionOf
    <3>3. EngineKey[e] \in Keys
      BY EngineKeyAssumption
    <3>4. Ide[EngineKey[e]] # 0 /\ Ide[EngineKey[e]] = Number(client'[e])
      BY <3>1, <3>3, Numbered DEF Ide
    <3>5. /\ Session' = [Session EXCEPT ![e] = "calling"]
          /\ Serving' = [Serving EXCEPT ![e] = Ide[EngineKey[e]]]
      BY <2>4, <3>2, <3>4, OneSession
    <3>6. Session[e] = "none"
      BY <2>2 DEF Session
    <3> QED
      BY <2>5, <3>4, <3>5, <3>6
         DEF Routing!Next, Routing!Attach, Ide, Serving, Session
  <2> QED
    BY <2>6, <2>7
<1>4. ASSUME NEW e \in Engines, NEW old \in {"calling", "debugging", "broken"},
             NEW new \in {"none", "calling", "debugging", "broken"},
             SessionOf(e) = old, SessionOf(e)' = new, UNCHANGED client,
             \A f \in Engines \ {e} : pc'[f] = pc[f] /\ failed'[f] = failed[f]
      PROVE  /\ Session[e] = old
             /\ new = old => UNCHANGED <<Serving, Session>>
             /\ Session' = [Session EXCEPT ![e] = new]
             /\ new # "none" => UNCHANGED Serving
             /\ new = "none" => Serving' = [Serving EXCEPT ![e] = 0]
  <2>1. /\ Session' = [Session EXCEPT ![e] = new]
        /\ Serving' = [Serving EXCEPT ![e] =
                         IF new = "none" THEN 0 ELSE Number(client'[e])]
    BY <1>4, OneSession
  <2>2. Serving[e] = Number(client[e]) /\ Session[e] = old
    BY <1>4 DEF Serving, Session
  <2>3. Serving = [Serving EXCEPT ![e] = Serving[e]]
    BY Zenon DEF Serving
  <2>4. new # "none" => UNCHANGED Serving
    BY <1>4, <2>1, <2>2, <2>3
  <2>5. new = old => UNCHANGED <<Serving, Session>>
    BY <1>4, SameSession
  <2> QED
    BY <2>1, <2>2, <2>4, <2>5
<1>5. ASSUME NEW e \in Engines,
             \/ DialFails(e) \/ DialSucceeds(e) \/ ForwardPacket(e)
             \/ ForwardTimeout(e) \/ ForwardError(e) \/ Unwound(e)
      PROVE  [Routing!Next]_<<nextSid, Ide, Serving, Session>>
  <2>1. UNCHANGED <<connections, nextSid, client>> /\ UNCHANGED <<nextSid, Ide>>
    BY <1>5 DEF DialFails, DialSucceeds, ForwardPacket, ForwardTimeout,
                ForwardError, Unwound, Ide
  <2>2. \A f \in Engines \ {e} : pc'[f] = pc[f] /\ failed'[f] = failed[f]
    BY <1>1, <1>5 DEF DialFails, DialSucceeds, ForwardPacket, ForwardTimeout,
                ForwardError, Unwound, Unwind
  <2>3. CASE DialFails(e) \/ ForwardTimeout(e)
    <3>1. SessionOf(e) \in {"calling", "debugging"} /\ SessionOf(e)' = "broken"
      BY <1>1, <2>3 DEF DialFails, ForwardTimeout, Unwind, SessionOf
    <3>2. /\ Session[e] \in {"calling", "debugging"}
          /\ Session' = [Session EXCEPT ![e] = "broken"]
          /\ UNCHANGED Serving
      BY <1>4, <2>1, <2>2, <3>1
    <3> QED
      BY <2>1, <3>2 DEF Routing!Next, Routing!Break, Ide, Serving, Session
  <2>4. CASE DialSucceeds(e)
    <3>1. SessionOf(e) = "calling" /\ SessionOf(e)' = "debugging"
      BY <1>1, <2>4 DEF DialSucceeds, SessionOf
    <3>2. /\ Session[e] = "calling"
          /\ Session' = [Session EXCEPT ![e] = "debugging"]
          /\ UNCHANGED Serving
      BY <1>4, <2>1, <2>2, <3>1
    <3> QED
      BY <2>1, <3>2 DEF Routing!Next, Routing!Connect, Ide, Serving, Session
  <2>5. CASE ForwardPacket(e) \/ ForwardError(e)
    <3>1. SessionOf(e) = "debugging" /\ SessionOf(e)' = "debugging"
      BY <1>1, <2>5 DEF ForwardPacket, ForwardError, Unwind, SessionOf
    <3> QED
      BY <1>4, <2>1, <2>2, <3>1
  <2>6. CASE Unwound(e)
    <3>1. CASE failed[e]
      <4>1. SessionOf(e) = "broken" /\ SessionOf(e)' = "broken"
        BY <1>1, <2>6, <3>1 DEF Unwound, SessionOf
      <4> QED
        BY <1>4, <2>1, <2>2, <4>1
    <3>2. CASE ~ failed[e]
      <4>1. SessionOf(e) = "debugging" /\ SessionOf(e)' = "none"
        BY <1>1, <2>6, <3>2 DEF Unwound, SessionOf
      <4>2. /\ Session[e] = "debugging"
            /\ Session' = [Session EXCEPT ![e] = "none"]
            /\ Serving' = [Serving EXCEPT ![e] = 0]
        BY <1>4, <2>1, <2>2, <4>1
      <4> QED
        BY <2>1, <4>2 DEF Routing!Next, Routing!Finish, Ide, Serving, Session
    <3> QED
      BY <3>1, <3>2
  <2> QED
    BY <1>5, <2>3, <2>4, <2>5, <2>6
<1>6. ASSUME NEW e \in Engines, RemoveIDE(e)
      PROVE  [Routing!Next]_<<nextSid, Ide, Serving, Session>>
  <2>1. /\ connections' = [connections EXCEPT ![EngineKey[e]] = NoConnection]
        /\ pc[e] = "remove" /\ pc' = [pc EXCEPT ![e] = "detach"]
        /\ UNCHANGED <<nextSid, client, failed>>
    BY <1>6 DEF RemoveIDE, RemoveByKey
  <2>2. SessionOf(e) = "broken" /\ SessionOf(e)' = "none"
    BY <1>1, <2>1 DEF SessionOf
  <2>3. /\ Session[e] = "broken"
        /\ Session' = [Session EXCEPT ![e] = "none"]
        /\ Serving' = [Serving EXCEPT ![e] = 0]
    BY <1>1, <1>4, <2>1, <2>2
  <2>4. Ide' = [Ide EXCEPT ![EngineKey[e]] = 0]
    BY <2>1, EngineKeyAssumption, RegistryChange DEF Number
  <2> QED
    BY <2>1, <2>3, <2>4 DEF Routing!Next, Routing!Drop, Ide, Serving, Session
<1>7. ASSUME NEW k \in Keys, ProxyInit(k) \/ ProxyStop(k)
      PROVE  [Routing!Next]_<<nextSid, Ide, Serving, Session>>
  <2>1. UNCHANGED <<Serving, Session>> /\ nextSid \in Nat
    BY <1>7 DEF ProxyInit, ProxyStop, CommandVars, Serving, Session, SessionOf, TypeOK
  <2>2. nextSid' \in {nextSid, nextSid + 1}
    BY <1>7 DEF ProxyInit, ProxyStop
  <2>3. CASE connections' = [connections EXCEPT ![k] = NoConnection]
    <3>1. Ide' = [Ide EXCEPT ![k] = 0]
      BY <2>3, RegistryChange DEF Number
    <3> QED
      BY <2>1, <2>2, <3>1 DEF Routing!Next, Routing!Withdraw, Ide, Serving, Session
  <2> DEFINE c == [ideKey |-> k, sid |-> nextSid]
  <2>4. c \in Connection /\ c.ideKey = k /\ c.sid = nextSid /\ c # NoConnection
    BY <2>1, NoConnectionAssumption DEF Connection
  <2>5. CASE /\ ~ Registered(k)
             /\ connections' = [connections EXCEPT ![k] = c]
             /\ nextSid' = nextSid + 1
    <3>1. Ide' = [Ide EXCEPT ![k] = nextSid + 1] /\ Ide[k] = 0
      BY <2>4, <2>5, RegistryChange, Numbered DEF Number, Ide
    <3> QED
      BY <2>1, <2>5, <3>1 DEF Routing!Next, Routing!Register, Ide, Serving, Session
  <2>6. CASE UNCHANGED connections
    <3>1. UNCHANGED Ide
      BY <2>6 DEF Ide
    <3> QED
      BY <2>1, <2>2, <3>1 DEF Routing!Next, Routing!Refuse, Ide, Serving, Session
  <2>7. CASE ProxyInit(k)
    <3>1. PICK ok \in BOOLEAN : Add(c, ok)
      BY <2>7 DEF ProxyInit
    <3>2. nextSid' = nextSid + 1
      BY <2>7 DEF ProxyInit
    <3> HIDE DEF c
    <3> QED
      BY <2>3, <2>4, <2>5, <2>6, <3>1, <3>2 DEF Add
  <2>8. CASE ProxyStop(k)
    BY <2>3, <2>8 DEF ProxyStop, RemoveByKey
  <2> QED
    BY <1>7, <2>7, <2>8
<1>8. CASE \/ Interrupt \/ UNCHANGED vars
           \/ \E e \in Engines : CopierStep(e) \/ IDELeaves(e) \/ EngineStep(e)
  <2>1. UNCHANGED <<connections, nextSid, client, pc, failed>>
    BY <1>8 DEF Interrupt, vars, CopierStep, CopyCommand, CopyEnds, CopierVars,
                IDELeaves, EngineStep, EngineInit, Answer, Stream, Hangup, EngineVars
  <2> QED
    BY <2>1 DEF Ide, Serving, Session, SessionOf
<1> QED
  BY <1>2, <1>3, <1>5, <1>6, <1>7, <1>8 DEF Next, HandlerStep

\* For any number of engines, keys and registrations, with Cloud or without, the
\* proxy implements IDERouting.
THEOREM ProxyImplementsRouting == Spec => ImplementsRouting
<1>1. Init => TypeOK
  BY InitTypes
<1>2. TypeOK /\ [Next]_vars => TypeOK'
  BY NextTypes
<1>3. Init => Routing!Init
  BY DEF Init, ListInit, Routing!Init, Number, SessionOf
<1>4. TypeOK /\ [Next]_vars => [Routing!Next]_Routing!vars
  BY StepOfRouting DEF Routing!vars, Ide, Serving, Session
<1> QED
  BY <1>1, <1>2, <1>3, <1>4, PTL DEF Spec, Routing!Spec, ImplementsRouting
-----------------------------------------------------------------------------
(***************************************************************************)
(* What an IDE is sent.  The packets of a session follow its init on the   *)
(* wire, and those of the next one follow the response that ends it; the   *)
(* two readers only ever take packets off the front.                       *)
(***************************************************************************)

\* The i-th packet of q is in its place, if those behind the k-th are what comes
\* after packet m of a session: they are numbered without a gap, up to `last', and
\* no other session starts before this one is done.
InPlace(q, k, m, last, i) ==
  /\ q[i].kind # "cloudinit"
  /\ q[i].kind = "init" => \E j \in (k + 1)..(i - 1) : q[j].kind = "done"
  /\ q[i].kind # "stream" =>
       /\ q[i].n \in (m + 1)..last
       /\ \/ q[i].n = m + 1
          \/ \E j \in (k + 1)..(i - 1) : q[j].kind # "stream" /\ q[j].n = q[i].n - 1
       /\ \A j \in (k + 1)..(i - 1) : q[j].kind # "stream" => q[j].n < q[i].n

\* They are all there: up to the last that an engine in the given state has sent.
AllThere(q, k, m, state, last) ==
  \/ state = "closed"
  \/ /\ \/ state = "debugging"
        \/ \E i \in (k + 1)..Len(q) : q[i].kind = "done"
     /\ \/ last = m
        \/ \E i \in (k + 1)..Len(q) : q[i].kind # "stream" /\ q[i].n = last

Continues(q, k, m, state, last) ==
  /\ m <= last
  /\ \A i \in (k + 1)..Len(q) : InPlace(q, k, m, last, i)
  /\ AllThere(q, k, m, state, last)

\* Packets taken off the front make no difference to those behind them.
LEMMA ContinuesShifted ==
  ASSUME NEW q \in Seq(Packet), NEW p \in Seq(Packet), NEW d \in Nat,
         NEW k \in d..Len(q), NEW m \in Nat, NEW state, NEW last \in Nat,
         Len(p) = Len(q) - d, \A i \in 1..Len(p) : p[i] = q[i + d],
         Continues(q, k, m, state, last)
  PROVE  Continues(p, k - d, m, state, last)
<1>1. Len(q) \in Nat /\ Len(p) \in Nat /\ k \in Nat
  BY LenProperties
<1>2. \A i \in (k + 1)..Len(q) : i - d \in (k - d + 1)..Len(p) /\ p[i - d] = q[i]
  <2> SUFFICES ASSUME NEW i \in (k + 1)..Len(q)
               PROVE  i - d \in (k - d + 1)..Len(p) /\ p[i - d] = q[i]
    OBVIOUS
  <2>1. i - d \in 1..Len(p) /\ i - d \in (k - d + 1)..Len(p) /\ i - d + d = i
    BY <1>1
  <2> QED BY <2>1
<1>3. \A i \in (k - d + 1)..Len(p) : i + d \in (k + 1)..Len(q) /\ p[i] = q[i + d]
  BY <1>1
<1>4. ASSUME NEW i \in (k - d + 1)..Len(p)
      PROVE  InPlace(p, k - d, m, last, i)
  <2>1. i + d \in (k + 1)..Len(q) /\ p[i] = q[i + d]
    BY <1>3
  <2>2. \A j \in (k + 1)..(i + d - 1) :
          j - d \in (k - d + 1)..(i - 1) /\ p[j - d] = q[j]
    <3> SUFFICES ASSUME NEW j \in (k + 1)..(i + d - 1)
                 PROVE  j - d \in (k - d + 1)..(i - 1) /\ p[j - d] = q[j]
      OBVIOUS
    <3>1. j \in (k + 1)..Len(q) /\ j - d \in (k - d + 1)..(i - 1)
      BY <1>1, <2>1
    <3> QED BY <1>2, <3>1
  <2>3. \A j \in (k - d + 1)..(i - 1) :
          j + d \in (k + 1)..(i + d - 1) /\ p[j] = q[j + d]
    <3> SUFFICES ASSUME NEW j \in (k - d + 1)..(i - 1)
                 PROVE  j + d \in (k + 1)..(i + d - 1) /\ p[j] = q[j + d]
      OBVIOUS
    <3>1. j \in (k - d + 1)..Len(p) /\ j + d \in (k + 1)..(i + d - 1)
      BY <1>1
    <3> QED BY <1>3, <3>1
  <2>4. InPlace(q, k, m, last, i + d)
    BY <2>1 DEF Continues
  <2>5. p[i].kind = "init" => \E j \in (k - d + 1)..(i - 1) : p[j].kind = "done"
    <3> HAVE p[i].kind = "init"
    <3>1. PICK j \in (k + 1)..(i + d - 1) : q[j].kind = "done"
      BY <2>1, <2>4 DEF InPlace
    <3>2. j - d \in (k - d + 1)..(i - 1) /\ p[j - d] = q[j]
      BY <2>2
    <3> QED BY <3>1, <3>2
  <2>6. p[i].kind # "stream" =>
          \/ p[i].n = m + 1
          \/ \E j \in (k - d + 1)..(i - 1) : p[j].kind # "stream" /\ p[j].n = p[i].n - 1
    <3> SUFFICES ASSUME p[i].kind # "stream", p[i].n # m + 1
                 PROVE  \E j \in (k - d + 1)..(i - 1) :
                          p[j].kind # "stream" /\ p[j].n = p[i].n - 1
      OBVIOUS
    <3>1. PICK j \in (k + 1)..(i + d - 1) : q[j].kind # "stream" /\ q[j].n = q[i + d].n - 1
      BY <2>1, <2>4 DEF InPlace
    <3>2. j - d \in (k - d + 1)..(i - 1) /\ p[j - d] = q[j]
      BY <2>2
    <3> QED BY <2>1, <3>1, <3>2
  <2>7. p[i].kind # "stream" =>
          \A j \in (k - d + 1)..(i - 1) : p[j].kind # "stream" => p[j].n < p[i].n
    <3> SUFFICES ASSUME p[i].kind # "stream",
                        NEW j \in (k - d + 1)..(i - 1), p[j].kind # "stream"
                 PROVE  p[j].n < p[i].n
      OBVIOUS
    <3>1. j + d \in (k + 1)..(i + d - 1) /\ p[j] = q[j + d]
      BY <2>3
    <3>2. q[j + d].n < q[i + d].n
      BY <2>1, <2>4, <3>1 DEF InPlace
    <3> QED BY <2>1, <3>1, <3>2
  <2>8. p[i].kind # "cloudinit" /\ (p[i].kind # "stream" => p[i].n \in (m + 1)..last)
    BY <2>1, <2>4 DEF InPlace
  <2> QED BY <2>5, <2>6, <2>7, <2>8 DEF InPlace
<1>5. AllThere(p, k - d, m, state, last)
  <2>1. AllThere(q, k, m, state, last)
    BY DEF Continues
  <2> QED BY <1>2, <2>1 DEF AllThere
<1> QED
  BY <1>4, <1>5 DEF Continues

\* Output in between makes no difference.
LEMMA ContinuesSkipped ==
  ASSUME NEW q \in Seq(Packet), NEW k \in Nat, NEW l \in k..Len(q),
         NEW m \in Nat, NEW state, NEW last \in Nat,
         \A i \in (k + 1)..l : q[i].kind = "stream",
         Continues(q, k, m, state, last)
  PROVE  Continues(q, l, m, state, last)
<1>1. Len(q) \in Nat /\ l \in Nat
  BY LenProperties
<1>2. \A i \in (k + 1)..Len(q) : q[i].kind # "stream" => i \in (l + 1)..Len(q)
  BY <1>1
<1>3. \A i \in (l + 1)..Len(q) : i \in (k + 1)..Len(q)
  BY <1>1
<1>4. ASSUME NEW i \in (l + 1)..Len(q)
      PROVE  \A j \in (k + 1)..(i - 1) : q[j].kind # "stream" => j \in (l + 1)..(i - 1)
  BY <1>1
<1>5. ASSUME NEW i \in (l + 1)..Len(q)
      PROVE  \A j \in (l + 1)..(i - 1) : j \in (k + 1)..(i - 1)
  BY <1>1
<1> QED
  BY <1>2, <1>3, <1>4, <1>5 DEF Continues, InPlace, AllThere

\* The first numbered packet is the next response of the session, unless it ends it.
LEMMA ContinuesNext ==
  ASSUME NEW q \in Seq(Packet), NEW k \in Nat, k < Len(q),
         NEW m \in Nat, NEW state, NEW last \in Nat,
         q[k + 1].kind \notin {"stream", "done"},
         Continues(q, k, m, state, last)
  PROVE  /\ q[k + 1].kind = "response" /\ q[k + 1].n = m + 1
         /\ Continues(q, k + 1, m + 1, state, last)
<1>1. Len(q) \in Nat /\ k + 1 \in (k + 1)..Len(q) /\ k + 1 \in 1..Len(q)
  BY LenProperties
<1>2. q[k + 1] \in Packet
  BY <1>1, ElementOfSeq
<1>3. \A j \in (k + 1)..(k + 1 - 1) : FALSE
  OBVIOUS
<1>4. q[k + 1].kind = "response" /\ q[k + 1].n = m + 1 /\ m + 1 <= last
  BY <1>1, <1>2, <1>3 DEF Continues, InPlace, Packet, Kinds
<1>5. \A i \in (k + 1)..Len(q) : i = k + 1 \/ i \in (k + 1 + 1)..Len(q)
  BY <1>1
<1>6. ASSUME NEW i \in (k + 1 + 1)..Len(q)
      PROVE  /\ i \in (k + 1)..Len(q) /\ k + 1 \in (k + 1)..(i - 1)
             /\ \A j \in (k + 1)..(i - 1) : j = k + 1 \/ j \in (k + 1 + 1)..(i - 1)
             /\ \A j \in (k + 1 + 1)..(i - 1) : j \in (k + 1)..(i - 1)
             /\ q[i].n \in Nat
  <2>1. i \in 1..Len(q)
    BY <1>1
  <2>2. q[i] \in Packet
    BY <2>1, ElementOfSeq
  <2> QED BY <1>1, <2>2 DEF Packet
<1>7. ASSUME NEW i \in (k + 1 + 1)..Len(q)
      PROVE  InPlace(q, k + 1, m + 1, last, i)
  <2>1. InPlace(q, k, m, last, i)
    BY <1>6 DEF Continues
  <2>2. q[i].kind # "stream" => m + 1 < q[i].n
    BY <1>4, <1>6, <2>1 DEF InPlace
  <2>3. q[i].kind = "init" => \E j \in (k + 1 + 1)..(i - 1) : q[j].kind = "done"
    BY <1>4, <1>6, <2>1 DEF InPlace
  <2>4. q[i].kind # "stream" =>
          \/ q[i].n = m + 1 + 1
          \/ \E j \in (k + 1 + 1)..(i - 1) : q[j].kind # "stream" /\ q[j].n = q[i].n - 1
    BY <1>4, <1>6, <2>1, <2>2 DEF InPlace
  <2>5. q[i].kind # "stream" =>
          \A j \in (k + 1 + 1)..(i - 1) : q[j].kind # "stream" => q[j].n < q[i].n
    BY <1>6, <2>1 DEF InPlace
  <2>6. q[i].kind # "cloudinit" /\ (q[i].kind # "stream" => q[i].n \in (m + 1 + 1)..last)
    BY <1>6, <2>1, <2>2 DEF InPlace
  <2> QED BY <2>3, <2>4, <2>5, <2>6 DEF InPlace
<1>8. AllThere(q, k + 1, m + 1, state, last)
  BY <1>4, <1>5 DEF Continues, AllThere
<1> QED
  BY <1>4, <1>7, <1>8 DEF Continues

\* What may be lost of it when the engine dies.
LEMMA ContinuesCut ==
  ASSUME NEW q \in Seq(Packet), NEW p \in Seq(Packet), NEW k \in Nat,
         NEW m \in Nat, NEW state, NEW last \in Nat,
         Len(p) <= Len(q), \A i \in 1..Len(p) : p[i] = q[i],
         Continues(q, k, m, state, last)
  PROVE  Continues(p, k, m, "closed", last)
<1>1. Len(q) \in Nat /\ Len(p) \in Nat
  BY LenProperties
<1>2. \A i \in (k + 1)..Len(p) : i \in (k + 1)..Len(q) /\ p[i] = q[i]
  BY <1>1
<1>3. \A i \in (k + 1)..Len(p) : \A j \in (k + 1)..(i - 1) : p[j] = q[j]
  BY <1>1
<1>4. ASSUME NEW i \in (k + 1)..Len(p)
      PROVE  InPlace(p, k, m, last, i)
  <2>1. InPlace(q, k, m, last, i)
    BY <1>2 DEF Continues
  <2> QED BY <1>2, <1>3, <2>1 DEF InPlace
<1> QED
  BY <1>4 DEF Continues, AllThere

\* Output is added.
LEMMA ContinuesWithOutput ==
  ASSUME NEW q \in Seq(Packet), NEW x \in Packet, NEW k \in 0..Len(q),
         NEW m \in Nat, NEW last \in Nat, x.kind = "stream",
         Continues(q, k, m, "debugging", last)
  PROVE  Continues(Append(q, x), k, m, "debugging", last)
<1>1. Len(q) \in Nat
  BY LenProperties
<1> DEFINE p == Append(q, x)
<1>2. /\ Len(p) = Len(q) + 1 /\ p[Len(q) + 1] = x
      /\ \A i \in 1..Len(q) : p[i] = q[i]
  BY AppendProperties
<1> HIDE DEF p
<1>3. \A i \in (k + 1)..Len(q) : i \in (k + 1)..Len(p) /\ p[i] = q[i]
  BY <1>1, <1>2
<1>4. \A i \in (k + 1)..Len(p) : i \in (k + 1)..Len(q) \/ p[i] = x
  BY <1>1, <1>2
<1>5. \A i \in (k + 1)..Len(q) : \A j \in (k + 1)..(i - 1) : p[j] = q[j]
  BY <1>1, <1>2
<1>6. ASSUME NEW i \in (k + 1)..Len(p)
      PROVE  InPlace(p, k, m, last, i)
  <2>1. CASE p[i] = x
    BY <2>1 DEF InPlace
  <2>2. CASE i \in (k + 1)..Len(q)
    <3>1. InPlace(q, k, m, last, i)
      BY <2>2 DEF Continues
    <3> QED BY <1>3, <1>5, <2>2, <3>1 DEF InPlace
  <2> QED BY <1>4, <2>1, <2>2
<1>7. AllThere(p, k, m, "debugging", last)
  BY <1>3 DEF Continues, AllThere
<1>8. Continues(p, k, m, "debugging", last)
  BY <1>6, <1>7 DEF Continues
<1> QED
  BY <1>8 DEF p

\* The engine adds a numbered packet: a response, the last one, or an init if it
\* has no session.
LEMMA ContinuesWithMore ==
  ASSUME NEW q \in Seq(Packet), NEW x \in Packet, NEW k \in 0..Len(q),
         NEW m \in Nat, NEW state, NEW next, NEW last \in Nat,
         state # "closed", x.n = last + 1,
         x.kind \in {"init", "response", "done"},
         x.kind = "init" => state # "debugging",
         next \in {"debugging", "closed"} \/ x.kind = "done" \/ state # "debugging",
         Continues(q, k, m, state, last)
  PROVE  Continues(Append(q, x), k, m, next, last + 1)
<1>1. Len(q) \in Nat
  BY LenProperties
<1> DEFINE p == Append(q, x)
<1>2. /\ Len(p) = Len(q) + 1 /\ p[Len(q) + 1] = x
      /\ \A i \in 1..Len(q) : p[i] = q[i]
  BY AppendProperties
<1> HIDE DEF p
<1>3. /\ \A i \in (k + 1)..Len(q) : i \in (k + 1)..Len(p) /\ p[i] = q[i]
      /\ Len(q) + 1 \in (k + 1)..Len(p)
  BY <1>1, <1>2
<1>4. \A i \in (k + 1)..Len(p) : i \in (k + 1)..Len(q) \/ i = Len(q) + 1
  BY <1>1, <1>2
<1>5. \A i \in (k + 1)..Len(q) : \A j \in (k + 1)..(i - 1) : p[j] = q[j]
  BY <1>1, <1>2
<1>6. ASSUME NEW i \in (k + 1)..Len(q)
      PROVE  InPlace(p, k, m, last + 1, i)
  <2>1. InPlace(q, k, m, last, i)
    BY DEF Continues
  <2>2. p[i] = q[i] /\ \A j \in (k + 1)..(i - 1) : p[j] = q[j]
    BY <1>3, <1>5
  <2>3. p[i].kind # "stream" => p[i].n \in (m + 1)..(last + 1)
    BY <2>1, <2>2 DEF InPlace
  <2> QED BY <2>1, <2>2, <2>3 DEF InPlace
<1>7. \A j \in (k + 1)..(Len(q) + 1 - 1) : j \in (k + 1)..Len(q) /\ p[j] = q[j]
  BY <1>1, <1>3
<1>8. \A j \in (k + 1)..Len(q) : j \in (k + 1)..(Len(q) + 1 - 1) /\ p[j] = q[j]
  BY <1>1, <1>3
<1>9. m <= last /\ AllThere(q, k, m, state, last)
  BY DEF Continues
<1>10. x.kind = "init" => \E j \in (k + 1)..(Len(q) + 1 - 1) : p[j].kind = "done"
  BY <1>8, <1>9 DEF AllThere
<1>11. \/ x.n = m + 1
       \/ \E j \in (k + 1)..(Len(q) + 1 - 1) : p[j].kind # "stream" /\ p[j].n = x.n - 1
  <2>1. x.n - 1 = last
    OBVIOUS
  <2> QED BY <1>8, <1>9, <2>1 DEF AllThere
<1>12. \A j \in (k + 1)..(Len(q) + 1 - 1) : p[j].kind # "stream" => p[j].n < x.n
  <2> SUFFICES ASSUME NEW j \in (k + 1)..(Len(q) + 1 - 1), p[j].kind # "stream"
               PROVE  p[j].n < x.n
    OBVIOUS
  <2>1. InPlace(q, k, m, last, j) /\ p[j] = q[j]
    BY <1>7 DEF Continues
  <2> QED BY <2>1 DEF InPlace
<1>13. InPlace(p, k, m, last + 1, Len(q) + 1)
  <2>1. x.n \in (m + 1)..(last + 1)
    BY <1>9
  <2> QED BY <1>2, <1>10, <1>11, <1>12, <2>1 DEF InPlace
<1>14. AllThere(p, k, m, next, last + 1)
  <2>1. \/ next = "closed" \/ next = "debugging"
        \/ \E i \in (k + 1)..Len(p) : p[i].kind = "done"
    BY <1>2, <1>3, <1>9 DEF AllThere
  <2>2. \E i \in (k + 1)..Len(p) : p[i].kind # "stream" /\ p[i].n = last + 1
    BY <1>2, <1>3
  <2> QED BY <2>1, <2>2 DEF AllThere
<1>15. \A i \in (k + 1)..Len(p) : InPlace(p, k, m, last + 1, i)
  BY <1>4, <1>6, <1>13
<1>16. m <= last + 1
  BY <1>9
<1>17. Continues(p, k, m, next, last + 1)
  BY <1>14, <1>15, <1>16, Zenon DEF Continues
<1> QED
  BY <1>17 DEF p
-----------------------------------------------------------------------------
(* Packets come off the front and are added at the end.                    *)

\* What is left of a sequence without its first n packets.
LEMMA Dropped ==
  ASSUME NEW w \in Seq(Packet), NEW n \in 0..Len(w)
  PROVE  /\ SubSeq(w, n + 1, Len(w)) \in Seq(Packet)
         /\ Len(SubSeq(w, n + 1, Len(w))) = Len(w) - n
         /\ \A i \in 1..(Len(w) - n) : SubSeq(w, n + 1, Len(w))[i] = w[i + n]
<1>1. Len(w) \in Nat
  BY LenProperties
<1>2. \A i \in (n + 1)..Len(w) : w[i] \in Packet
  BY <1>1, ElementOfSeq
<1> DEFINE rest == SubSeq(w, n + 1, Len(w))
<1>3. /\ rest \in Seq(Packet)
      /\ Len(rest) = IF n + 1 <= Len(w) THEN Len(w) - (n + 1) + 1 ELSE 0
      /\ \A i \in 1..(Len(w) - (n + 1) + 1) : rest[i] = w[(n + 1) + i - 1]
  BY <1>1, <1>2, SubSeqProperties
<1> HIDE DEF rest
<1>4. Len(rest) = Len(w) - n
  BY <1>1, <1>3
<1>5. ASSUME NEW i \in 1..(Len(w) - n)
      PROVE  rest[i] = w[i + n]
  <2>1. i \in 1..(Len(w) - (n + 1) + 1) /\ (n + 1) + i - 1 = i + n
    BY <1>1
  <2> QED BY <1>3, <2>1
<1> QED
  BY <1>3, <1>4, <1>5 DEF rest

\* The first n packets of a sequence.
LEMMA Kept ==
  ASSUME NEW w \in Seq(Packet), NEW n \in 0..Len(w)
  PROVE  /\ SubSeq(w, 1, n) \in Seq(Packet) /\ Len(SubSeq(w, 1, n)) = n
         /\ \A i \in 1..n : SubSeq(w, 1, n)[i] = w[i]
<1>1. Len(w) \in Nat
  BY LenProperties
<1>2. \A i \in 1..n : w[i] \in Packet
  BY <1>1, ElementOfSeq
<1> DEFINE cut == SubSeq(w, 1, n)
<1>3. /\ cut \in Seq(Packet) /\ Len(cut) = IF 1 <= n THEN n - 1 + 1 ELSE 0
      /\ \A i \in 1..(n - 1 + 1) : cut[i] = w[1 + i - 1]
  BY <1>1, <1>2, SubSeqProperties
<1> HIDE DEF cut
<1>4. Len(cut) = n /\ \A i \in 1..n : cut[i] = w[i]
  BY <1>1, <1>3
<1> QED
  BY <1>3, <1>4 DEF cut

\* What a packet of a sequence is.
LEMMA OnePacket ==
  ASSUME NEW w \in Seq(Packet), NEW i \in 1..Len(w)
  PROVE  w[i] \in Packet /\ w[i].n \in Nat /\ w[i].kind \in Kinds
<1>1. w[i] \in Packet
  BY ElementOfSeq
<1> QED
  BY <1>1 DEF Packet

\* What is left of packets when the first one has been read.
LEMMA FirstTaken ==
  ASSUME NEW d \in Seq(Packet), NEW r \in Seq(Packet), d # <<>>
  PROVE  /\ Tail(d) \in Seq(Packet) /\ Tail(d) \o r \in Seq(Packet)
         /\ Len(d \o r) \in Nat \ {0} /\ Head(d) = (d \o r)[1]
         /\ Len(Tail(d) \o r) = Len(d \o r) - 1
         /\ \A i \in 1..Len(Tail(d) \o r) : (Tail(d) \o r)[i] = (d \o r)[i + 1]
<1>1. Len(d) \in Nat \ {0} /\ Len(r) \in Nat
  <2>1. \A seq \in Seq(Packet) : seq # <<>> => Len(seq) \in Nat \ {0}
    BY EmptySeq
  <2> QED BY <2>1, LenProperties
<1> DEFINE tail == Tail(d)
<1>2. /\ tail \in Seq(Packet) /\ Len(tail) = Len(d) - 1
      /\ \A i \in 1..(Len(d) - 1) : tail[i] = d[i + 1]
  BY HeadTailProperties
<1>3. Head(d) = d[1]
  OBVIOUS
<1> HIDE DEF tail
<1>4. /\ Len(d \o r) = Len(d) + Len(r)
      /\ \A i \in 1..(Len(d) + Len(r)) : (d \o r)[i] = IF i <= Len(d) THEN d[i] ELSE r[i - Len(d)]
  BY ConcatProperties
<1>5. /\ Len(tail \o r) = Len(tail) + Len(r) /\ tail \o r \in Seq(Packet)
      /\ \A i \in 1..(Len(tail) + Len(r)) :
           (tail \o r)[i] = IF i <= Len(tail) THEN tail[i] ELSE r[i - Len(tail)]
  BY <1>2, ConcatProperties
<1>6. Len(tail) + Len(r) = Len(d \o r) - 1
  BY <1>1, <1>2, <1>4
<1>7. ASSUME NEW i \in 1..(Len(tail) + Len(r))
      PROVE  (tail \o r)[i] = (d \o r)[i + 1]
  <2>1. i + 1 \in 1..(Len(d) + Len(r))
    BY <1>1, <1>2
  <2>2. CASE i <= Len(tail)
    <3>1. i \in 1..(Len(d) - 1) /\ i + 1 <= Len(d)
      BY <1>1, <1>2, <2>2
    <3> QED BY <1>2, <1>4, <1>5, <2>1, <2>2, <3>1
  <2>3. CASE ~ (i <= Len(tail))
    <3>1. ~ (i + 1 <= Len(d)) /\ i - Len(tail) = i + 1 - Len(d)
      BY <1>1, <1>2, <2>3
    <3> QED BY <1>4, <1>5, <2>1, <2>3, <3>1
  <2> QED BY <2>2, <2>3
<1>8. 1 \in 1..(Len(d) + Len(r)) /\ 1 <= Len(d)
  BY <1>1
<1>9. (d \o r)[1] = d[1] /\ Len(d \o r) \in Nat \ {0}
  BY <1>1, <1>4, <1>8
<1> QED
  BY <1>2, <1>3, <1>5, <1>6, <1>7, <1>9 DEF tail

\* It does not matter where a sequence of packets is divided.
LEMMA Associative ==
  ASSUME NEW s \in Seq(Packet), NEW t \in Seq(Packet), NEW u \in Seq(Packet)
  PROVE  (s \o t) \o u = s \o (t \o u)
BY ConcatAssociative

\* Fetching packets from the wire does not change what there is to be read.
LEMMA FetchedRest ==
  ASSUME NEW b \in Seq(Packet), NEW w \in Seq(Packet), NEW n \in 0..Len(w), b # <<>> \/ n > 0
  PROVE  /\ b \o SubSeq(w, 1, n) \in Seq(Packet) /\ b \o SubSeq(w, 1, n) # <<>>
         /\ SubSeq(w, n + 1, Len(w)) \in Seq(Packet)
         /\ (b \o SubSeq(w, 1, n)) \o SubSeq(w, n + 1, Len(w)) = b \o w
<1>1. Len(w) \in Nat
  BY LenProperties
<1>2. /\ SubSeq(w, 1, n) \in Seq(Packet) /\ Len(SubSeq(w, 1, n)) = n
      /\ SubSeq(w, n + 1, Len(w)) \in Seq(Packet)
  BY Kept, Dropped
<1>3. SubSeq(w, 1, n) \o SubSeq(w, n + 1, Len(w)) = w
  <2>1. 1 \in 1..(Len(w) + 1) /\ n \in (1 - 1)..Len(w) /\ Len(w) \in n..Len(w)
    BY <1>1
  <2>2. SubSeq(w, 1, n) \o SubSeq(w, n + 1, Len(w)) = SubSeq(w, 1, Len(w))
    BY <2>1, ConcatAdjacentSubSeq
  <2> QED BY <2>2, SubSeqFull
<1> DEFINE first == SubSeq(w, 1, n)
           rest == SubSeq(w, n + 1, Len(w))
<1>4. first \in Seq(Packet) /\ rest \in Seq(Packet) /\ first \o rest = w /\ Len(first) = n
  BY <1>2, <1>3
<1> HIDE DEF first, rest
<1>5. (b \o first) \o rest = b \o w
  BY <1>4, Associative
<1>6. b \o first \in Seq(Packet)
  BY <1>4, ConcatProperties
<1>7. b \o first # <<>>
  <2>1. n > 0 => first # <<>>
    <3>1. Len(<<>>) = 0
      BY EmptySeq
    <3>2. n > 0 => Len(first) # 0
      BY <1>4
    <3> QED BY <3>1, <3>2
  <2>2. \A s, t \in Seq(Packet) : s \o t = <<>> => s = <<>> /\ t = <<>>
    BY ConcatEqualIffEmpty
  <2> QED BY <1>4, <2>1, <2>2
<1> QED
  BY <1>4, <1>5, <1>6, <1>7 DEF first, rest

\* A packet added to the wire is added to what there is to be read.
LEMMA AddedBehind ==
  ASSUME NEW b \in Seq(Packet), NEW w \in Seq(Packet), NEW x \in Packet
  PROVE  b \o Append(w, x) = Append(b \o w, x) /\ b \o w \in Seq(Packet)
<1>1. b \o w \in Seq(Packet) /\ <<x>> \in Seq(Packet)
  BY ConcatProperties
<1>2. Append(w, x) = w \o <<x>> /\ Append(b \o w, x) = (b \o w) \o <<x>>
  BY <1>1, AppendIsConcat
<1> DEFINE one == <<x>>
<1>3. one \in Seq(Packet)
  BY <1>1
<1> HIDE DEF one
<1>4. (b \o w) \o one = b \o (w \o one)
  BY <1>3, Associative
<1> QED
  BY <1>1, <1>2, <1>4 DEF one

\* A tail of the wire that is lost is lost from what there is to be read.
LEMMA CutBehind ==
  ASSUME NEW b \in Seq(Packet), NEW w \in Seq(Packet), NEW p \in Seq(Packet),
         Len(p) <= Len(w), \A i \in 1..Len(p) : p[i] = w[i]
  PROVE  /\ b \o w \in Seq(Packet) /\ b \o p \in Seq(Packet)
         /\ Len(b \o p) <= Len(b \o w)
         /\ \A i \in 1..Len(b \o p) : (b \o p)[i] = (b \o w)[i]
<1>1. Len(b) \in Nat /\ Len(w) \in Nat /\ Len(p) \in Nat
  BY LenProperties
<1>2. /\ b \o w \in Seq(Packet) /\ Len(b \o w) = Len(b) + Len(w)
      /\ \A i \in 1..(Len(b) + Len(w)) : (b \o w)[i] = IF i <= Len(b) THEN b[i] ELSE w[i - Len(b)]
  BY ConcatProperties
<1>3. /\ b \o p \in Seq(Packet) /\ Len(b \o p) = Len(b) + Len(p)
      /\ \A i \in 1..(Len(b) + Len(p)) : (b \o p)[i] = IF i <= Len(b) THEN b[i] ELSE p[i - Len(b)]
  BY ConcatProperties
<1>4. ASSUME NEW i \in 1..(Len(b) + Len(p))
      PROVE  (b \o p)[i] = (b \o w)[i]
  <2>1. i \in 1..(Len(b) + Len(w))
    BY <1>1
  <2>2. CASE i <= Len(b)
    BY <1>2, <1>3, <2>1, <2>2
  <2>3. CASE ~ (i <= Len(b))
    <3>1. i - Len(b) \in 1..Len(p)
      BY <1>1, <2>3
    <3> QED BY <1>2, <1>3, <2>1, <2>3, <3>1
  <2> QED BY <2>2, <2>3
<1>5. Len(b \o p) <= Len(b \o w)
  BY <1>1, <1>2, <1>3
<1> QED
  BY <1>2, <1>3, <1>4, <1>5

-----------------------------------------------------------------------------
(* The wire.                                                               *)

\* Behind every init on the wire its session continues.
InOrder(w, state, last) ==
  \A i \in 1..Len(w) : w[i].kind = "init" => Continues(w, i, w[i].n, state, last)

\* Taking packets off the front of the wire keeps it in order.
LEMMA OrderDropped ==
  ASSUME NEW w \in Seq(Packet), NEW n \in 0..Len(w), NEW state, NEW last \in Nat,
         InOrder(w, state, last)
  PROVE  InOrder(SubSeq(w, n + 1, Len(w)), state, last)
<1> DEFINE p == SubSeq(w, n + 1, Len(w))
<1>1. p \in Seq(Packet) /\ Len(p) = Len(w) - n /\ \A i \in 1..Len(p) : p[i] = w[i + n]
  BY Dropped
<1>2. Len(w) \in Nat
  BY LenProperties
<1> HIDE DEF p
<1>3. ASSUME NEW i \in 1..Len(p), p[i].kind = "init"
      PROVE  Continues(p, i, p[i].n, state, last)
  <2>1. i + n \in 1..Len(w) /\ i + n \in n..Len(w) /\ p[i] = w[i + n] /\ i + n - n = i
    BY <1>1, <1>2
  <2>2. Continues(w, i + n, w[i + n].n, state, last)
    BY <1>3, <2>1 DEF InOrder
  <2>3. w[i + n].n \in Nat
    BY <2>1, OnePacket
  <2> DEFINE k == i + n
             m == w[i + n].n
  <2>4. n \in Nat /\ k \in n..Len(w) /\ m \in Nat /\ k - n = i /\ Continues(w, k, m, state, last)
    BY <1>2, <2>1, <2>2, <2>3
  <2> HIDE DEF k, m
  <2>5. Continues(p, k - n, m, state, last)
    BY <1>1, <2>4, ContinuesShifted
  <2>6. Continues(p, i, m, state, last)
    BY <2>4, <2>5
  <2>7. p[i].n = m
    BY <2>1 DEF m
  <2> QED BY <2>6, <2>7
<1> QED
  BY <1>3 DEF InOrder, p

\* A wire that loses its tail as the engine dies stays in order.
LEMMA OrderCut ==
  ASSUME NEW w \in Seq(Packet), NEW n \in 0..Len(w), NEW state, NEW last \in Nat,
         InOrder(w, state, last)
  PROVE  InOrder(SubSeq(w, 1, n), "closed", last)
<1> DEFINE p == SubSeq(w, 1, n)
<1>1. p \in Seq(Packet) /\ Len(p) = n /\ \A i \in 1..Len(p) : p[i] = w[i]
  BY Kept
<1>2. Len(w) \in Nat
  BY LenProperties
<1> HIDE DEF p
<1>3. ASSUME NEW i \in 1..Len(p), p[i].kind = "init"
      PROVE  Continues(p, i, p[i].n, "closed", last)
  <2>1. i \in 1..Len(w) /\ p[i] = w[i] /\ i \in Nat /\ Len(p) <= Len(w)
    BY <1>1, <1>2
  <2>2. Continues(w, i, w[i].n, state, last)
    BY <1>3, <2>1 DEF InOrder
  <2>3. w[i].n \in Nat
    BY <2>1, OnePacket
  <2>4. Continues(p, i, w[i].n, "closed", last)
    BY <1>1, <2>1, <2>2, <2>3, ContinuesCut
  <2> QED BY <2>1, <2>4
<1> QED
  BY <1>3 DEF InOrder, p

\* Output keeps the wire in order.
LEMMA OrderWithOutput ==
  ASSUME NEW w \in Seq(Packet), NEW x \in Packet, x.kind = "stream", NEW last \in Nat,
         InOrder(w, "debugging", last)
  PROVE  InOrder(Append(w, x), "debugging", last)
<1> DEFINE p == Append(w, x)
<1>1. /\ Len(p) = Len(w) + 1 /\ p[Len(w) + 1] = x
      /\ \A i \in 1..Len(w) : p[i] = w[i]
  BY AppendProperties
<1>2. Len(w) \in Nat
  BY LenProperties
<1> HIDE DEF p
<1>3. ASSUME NEW i \in 1..Len(p), p[i].kind = "init"
      PROVE  Continues(p, i, p[i].n, "debugging", last)
  <2>1. i # Len(w) + 1
    BY <1>1, <1>3
  <2>2. i \in 1..Len(w) /\ i \in 0..Len(w) /\ p[i] = w[i]
    BY <1>1, <1>2, <2>1
  <2>3. Continues(w, i, w[i].n, "debugging", last)
    BY <1>3, <2>2 DEF InOrder
  <2>4. w[i].n \in Nat
    BY <2>2, OnePacket
  <2>5. Continues(Append(w, x), i, w[i].n, "debugging", last)
    BY <2>2, <2>3, <2>4, ContinuesWithOutput
  <2> QED BY <2>2, <2>5 DEF p
<1> QED
  BY <1>3 DEF InOrder, p

\* A numbered packet of the engine keeps the wire in order.
LEMMA OrderWithMore ==
  ASSUME NEW w \in Seq(Packet), NEW x \in Packet, NEW state, NEW next, NEW last \in Nat,
         state # "closed", x.n = last + 1,
         x.kind \in {"init", "response", "done"},
         x.kind = "init" => state # "debugging" /\ next = "debugging",
         next \in {"debugging", "closed"} \/ x.kind = "done" \/ state # "debugging",
         InOrder(w, state, last)
  PROVE  InOrder(Append(w, x), next, last + 1)
<1> DEFINE p == Append(w, x)
<1>1. /\ Len(p) = Len(w) + 1 /\ p[Len(w) + 1] = x
      /\ \A i \in 1..Len(w) : p[i] = w[i]
  BY AppendProperties
<1>2. Len(w) \in Nat
  BY LenProperties
<1> HIDE DEF p
<1>3. ASSUME NEW i \in 1..Len(w), p[i].kind = "init"
      PROVE  Continues(p, i, p[i].n, next, last + 1)
  <2>2. i \in 0..Len(w) /\ p[i] = w[i]
    BY <1>1, <1>2
  <2>3. Continues(w, i, w[i].n, state, last)
    BY <1>3, <2>2 DEF InOrder
  <2>4. w[i].n \in Nat
    BY OnePacket
  <2>5. Continues(Append(w, x), i, w[i].n, next, last + 1)
    BY <2>2, <2>3, <2>4, ContinuesWithMore
  <2> QED BY <2>2, <2>5 DEF p
<1>4. ASSUME p[Len(w) + 1].kind = "init"
      PROVE  Continues(p, Len(w) + 1, p[Len(w) + 1].n, next, last + 1)
  <2>1. next = "debugging" /\ p[Len(w) + 1].n = last + 1
    BY <1>1, <1>4
  <2>2. \A i \in (Len(w) + 1 + 1)..Len(p) : FALSE
    BY <1>1, <1>2
  <2> QED BY <2>1, <2>2 DEF Continues, AllThere
<1>5. \A i \in 1..Len(p) : i \in 1..Len(w) \/ i = Len(w) + 1
  BY <1>1, <1>2
<1>6. InOrder(p, next, last + 1)
  BY <1>3, <1>4, <1>5 DEF InOrder
<1> QED
  BY <1>6 DEF p

-----------------------------------------------------------------------------
(* What holds of the packets of an engine, by where its handler is.        *)

\* Nothing comes from an engine that the proxy has not met.
Unmet(e) ==
  /\ pc[e] = "idle" => engine[e] = "off" /\ wire[e] = <<>>
  /\ pc[e] = "cloudinit" => Cloud

WireInOrder(e) == InOrder(wire[e], engine[e], sent[e])

\* The reader of Handle fetches an init in front of others only.
AheadIsNoInit(e) ==
  pc[e] # "done" /\ outer[e] # <<>> => Head(outer[e]).kind # "init"

\* An Xdebug process debugs once: its init is still to be read ...
Fresh(e) ==
  /\ pc[e] \in {"idle", "read"}
  /\ inbox[e] = <<>> /\ outer[e] = <<>>
  /\ \A i \in 1..Len(wire[e]) : wire[e][i].kind = IF i = 1 THEN "init" ELSE "stream"
  /\ engine[e] \in {"off", "ready"} => wire[e] = <<>>
  /\ engine[e] = "debugging" => wire[e] # <<>>

\* ... or has been, and there is no other.
Begun(e) ==
  /\ engine[e] \in {"debugging", "closed"}
  /\ NothingReadAhead(e)
  /\ \A i \in 1..Len(wire[e]) : wire[e][i].kind # "init"

DebugsOnce(e) == ~ Cloud /\ pc[e] # "done" => Fresh(e) \/ Begun(e)

\* The session goes on with what the forwarder has still to read.
SessionInOrder(e) ==
  pc[e] \in {"dial", "forward"} /\ (Cloud => NothingReadAhead(e)) =>
    Continues(inner[e] \o wire[e], 0, passed[e], engine[e], sent[e])

SessionInvOf(e) ==
  /\ Unmet(e)
  /\ WireInOrder(e)
  /\ AheadIsNoInit(e)
  /\ DebugsOnce(e)
  /\ SessionInOrder(e)

SessionInv == CopierInv /\ \A e \in Engines : SessionInvOf(e)

\* The variables that SessionInvOf speaks of.
Same(e) ==
  /\ pc'[e] = pc[e] /\ outer'[e] = outer[e] /\ inner'[e] = inner[e]
  /\ passed'[e] = passed[e] /\ engine'[e] = engine[e] /\ inbox'[e] = inbox[e]
  /\ wire'[e] = wire[e] /\ sent'[e] = sent[e]

\* What does not change stays right.
LEMMA SameInv ==
  ASSUME NEW e \in Engines, SessionInvOf(e), Same(e)
  PROVE  SessionInvOf(e)'
BY DEF SessionInvOf, Same, Unmet, WireInOrder, AheadIsNoInit, DebugsOnce, Fresh, Begun,
       SessionInOrder, NothingReadAhead

\* When the handler has ended only the wire matters.
LEMMA HandlerEnded ==
  ASSUME NEW e \in Engines, pc'[e] = "done", WireInOrder(e)'
  PROVE  SessionInvOf(e)'
BY DEF SessionInvOf, Unmet, AheadIsNoInit, DebugsOnce, SessionInOrder

\* Between sessions and in them the handler moves about without reading.
LEMMA HandlerMoves ==
  ASSUME NEW e \in Engines, SessionInvOf(e),
         pc[e] \in {"dial", "forward", "closing", "remove", "detach", "await"},
         pc'[e] \in {"read", "forward", "closing", "remove", "detach", "await"},
         pc'[e] = "forward" =>
           pc[e] \in {"dial", "forward"} /\ inner'[e] = inner[e] /\ passed'[e] = passed[e],
         outer'[e] = outer[e], engine'[e] = engine[e],
         wire'[e] = wire[e], sent'[e] = sent[e]
  PROVE  SessionInvOf(e)'
<1>1. Unmet(e)' /\ WireInOrder(e)' /\ AheadIsNoInit(e)'
  BY DEF SessionInvOf, Unmet, WireInOrder, AheadIsNoInit
<1>2. DebugsOnce(e)'
  BY DEF SessionInvOf, DebugsOnce, Fresh, Begun, NothingReadAhead
<1>3. SessionInOrder(e)'
  BY DEF SessionInvOf, SessionInOrder, NothingReadAhead
<1> QED
  BY <1>1, <1>2, <1>3 DEF SessionInvOf

\* A packet taken for the reply to cloudinit or detach.
LEMMA ReplyTaken ==
  ASSUME TypeOK, NEW e \in Engines, SessionInvOf(e), pc[e] \in {"cloudinit", "await"},
         pc'[e] \in {"read", "done"}, NEW n \in 0..Len(wire[e]), TakeFromWire(e, n),
         outer'[e] = outer[e], engine'[e] = engine[e], sent'[e] = sent[e]
  PROVE  SessionInvOf(e)'
<1>1. /\ wire[e] \in Seq(Packet) /\ sent[e] \in Nat
      /\ wire'[e] = SubSeq(wire[e], n + 1, Len(wire[e]))
  BY DEF TypeOK, TakeFromWire
<1>2. WireInOrder(e)'
  BY <1>1, OrderDropped DEF SessionInvOf, WireInOrder
<1>3. Unmet(e)' /\ AheadIsNoInit(e)' /\ SessionInOrder(e)'
  BY DEF SessionInvOf, Unmet, AheadIsNoInit, SessionInOrder
<1>4. ASSUME ~ Cloud, pc'[e] # "done"
      PROVE  Begun(e)'
  <2>1. Begun(e)
    BY <1>4 DEF SessionInvOf, DebugsOnce, Fresh, Unmet
  <2>2. \A i \in 1..Len(wire'[e]) : wire'[e][i] = wire[e][i + n] /\ i + n \in 1..Len(wire[e])
    <3>1. Len(wire[e]) \in Nat /\ Len(wire'[e]) = Len(wire[e]) - n
      BY <1>1, Dropped, LenProperties
    <3>2. \A i \in 1..Len(wire'[e]) : i \in 1..(Len(wire[e]) - n) /\ i + n \in 1..Len(wire[e])
      BY <3>1
    <3>3. \A i \in 1..(Len(wire[e]) - n) : wire'[e][i] = wire[e][i + n]
      BY <1>1, Dropped
    <3> QED BY <3>2, <3>3
  <2> QED BY <2>1, <2>2 DEF Begun, NothingReadAhead
<1>5. DebugsOnce(e)'
  BY <1>4 DEF DebugsOnce
<1> QED
  BY <1>2, <1>3, <1>5 DEF SessionInvOf

\* The packets that a read may find.
LEMMA FetchBounds ==
  ASSUME TypeOK, NEW e \in Engines, NEW b \in Seq(Packet), NEW n \in Fetch(b, e)
  PROVE  /\ n \in 0..Len(wire[e]) /\ n \in Nat
         /\ b # <<>> => n = 0
         /\ b = <<>> => n \in 1..Len(wire[e])
         /\ b # <<>> \/ n > 0
<1>1. wire[e] \in Seq(Packet)
  BY DEF TypeOK
<1>2. Len(wire[e]) \in Nat
  BY <1>1, LenProperties
<1> QED
  BY <1>2 DEF Fetch

\* The handler reads an init: the packets fetched along with it are the reader's,
\* and the session goes on behind them.
LEMMA InitRead ==
  ASSUME SessionInv, TypeOK, NEW e \in Engines, ReadInit(e)
  PROVE  SessionInvOf(e)'
<1> DEFINE w == wire[e]
<1>1. /\ w \in Seq(Packet) /\ outer[e] \in Seq(Packet) /\ inner[e] \in Seq(Packet)
      /\ sent[e] \in Nat /\ Len(w) \in Nat
  BY LenProperties DEF TypeOK
<1>2. PICK n \in Fetch(outer[e], e) :
        /\ outer' = [outer EXCEPT ![e] = Tail(Fetched(outer[e], e, n))]
        /\ TakeFromWire(e, n)
        /\ passed' = [passed EXCEPT ![e] = Head(Fetched(outer[e], e, n)).n]
        /\ \/ pc' = [pc EXCEPT ![e] = "done"]
           \/ /\ Head(Fetched(outer[e], e, n)).kind = "init"
              /\ \/ pc' = [pc EXCEPT ![e] = "dial"]
                 \/ pc' = [pc EXCEPT ![e] = "detach"]
  <2> USE DEF Goto
  <2>1. PICK n \in Fetch(outer[e], e) :
        /\ outer' = [outer EXCEPT ![e] = Tail(Fetched(outer[e], e, n))]
        /\ TakeFromWire(e, n)
        /\ passed' = [passed EXCEPT ![e] = Head(Fetched(outer[e], e, n)).n]
        /\ \/ Return(e, "nil") \/ Return(e, "unset")
           \/ /\ Head(Fetched(outer[e], e, n)).kind = "init"
              /\ pc' = [pc EXCEPT ![e] = IF Registered(EngineKey[e]) THEN "dial" ELSE "detach"]
    BY Zenon DEF ReadInit
  <2> QED BY <2>1 DEF Return
<1>3. /\ n \in 0..Len(w) /\ n \in Nat
      /\ outer[e] # <<>> => n = 0
      /\ outer[e] = <<>> => n \in 1..Len(w)
  BY <1>1, FetchBounds
<1>4. /\ outer'[e] = Tail(Fetched(outer[e], e, n))
      /\ passed'[e] = Head(Fetched(outer[e], e, n)).n
      /\ wire'[e] = SubSeq(w, n + 1, Len(w))
      /\ pc[e] = "read" /\ engine'[e] = engine[e] /\ sent'[e] = sent[e]
      /\ inner'[e] = inner[e]
  BY <1>2 DEF ReadInit, TypeOK, TakeFromWire, peerVars
<1>5. SessionInvOf(e) /\ inner[e] = <<>>
  BY <1>4 DEF SessionInv, CopierInv, CopierInvOf, Quiet
<1>6. WireInOrder(e)'
  BY <1>1, <1>3, <1>4, <1>5, OrderDropped DEF SessionInvOf, WireInOrder
<1>7. CASE pc'[e] = "done"
  BY <1>6, <1>7, HandlerEnded
<1>8. CASE pc'[e] # "done"
  <2>1. Head(Fetched(outer[e], e, n)).kind = "init" /\ pc'[e] \in {"dial", "detach"}
    BY <1>2, <1>8 DEF TypeOK
  <2>2. outer[e] = <<>>
    <3>1. SUFFICES ASSUME outer[e] # <<>> PROVE FALSE
      OBVIOUS
    <3>2. Fetched(outer[e], e, n) = outer[e]
      <4>1. SubSeq(w, 1, 0) = <<>>
        BY SubSeqEmpty
      <4> QED BY <1>1, <1>3, <3>1, <4>1, ConcatEmptySeq DEF Fetched
    <3> QED BY <1>4, <1>5, <2>1, <3>1, <3>2 DEF SessionInvOf, AheadIsNoInit
  <2> DEFINE data == SubSeq(w, 1, n)
             rest == SubSeq(w, n + 1, Len(w))
  <2>3. /\ data \in Seq(Packet) /\ Len(data) = n /\ \A i \in 1..n : data[i] = w[i]
        /\ rest \in Seq(Packet) /\ Len(rest) = Len(w) - n
        /\ \A i \in 1..Len(rest) : rest[i] = w[i + n]
    BY <1>1, <1>3, Kept, Dropped
  <2>4. Fetched(outer[e], e, n) = data
    <3>1. \A s \in Seq(Packet) : <<>> \o s = s
      BY ConcatEmptySeq
    <3> QED BY <2>2, <2>3, <3>1 DEF Fetched
  <2>5. wire'[e] = rest
    BY <1>4
  <2> HIDE DEF w, data, rest
  <2>6. n \in 1..Len(w) /\ 1 \in 1..Len(w) /\ 1 \in 1..n
    BY <1>1, <1>3, <2>2
  <2>7. /\ data # <<>> /\ Head(data) = w[1]
        /\ Tail(data) \in Seq(Packet) /\ Len(Tail(data)) = n - 1
        /\ \A i \in 1..(n - 1) : Tail(data)[i] = w[i + 1]
    <3>1. data # <<>>
      <4>1. Len(<<>>) = 0
        BY EmptySeq
      <4> QED BY <2>3, <2>6, <4>1
    <3>2. /\ Tail(data) \in Seq(Packet) /\ Len(Tail(data)) = n - 1
          /\ \A i \in 1..(n - 1) : Tail(data)[i] = data[i + 1]
      BY <2>3, <3>1, HeadTailProperties
    <3>3. \A i \in 1..(n - 1) : i + 1 \in 1..n
      BY <1>3
    <3>4. Head(data) = data[1]
      BY <2>3, <3>1
    <3> QED BY <2>3, <2>6, <3>1, <3>2, <3>3, <3>4
  <2>8. w[1].kind = "init" /\ passed'[e] = w[1].n /\ outer'[e] = Tail(data)
    BY <1>4, <2>1, <2>4, <2>7
  <2>9. Continues(w, 1, w[1].n, engine[e], sent[e])
    BY <1>5, <2>6, <2>8 DEF SessionInvOf, WireInOrder, InOrder, w
  <2>10. AheadIsNoInit(e)'
    <3> SUFFICES ASSUME outer'[e] # <<>> PROVE Head(outer'[e]).kind # "init"
      BY DEF AheadIsNoInit
    <3>1. Len(Tail(data)) # 0
      BY <2>7, <2>8, EmptySeq
    <3>2. 1 \in 1..(n - 1) /\ 2 \in (1 + 1)..Len(w) /\ 1 + 1 = 2
      BY <1>1, <1>3, <2>6, <2>7, <3>1
    <3>3. Head(Tail(data)) = w[2]
      BY <2>7, <2>8, <3>2
    <3>4. InPlace(w, 1, w[1].n, sent[e], 2)
      BY <2>9, <3>2 DEF Continues
    <3>5. \A j \in (1 + 1)..(2 - 1) : FALSE
      OBVIOUS
    <3> QED BY <2>8, <3>3, <3>4, <3>5 DEF InPlace
  <2>11. DebugsOnce(e)'
    <3> SUFFICES ASSUME ~ Cloud PROVE Begun(e)'
      BY DEF DebugsOnce
    <3>1. Fresh(e)
      BY <1>4, <1>5, <2>6, <2>8 DEF SessionInvOf, DebugsOnce, Begun, w
    <3>2. engine'[e] \in {"debugging", "closed"}
      <4>1. wire[e] # <<>>
        <5>1. Len(<<>>) = 0
          BY EmptySeq
        <5> QED BY <2>6, <5>1 DEF w
      <4> QED BY <1>4, <3>1, <4>1 DEF Fresh, TypeOK
    <3>3. \A i \in 2..Len(w) : w[i].kind = "stream"
      BY <1>1, <3>1 DEF Fresh, w
    <3>4. NothingReadAhead(e)'
      <4>1. \A i \in 1..(n - 1) : i + 1 \in 2..Len(w)
        BY <1>1, <1>3, <2>6
      <4>2. \A i \in 1..Len(outer'[e]) : outer'[e][i].kind = "stream"
        <5> DEFINE ahead == Tail(data)
        <5>1. Len(ahead) = n - 1 /\ \A i \in 1..(n - 1) : ahead[i] = w[i + 1]
          BY <2>7
        <5> HIDE DEF ahead
        <5>2. \A i \in 1..Len(ahead) : ahead[i].kind = "stream"
          BY <3>3, <4>1, <5>1
        <5> QED BY <2>8, <5>2 DEF ahead
      <4> QED BY <4>2 DEF NothingReadAhead
    <3>5. \A i \in 1..Len(wire'[e]) : wire'[e][i].kind # "init"
      <4>1. \A i \in 1..Len(rest) : i + n \in 2..Len(w)
        BY <1>1, <1>3, <2>3, <2>6
      <4> QED BY <2>3, <2>5, <3>3, <4>1
    <3> QED BY <3>2, <3>4, <3>5 DEF Begun
  <2>12. SessionInOrder(e)'
    <3> SUFFICES ASSUME Cloud => NothingReadAhead(e)'
                 PROVE  Continues(inner'[e] \o wire'[e], 0, passed'[e], engine'[e], sent'[e])
      BY DEF SessionInOrder
    <3>1. NothingReadAhead(e)'
      BY <1>8, <2>11, <2>1, Zenon DEF DebugsOnce, Begun, Fresh
    <3>2. \A i \in 2..n : w[i].kind = "stream"
      <4> SUFFICES ASSUME NEW i \in 2..n PROVE w[i].kind = "stream"
        OBVIOUS
      <4>1. i - 1 \in 1..(n - 1) /\ i - 1 + 1 = i
        BY <1>3
      <4>2. outer'[e][i - 1].kind = "stream"
        BY <2>7, <2>8, <3>1, <4>1 DEF NothingReadAhead
      <4> QED BY <2>7, <2>8, <4>1, <4>2
    <3>3. w[1].n \in Nat
      BY <1>1, <2>6, OnePacket
    <3>4. Continues(w, n, w[1].n, engine[e], sent[e])
      <4>1. \A i \in (1 + 1)..n : w[i].kind = "stream"
        BY <3>2
      <4> QED BY <1>1, <2>6, <2>9, <3>3, <4>1, ContinuesSkipped
    <3>5. Continues(rest, n - n, w[1].n, engine[e], sent[e])
      <4>1. n \in n..Len(w)
        BY <1>1, <1>3
      <4> QED BY <1>1, <1>3, <2>3, <3>3, <3>4, <4>1, ContinuesShifted
    <3>6. n - n = 0
      BY <1>3
    <3>7. inner'[e] \o wire'[e] = rest
      BY <1>4, <1>5, <2>3, <2>5, ConcatEmptySeq
    <3> QED BY <1>4, <2>8, <3>5, <3>6, <3>7
  <2>13. Unmet(e)'
    BY <2>1 DEF Unmet
  <2> QED
    BY <1>6, <2>10, <2>11, <2>12, <2>13 DEF SessionInvOf
<1> QED
  BY <1>7, <1>8

\* The first packet of what the forwarder has to read is passed on, and the session
\* goes on behind it.
LEMMA PacketForwarded ==
  ASSUME SessionInv, TypeOK, NEW e \in Engines, ForwardPacket(e)
  PROVE  /\ SessionInvOf(e)'
         /\ (Cloud => NothingReadAhead(e)) /\ passed'[e] # passed[e] =>
              /\ passed'[e] = passed[e] + 1
              /\ Head(inner[e] \o wire[e]).kind = "response"
<1> DEFINE b == inner[e]
           w == wire[e]
<1>1. /\ b \in Seq(Packet) /\ w \in Seq(Packet) /\ sent[e] \in Nat /\ passed[e] \in Nat
      /\ Len(w) \in Nat
  BY LenProperties DEF TypeOK
<1>2. PICK n \in Fetch(inner[e], e) :
        /\ inner' = [inner EXCEPT ![e] = Tail(Fetched(inner[e], e, n))]
        /\ TakeFromWire(e, n)
        /\ \/ /\ Head(Fetched(inner[e], e, n)).kind = "done"
              /\ pc' = [pc EXCEPT ![e] = "closing"]
              /\ UNCHANGED passed
           \/ /\ Head(Fetched(inner[e], e, n)).kind # "done"
              /\ passed' = [passed EXCEPT ![e] =
                              IF Head(Fetched(inner[e], e, n)).kind = "stream"
                              THEN passed[e] ELSE Head(Fetched(inner[e], e, n)).n]
              /\ UNCHANGED pc
  BY Zenon DEF ForwardPacket, Unwind, Goto
<1>3. n \in 0..Len(w) /\ n \in Nat /\ (b # <<>> \/ n > 0)
  BY <1>1, FetchBounds
<1>4. /\ inner'[e] = Tail(Fetched(inner[e], e, n))
      /\ wire'[e] = SubSeq(w, n + 1, Len(w))
      /\ pc[e] = "forward" /\ engine'[e] = engine[e] /\ sent'[e] = sent[e]
      /\ outer'[e] = outer[e] /\ inbox'[e] = inbox[e]
  BY <1>2 DEF ForwardPacket, TypeOK, TakeFromWire, peerVars
<1>5. SessionInvOf(e)
  BY DEF SessionInv
<1>6. Unmet(e)' /\ WireInOrder(e)' /\ AheadIsNoInit(e)'
  <2>1. pc'[e] \in {"forward", "closing"}
    BY <1>2, <1>4 DEF TypeOK
  <2>2. WireInOrder(e)'
    BY <1>1, <1>3, <1>4, <1>5, OrderDropped DEF SessionInvOf, WireInOrder
  <2> QED BY <1>4, <1>5, <2>1, <2>2 DEF SessionInvOf, Unmet, AheadIsNoInit
<1>7. DebugsOnce(e)'
  <2> SUFFICES ASSUME ~ Cloud PROVE Begun(e)'
    BY DEF DebugsOnce
  <2>1. Begun(e)
    BY <1>4, <1>5 DEF SessionInvOf, DebugsOnce, Fresh
  <2>2. \A i \in 1..Len(wire'[e]) : wire'[e][i] = wire[e][i + n] /\ i + n \in 1..Len(wire[e])
    <3>1. /\ Len(wire'[e]) = Len(w) - n
          /\ \A i \in 1..(Len(w) - n) : wire'[e][i] = w[i + n]
      BY <1>1, <1>3, <1>4, Dropped
    <3>2. \A i \in 1..Len(wire'[e]) : i \in 1..(Len(w) - n) /\ i + n \in 1..Len(w)
      BY <1>1, <1>3, <3>1
    <3> QED BY <3>1, <3>2
  <2> QED BY <1>4, <2>1, <2>2 DEF Begun, NothingReadAhead
<1> DEFINE data == b \o SubSeq(w, 1, n)
           rest == SubSeq(w, n + 1, Len(w))
           all == b \o w
           left == Tail(data) \o rest
<1>8. /\ data \in Seq(Packet) /\ data # <<>> /\ rest \in Seq(Packet)
      /\ data \o rest = all
  BY <1>1, <1>3, FetchedRest
<1>9. /\ left \in Seq(Packet) /\ all \in Seq(Packet) /\ all # <<>>
      /\ Len(all) \in Nat \ {0} /\ Head(data) = all[1]
      /\ Len(left) = Len(all) - 1
      /\ \A i \in 1..Len(left) : left[i] = all[i + 1]
  <2> HIDE DEF data, rest, all
  <2>1. /\ Tail(data) \o rest \in Seq(Packet)
        /\ Len(all) \in Nat \ {0} /\ Head(data) = all[1]
        /\ Len(left) = Len(all) - 1
        /\ \A i \in 1..Len(left) : left[i] = all[i + 1]
    BY <1>8, FirstTaken
  <2>2. all \in Seq(Packet)
    BY <1>1, ConcatProperties DEF all
  <2>3. all # <<>>
    BY <2>1, <2>2, EmptySeq
  <2> QED BY <2>1, <2>2, <2>3
<1>10. Fetched(inner[e], e, n) = data /\ inner'[e] \o wire'[e] = left
  BY <1>4 DEF Fetched
<1>11. inner[e] \o wire[e] = all
  OBVIOUS
<1> HIDE DEF b, w, data, rest, all, left
<1>12. Head(all) = all[1] /\ 1 \in 1..Len(all)
  BY <1>9
<1>13. all[1] \in Packet /\ all[1].n \in Nat
  BY <1>9, <1>12, OnePacket
<1>14. \/ pc'[e] = "closing" /\ passed'[e] = passed[e] /\ all[1].kind = "done"
       \/ /\ pc'[e] = "forward" /\ all[1].kind # "done"
          /\ passed'[e] = IF all[1].kind = "stream" THEN passed[e] ELSE all[1].n
  BY <1>2, <1>4, <1>9, <1>10 DEF TypeOK
<1>15. NothingReadAhead(e)' <=> NothingReadAhead(e)
  BY <1>4 DEF NothingReadAhead
<1>16. ASSUME Cloud => NothingReadAhead(e)
       PROVE  /\ pc'[e] = "forward" => Continues(left, 0, passed'[e], engine[e], sent[e])
              /\ passed'[e] # passed[e] =>
                   passed'[e] = passed[e] + 1 /\ all[1].kind = "response"
  <2>1. Continues(all, 0, passed[e], engine[e], sent[e])
    BY <1>4, <1>5, <1>11, <1>16 DEF SessionInvOf, SessionInOrder
  <2>2. \A m \in Nat : Continues(all, 1, m, engine[e], sent[e]) =>
                         Continues(left, 0, m, engine[e], sent[e])
    <3> SUFFICES ASSUME NEW m \in Nat, Continues(all, 1, m, engine[e], sent[e])
                 PROVE  Continues(left, 0, m, engine[e], sent[e])
      OBVIOUS
    <3>1. 1 \in 1..Len(all) /\ 1 - 1 = 0
      BY <1>9
    <3>2. Continues(left, 1 - 1, m, engine[e], sent[e])
      BY <1>1, <1>9, <3>1, ContinuesShifted
    <3> QED BY <3>1, <3>2
  <2>3. CASE all[1].kind = "done"
    BY <1>14, <2>3
  <2>4. CASE all[1].kind = "stream"
    <3>1. \A i \in (0 + 1)..1 : all[i].kind = "stream"
      BY <2>4
    <3>2. 1 \in 0..Len(all)
      BY <1>9
    <3>3. Continues(all, 1, passed[e], engine[e], sent[e])
      BY <1>1, <1>9, <2>1, <3>1, <3>2, ContinuesSkipped
    <3> QED BY <1>1, <1>14, <2>2, <2>4, <3>3
  <2>5. CASE all[1].kind \notin {"stream", "done"}
    <3>1. 0 < Len(all) /\ 0 + 1 = 1
      BY <1>9
    <3>2. /\ all[0 + 1].kind = "response" /\ all[0 + 1].n = passed[e] + 1
          /\ Continues(all, 0 + 1, passed[e] + 1, engine[e], sent[e])
      BY <1>1, <1>9, <2>1, <2>5, <3>1, ContinuesNext
    <3>3. Continues(left, 0, passed[e] + 1, engine[e], sent[e])
      BY <1>1, <2>2, <3>1, <3>2
    <3> QED BY <1>14, <2>5, <3>1, <3>2, <3>3
  <2> QED BY <2>3, <2>4, <2>5
<1>17. SessionInOrder(e)'
  <2> SUFFICES ASSUME pc'[e] \in {"dial", "forward"}, Cloud => NothingReadAhead(e)'
               PROVE  Continues(inner'[e] \o wire'[e], 0, passed'[e], engine'[e], sent'[e])
    BY DEF SessionInOrder
  <2>1. pc'[e] = "forward"
    BY <1>14
  <2> QED BY <1>4, <1>10, <1>15, <1>16, <2>1
<1> QED
  BY <1>6, <1>7, <1>11, <1>12, <1>16, <1>17 DEF SessionInvOf

\* The engine sends a numbered packet.
LEMMA PacketSent ==
  ASSUME SessionInv, TypeOK, NEW e \in Engines, EngineInit(e) \/ Answer(e)
  PROVE  SessionInvOf(e)'
<1>1. /\ inner[e] \in Seq(Packet) /\ wire[e] \in Seq(Packet) /\ sent[e] \in Nat
      /\ passed[e] \in Nat /\ Len(wire[e]) \in Nat
  BY LenProperties DEF TypeOK
<1>2. \E k \in {"init", "response", "done"} :
        /\ wire' = [wire EXCEPT ![e] = Append(wire[e], [kind |-> k, n |-> sent[e] + 1])]
        /\ sent' = [sent EXCEPT ![e] = sent[e] + 1]
        /\ k = "init" => /\ engine[e] = "ready" /\ engine' = [engine EXCEPT ![e] = "debugging"]
                         /\ inbox[e] = <<>> /\ UNCHANGED inbox /\ pc[e] # "cloudinit"
        /\ k = "response" => UNCHANGED engine
        /\ k # "init" => inbox[e] # <<>>
        /\ k = "done" => /\ engine[e] = "debugging"
                         /\ engine' = [engine EXCEPT ![e] =
                                         IF Cloud THEN "ready" ELSE "closed"]
  <2>1. CASE EngineInit(e)
    BY <2>1 DEF EngineInit, Send
  <2>2. CASE Answer(e)
    <3>1. CASE engine[e] = "debugging" /\ Head(inbox[e]) # "run"
      BY <2>2, <3>1 DEF Answer, Send
    <3>2. CASE ~ (engine[e] = "debugging" /\ Head(inbox[e]) # "run")
      <4>1. engine' = [engine EXCEPT ![e] = engine[e]]
        BY <2>2, <3>2 DEF Answer
      <4>2. engine' = engine
        BY <4>1 DEF TypeOK
      <4> QED BY <2>2, <3>2, <4>2 DEF Answer, Send
    <3> QED BY <3>1, <3>2
  <2> QED BY <2>1, <2>2
<1>3. PICK k \in {"init", "response", "done"} :
        /\ wire' = [wire EXCEPT ![e] = Append(wire[e], [kind |-> k, n |-> sent[e] + 1])]
        /\ sent' = [sent EXCEPT ![e] = sent[e] + 1]
        /\ k = "init" => /\ engine[e] = "ready" /\ engine' = [engine EXCEPT ![e] = "debugging"]
                         /\ inbox[e] = <<>> /\ UNCHANGED inbox /\ pc[e] # "cloudinit"
        /\ k = "response" => UNCHANGED engine
        /\ k # "init" => inbox[e] # <<>>
        /\ k = "done" => /\ engine[e] = "debugging"
                         /\ engine' = [engine EXCEPT ![e] =
                                         IF Cloud THEN "ready" ELSE "closed"]
  BY <1>2
<1> DEFINE x == [kind |-> k, n |-> sent[e] + 1]
<1>4. x \in Packet /\ x.kind = k /\ x.n = sent[e] + 1
  BY <1>1 DEF Packet, Kinds
<1> HIDE DEF x
<1>5. /\ pc'[e] = pc[e] /\ outer'[e] = outer[e] /\ inner'[e] = inner[e]
      /\ passed'[e] = passed[e] /\ engine[e] \in {"ready", "debugging"}
  BY DEF EngineInit, Answer, EngineVars, readers
<1>6. wire'[e] = Append(wire[e], x) /\ sent'[e] = sent[e] + 1
  BY <1>3 DEF TypeOK, x
<1>7. /\ k = "init" => /\ engine[e] = "ready" /\ engine'[e] = "debugging"
                       /\ inbox'[e] = <<>> /\ pc[e] # "cloudinit"
      /\ k = "response" => engine'[e] = engine[e]
      /\ k # "init" => inbox[e] # <<>>
      /\ k = "done" => engine[e] = "debugging" /\ engine'[e] = IF Cloud THEN "ready" ELSE "closed"
  BY <1>3 DEF TypeOK
<1>8. SessionInvOf(e)
  BY DEF SessionInv
<1>9. Unmet(e)'
  BY <1>5, <1>8 DEF SessionInvOf, Unmet
<1>10. engine'[e] \in {"debugging", "closed"} \/ k = "done" \/ engine[e] # "debugging"
  BY <1>5, <1>7
<1>11. WireInOrder(e)'
  <2>1. InOrder(wire[e], engine[e], sent[e])
    BY <1>8 DEF SessionInvOf, WireInOrder
  <2>2. InOrder(Append(wire[e], x), engine'[e], sent[e] + 1)
    BY <1>1, <1>4, <1>5, <1>7, <1>10, <2>1, OrderWithMore
  <2> QED BY <1>6, <2>2 DEF WireInOrder
<1>12. AheadIsNoInit(e)'
  BY <1>5, <1>8 DEF SessionInvOf, AheadIsNoInit
<1>13. SessionInOrder(e)'
  <2> SUFFICES ASSUME pc'[e] \in {"dial", "forward"}, Cloud => NothingReadAhead(e)'
               PROVE  Continues(inner'[e] \o wire'[e], 0, passed'[e], engine'[e], sent'[e])
    BY DEF SessionInOrder
  <2>1. Continues(inner[e] \o wire[e], 0, passed[e], engine[e], sent[e])
    BY <1>5, <1>8 DEF SessionInvOf, SessionInOrder, NothingReadAhead
  <2> DEFINE all == inner[e] \o wire[e]
  <2>2. inner'[e] \o wire'[e] = Append(all, x) /\ all \in Seq(Packet)
    BY <1>1, <1>4, <1>5, <1>6, AddedBehind
  <2> HIDE DEF all
  <2>3. 0 \in 0..Len(all)
    BY <2>2, LenProperties
  <2>4. Continues(Append(all, x), 0, passed[e], engine'[e], sent[e] + 1)
    <3>1. Continues(all, 0, passed[e], engine[e], sent[e])
      BY <2>1 DEF all
    <3> QED BY <1>1, <1>4, <1>5, <1>7, <1>10, <2>2, <2>3, <3>1, ContinuesWithMore
  <2> QED BY <1>5, <1>6, <2>2, <2>4
<1>14. DebugsOnce(e)'
  <2> SUFFICES ASSUME ~ Cloud, pc'[e] # "done" PROVE Fresh(e)' \/ Begun(e)'
    BY DEF DebugsOnce
  <2>1. /\ Len(wire'[e]) = Len(wire[e]) + 1 /\ wire'[e][Len(wire[e]) + 1] = x
        /\ \A i \in 1..Len(wire[e]) : wire'[e][i] = wire[e][i]
    BY <1>1, <1>4, <1>6, AppendProperties
  <2>2. \A i \in 1..Len(wire'[e]) : i \in 1..Len(wire[e]) \/ i = Len(wire[e]) + 1
    BY <1>1, <2>1
  <2>3. CASE k = "init"
    <3>1. Fresh(e) /\ wire[e] = <<>>
      BY <1>5, <1>7, <1>8, <2>3 DEF SessionInvOf, DebugsOnce, Fresh, Begun
    <3>2. Len(wire[e]) = 0
      BY <3>1, EmptySeq
    <3>3. \A i \in 1..Len(wire'[e]) : i = 1 /\ wire'[e][i].kind = "init"
      BY <1>4, <2>1, <2>3, <3>2
    <3>4. wire'[e] # <<>>
      <4>1. Len(<<>>) = 0
        BY EmptySeq
      <4> QED BY <2>1, <3>2, <4>1
    <3> QED BY <1>5, <1>7, <2>3, <3>1, <3>3, <3>4 DEF Fresh
  <2>4. CASE k # "init"
    <3>1. Begun(e)
      BY <1>5, <1>7, <1>8, <2>4 DEF SessionInvOf, DebugsOnce, Fresh
    <3>2. \A i \in 1..Len(wire'[e]) : wire'[e][i].kind # "init"
      BY <1>4, <2>1, <2>2, <2>4, <3>1 DEF Begun
    <3>3. engine'[e] \in {"debugging", "closed"}
      BY <1>7, <2>4, <3>1 DEF Begun
    <3> QED BY <1>5, <3>1, <3>2, <3>3 DEF Begun, NothingReadAhead
  <2> QED BY <2>3, <2>4
<1> QED
  BY <1>9, <1>11, <1>12, <1>13, <1>14 DEF SessionInvOf

\* The engine sends output.
LEMMA OutputSent ==
  ASSUME SessionInv, TypeOK, NEW e \in Engines, Stream(e)
  PROVE  SessionInvOf(e)'
<1> DEFINE x == [kind |-> "stream", n |-> 0]
<1>1. /\ inner[e] \in Seq(Packet) /\ wire[e] \in Seq(Packet) /\ sent[e] \in Nat
      /\ passed[e] \in Nat /\ Len(wire[e]) \in Nat
  BY LenProperties DEF TypeOK
<1>2. x \in Packet /\ x.kind = "stream"
  BY DEF Packet, Kinds
<1>3. /\ wire'[e] = Append(wire[e], x)
      /\ pc'[e] = pc[e] /\ outer'[e] = outer[e] /\ inner'[e] = inner[e]
      /\ passed'[e] = passed[e] /\ engine[e] = "debugging" /\ engine'[e] = engine[e]
      /\ sent'[e] = sent[e] /\ inbox'[e] = inbox[e]
  BY DEF Stream, TypeOK, EngineVars, readers, peerVars
<1> HIDE DEF x
<1>4. SessionInvOf(e)
  BY DEF SessionInv
<1>5. Unmet(e)' /\ AheadIsNoInit(e)'
  BY <1>3, <1>4 DEF SessionInvOf, Unmet, AheadIsNoInit
<1>6. WireInOrder(e)'
  <2>1. InOrder(wire[e], "debugging", sent[e])
    BY <1>3, <1>4 DEF SessionInvOf, WireInOrder
  <2>2. InOrder(Append(wire[e], x), "debugging", sent[e])
    BY <1>1, <1>2, <2>1, OrderWithOutput
  <2> QED BY <1>3, <2>2 DEF WireInOrder
<1>7. SessionInOrder(e)'
  <2> SUFFICES ASSUME pc'[e] \in {"dial", "forward"}, Cloud => NothingReadAhead(e)'
               PROVE  Continues(inner'[e] \o wire'[e], 0, passed'[e], engine'[e], sent'[e])
    BY DEF SessionInOrder
  <2> DEFINE all == inner[e] \o wire[e]
  <2>1. Continues(all, 0, passed[e], "debugging", sent[e])
    BY <1>3, <1>4 DEF SessionInvOf, SessionInOrder, NothingReadAhead
  <2>2. inner'[e] \o wire'[e] = Append(all, x) /\ all \in Seq(Packet)
    BY <1>1, <1>2, <1>3, AddedBehind
  <2> HIDE DEF all
  <2>3. 0 \in 0..Len(all)
    BY <2>2, LenProperties
  <2>4. Continues(Append(all, x), 0, passed[e], "debugging", sent[e])
    BY <1>1, <1>2, <2>1, <2>2, <2>3, ContinuesWithOutput
  <2> QED BY <1>3, <2>2, <2>4
<1>8. DebugsOnce(e)'
  <2>1. /\ Len(wire'[e]) = Len(wire[e]) + 1 /\ wire'[e][Len(wire[e]) + 1] = x
        /\ \A i \in 1..Len(wire[e]) : wire'[e][i] = wire[e][i]
    BY <1>1, <1>2, <1>3, AppendProperties
  <2>2. \A i \in 1..Len(wire'[e]) : i \in 1..Len(wire[e]) \/ i = Len(wire[e]) + 1
    BY <1>1, <2>1
  <2>3. ASSUME Fresh(e) PROVE Fresh(e)'
    <3>1. Len(wire[e]) # 0
      BY <1>1, <1>3, <2>3, EmptySeq DEF Fresh
    <3>2. \A i \in 1..Len(wire'[e]) : wire'[e][i].kind = IF i = 1 THEN "init" ELSE "stream"
      BY <1>1, <1>2, <2>1, <2>2, <2>3, <3>1 DEF Fresh
    <3>3. wire'[e] # <<>>
      <4>1. Len(<<>>) = 0
        BY EmptySeq
      <4> QED BY <1>1, <2>1, <4>1
    <3> QED BY <1>3, <2>3, <3>2, <3>3 DEF Fresh
  <2>4. ASSUME Begun(e) PROVE Begun(e)'
    <3>1. \A i \in 1..Len(wire'[e]) : wire'[e][i].kind # "init"
      BY <1>2, <2>1, <2>2, <2>4 DEF Begun
    <3> QED BY <1>3, <2>4, <3>1 DEF Begun, NothingReadAhead
  <2> QED BY <1>3, <1>4, <2>3, <2>4 DEF SessionInvOf, DebugsOnce
<1> QED
  BY <1>5, <1>6, <1>7, <1>8 DEF SessionInvOf

\* The engine hangs up.
LEMMA EngineGone ==
  ASSUME SessionInv, TypeOK, NEW e \in Engines, Hangup(e)
  PROVE  SessionInvOf(e)'
<1>1. /\ inner[e] \in Seq(Packet) /\ wire[e] \in Seq(Packet) /\ sent[e] \in Nat
      /\ passed[e] \in Nat /\ Len(wire[e]) \in Nat
  BY LenProperties DEF TypeOK
<1>2. PICK n \in 0..Len(wire[e]) : wire' = [wire EXCEPT ![e] = SubSeq(wire[e], 1, n)]
  BY DEF Hangup
<1>3. /\ wire'[e] = SubSeq(wire[e], 1, n)
      /\ pc'[e] = pc[e] /\ outer'[e] = outer[e] /\ inner'[e] = inner[e]
      /\ passed'[e] = passed[e] /\ engine[e] # "off" /\ engine'[e] = "closed"
      /\ sent'[e] = sent[e] /\ inbox'[e] = <<>>
  BY <1>2 DEF Hangup, TypeOK, EngineVars, readers
<1>4. SessionInvOf(e)
  BY DEF SessionInv
<1>5. /\ wire'[e] \in Seq(Packet) /\ Len(wire'[e]) <= Len(wire[e])
      /\ \A i \in 1..Len(wire'[e]) : wire'[e][i] = wire[e][i] /\ i \in 1..Len(wire[e])
  <2>1. wire'[e] \in Seq(Packet) /\ Len(wire'[e]) = n /\ \A i \in 1..n : wire'[e][i] = wire[e][i]
    BY <1>1, <1>3, Kept
  <2> QED BY <1>1, <2>1
<1>6. Unmet(e)' /\ AheadIsNoInit(e)'
  BY <1>3, <1>4 DEF SessionInvOf, Unmet, AheadIsNoInit
<1>7. WireInOrder(e)'
  <2>1. InOrder(SubSeq(wire[e], 1, n), "closed", sent[e])
    BY <1>1, <1>4, OrderCut DEF SessionInvOf, WireInOrder
  <2> QED BY <1>3, <2>1 DEF WireInOrder
<1>8. SessionInOrder(e)'
  <2> SUFFICES ASSUME pc'[e] \in {"dial", "forward"}, Cloud => NothingReadAhead(e)'
               PROVE  Continues(inner'[e] \o wire'[e], 0, passed'[e], engine'[e], sent'[e])
    BY DEF SessionInOrder
  <2> DEFINE all == inner[e] \o wire[e]
             left == inner[e] \o wire'[e]
  <2>1. Continues(all, 0, passed[e], engine[e], sent[e])
    BY <1>3, <1>4 DEF SessionInvOf, SessionInOrder, NothingReadAhead
  <2>2. /\ all \in Seq(Packet) /\ left \in Seq(Packet) /\ Len(left) <= Len(all)
        /\ \A i \in 1..Len(left) : left[i] = all[i]
    <3> DEFINE b == inner[e]
               w == wire[e]
               p == wire'[e]
    <3>1. /\ b \in Seq(Packet) /\ w \in Seq(Packet) /\ p \in Seq(Packet)
          /\ Len(p) <= Len(w) /\ \A i \in 1..Len(p) : p[i] = w[i]
      BY <1>1, <1>5
    <3>2. all = b \o w /\ left = b \o p
      OBVIOUS
    <3> HIDE DEF b, w, p, all, left
    <3> QED BY <3>1, <3>2, CutBehind
  <2>3. inner'[e] \o wire'[e] = left
    BY <1>3
  <2> HIDE DEF all, left
  <2>4. Continues(left, 0, passed[e], "closed", sent[e])
    BY <1>1, <2>1, <2>2, ContinuesCut
  <2> QED BY <1>3, <2>3, <2>4
<1>9. DebugsOnce(e)'
  <2>1. ASSUME Fresh(e) PROVE Fresh(e)'
    BY <1>3, <1>5, <2>1 DEF Fresh
  <2>2. ASSUME Begun(e) PROVE Begun(e)'
    BY <1>3, <1>5, <2>2 DEF Begun, NothingReadAhead
  <2> QED BY <1>3, <1>4, <2>1, <2>2 DEF SessionInvOf, DebugsOnce
<1> QED
  BY <1>6, <1>7, <1>8, <1>9 DEF SessionInvOf

\* The engine connects, or the proxy to Cloud.
LEMMA EngineMet ==
  ASSUME SessionInv, TypeOK, NEW e \in Engines, Accept(e) \/ CloudConnect(e)
  PROVE  SessionInvOf(e)'
<1>1. SessionInvOf(e) /\ wire[e] \in Seq(Packet)
  BY DEF SessionInv, TypeOK
<1>2. pc[e] = "idle" /\ engine[e] = "off" /\ wire[e] = <<>>
  BY <1>1 DEF Accept, CloudConnect, SessionInvOf, Unmet
<1>3. outer'[e] = outer[e] /\ inbox'[e] = inbox[e]
  BY DEF Accept, CloudConnect, readers
<1>4. Len(wire[e]) = 0
  BY <1>2, EmptySeq
<1>5. CASE Accept(e)
  <2>1. pc'[e] = "read" /\ engine'[e] = "ready" /\ wire'[e] = <<>> /\ ~ Cloud
    BY <1>2, <1>5 DEF Accept, Goto, TypeOK
  <2>2. Fresh(e)
    BY <1>1, <1>2, <2>1 DEF SessionInvOf, DebugsOnce, Begun
  <2>3. Fresh(e)'
    BY <1>2, <1>3, <1>4, <2>1, <2>2 DEF Fresh
  <2>4. WireInOrder(e)'
    BY <1>2, <1>4, <2>1 DEF WireInOrder, InOrder
  <2> QED
    BY <1>1, <1>2, <1>3, <2>1, <2>3, <2>4
       DEF SessionInvOf, Unmet, AheadIsNoInit, DebugsOnce, SessionInOrder
<1>6. CASE CloudConnect(e)
  <2> DEFINE x == [kind |-> "cloudinit", n |-> 0]
  <2>1. /\ Cloud
        /\ \/ pc'[e] = "cloudinit" /\ wire'[e] = <<x>>
           \/ pc'[e] = "done" /\ wire'[e] = <<>>
    BY <1>2, <1>6 DEF CloudConnect, Goto, Return, TypeOK
  <2>2. \A i \in 1..Len(wire'[e]) : wire'[e][i].kind # "init"
    BY <1>2, <1>4, <2>1
  <2>3. WireInOrder(e)'
    BY <2>2 DEF WireInOrder, InOrder
  <2> QED
    BY <1>1, <1>2, <1>3, <2>1, <2>3
       DEF SessionInvOf, Unmet, AheadIsNoInit, DebugsOnce, SessionInOrder
<1> QED
  BY <1>5, <1>6

\* A step that concerns one engine keeps the invariant of the others.
LEMMA SessionLocal ==
  ASSUME SessionInv, CopierInv', NEW e \in Engines, SessionInvOf(e)',
         \A f \in Engines \ {e} : Same(f)
  PROVE  SessionInv'
<1>1. \A f \in Engines : SessionInvOf(f)'
  BY SameInv, Zenon DEF SessionInv
<1> QED
  BY <1>1 DEF SessionInv

\* A step of the handler, the copier, the IDE or the engine of a connection leaves
\* the other connections alone.
LEMMA OthersAreTheSame ==
  ASSUME TypeOK, NEW e \in Engines, NEW f \in Engines \ {e},
         \/ Accept(e) \/ CloudConnect(e) \/ CloudConnected(e)
         \/ HandlerStep(e) \/ ReadFails(e) \/ ForwardError(e)
         \/ CopierStep(e) \/ IDELeaves(e) \/ EngineStep(e)
  PROVE  Same(f)
<1> USE DEF TypeOK, Same, Goto, Return, readers, peerVars, TakeFromWire
<1>1. CASE Accept(e) \/ CloudConnect(e) \/ CloudConnected(e)
  BY <1>1 DEF Accept, CloudConnect, CloudConnected
<1>2. CASE ReadInit(e)
  BY <1>2 DEF ReadInit
<1>3. CASE ReadStops(e) \/ ReadFails(e)
  BY <1>3 DEF ReadStops, ReadFails
<1>4. CASE DialFails(e) \/ DialSucceeds(e) \/ RemoveIDE(e)
  BY <1>4 DEF DialFails, DialSucceeds, RemoveIDE
<1>5. CASE ForwardPacket(e)
  BY <1>5 DEF ForwardPacket, Unwind
<1>6. CASE ForwardTimeout(e) \/ ForwardError(e) \/ Unwound(e)
  BY <1>6 DEF ForwardTimeout, ForwardError, Unwound, Unwind
<1>7. CASE SendDetach(e) \/ AwaitReply(e)
  BY <1>7 DEF SendDetach, AwaitReply
<1>8. CASE CopyCommand(e) \/ CopyEnds(e) \/ IDELeaves(e)
  BY <1>8 DEF CopyCommand, CopyEnds, IDELeaves, CopierVars
<1>9. CASE EngineInit(e) \/ Answer(e)
  BY <1>9 DEF EngineInit, Answer, Send, EngineVars
<1>10. CASE Stream(e) \/ Hangup(e)
  BY <1>10 DEF Stream, Hangup, EngineVars
<1> QED
  BY <1>1, <1>2, <1>3, <1>4, <1>5, <1>6, <1>7, <1>8, <1>9, <1>10
     DEF HandlerStep, CopierStep, EngineStep

\* The session invariant is inductive.
LEMMA SessionStep == SessionInv /\ [Next]_vars => SessionInv'
<1> SUFFICES ASSUME SessionInv, [Next]_vars PROVE SessionInv'
  OBVIOUS
<1>1. TypeOK /\ CopierInv /\ CopierInv' /\ \A e \in Engines : SessionInvOf(e) /\ CopierInvOf(e)
  BY CopierStepInv DEF SessionInv, CopierInv
<1>2. ASSUME NEW e \in Engines,
             \/ DialFails(e) \/ DialSucceeds(e) \/ ForwardTimeout(e) \/ ForwardError(e)
             \/ Unwound(e) \/ RemoveIDE(e) \/ SendDetach(e)
      PROVE  SessionInvOf(e)'
  <2>1. /\ outer'[e] = outer[e] /\ engine'[e] = engine[e]
        /\ wire'[e] = wire[e] /\ sent'[e] = sent[e]
    BY <1>2, Zenon DEF DialFails, DialSucceeds, ForwardTimeout, ForwardError, Unwound, RemoveIDE,
                SendDetach, readers, peerVars
  <2>2. /\ pc[e] \in {"dial", "forward", "closing", "remove", "detach"}
        /\ \/ pc'[e] \in {"read", "closing", "remove", "detach", "await"}
           \/ /\ pc[e] = "dial" /\ pc'[e] = "forward"
              /\ inner'[e] = inner[e] /\ passed'[e] = passed[e]
    BY <1>1, <1>2 DEF DialFails, DialSucceeds, ForwardTimeout, ForwardError, Unwound, RemoveIDE,
                SendDetach, Unwind, Goto, readers, TypeOK
  <2> QED BY <1>1, <2>1, <2>2, HandlerMoves
<1>3. ASSUME NEW e \in Engines, ReadStops(e) \/ ReadFails(e)
      PROVE  SessionInvOf(e)'
  <2>1. /\ pc'[e] = "done" /\ engine'[e] = engine[e] /\ wire'[e] = wire[e]
        /\ sent'[e] = sent[e]
    BY <1>1, <1>3 DEF ReadStops, ReadFails, Return, Goto, peerVars, TypeOK
  <2> QED BY <1>1, <2>1, HandlerEnded DEF SessionInvOf, WireInOrder
<1>4. ASSUME NEW e \in Engines, CloudConnected(e) \/ AwaitReply(e)
      PROVE  SessionInvOf(e)'
  <2>1. /\ pc[e] \in {"cloudinit", "await"} /\ pc'[e] \in {"read", "done"}
        /\ outer'[e] = outer[e] /\ engine'[e] = engine[e] /\ sent'[e] = sent[e]
    BY <1>1, <1>4 DEF CloudConnected, AwaitReply, Return, Goto, readers, peerVars, TypeOK
  <2>2. wire[e] \in Seq(Packet) /\ Len(wire[e]) \in Nat /\ 0 \in 0..Len(wire[e])
    BY <1>1, LenProperties DEF TypeOK
  <2>3. \E n \in 0..Len(wire[e]) : TakeFromWire(e, n)
    <3>1. CASE UNCHANGED wire
      <4>1. SubSeq(wire[e], 0 + 1, Len(wire[e])) = wire[e]
        BY <2>2, SubSeqFull
      <4>2. wire = [wire EXCEPT ![e] = wire[e]]
        BY <1>1 DEF TypeOK
      <4>3. TakeFromWire(e, 0)
        BY <3>1, <4>1, <4>2, Zenon DEF TakeFromWire
      <4> QED BY <2>2, <4>3
    <3>2. CASE \E n \in Fetch(<<>>, e) : TakeFromWire(e, n)
      <4>1. <<>> \in Seq(Packet)
        BY EmptySeq
      <4> QED BY <1>1, <3>2, <4>1, FetchBounds
    <3> QED BY <1>4, <3>1, <3>2 DEF CloudConnected, AwaitReply
  <2> QED BY <1>1, <2>1, <2>3, ReplyTaken
<1>5. ASSUME NEW e \in Engines, CopyCommand(e)
      PROVE  SessionInvOf(e)'
  <2>1. /\ outer'[e] = outer[e] /\ inner'[e] = inner[e] /\ passed'[e] = passed[e]
        /\ engine'[e] = engine[e] /\ wire'[e] = wire[e] /\ sent'[e] = sent[e]
        /\ pc'[e] = pc[e]
    BY <1>5 DEF CopyCommand, CopierVars, readers
  <2>2. pc[e] \in {"forward", "closing"}
    BY <1>1, <1>5 DEF CopyCommand, CopierInvOf, Quiet
  <2> QED BY <1>1, <2>1, <2>2, HandlerMoves
<1>6. ASSUME NEW e \in Engines, CopyEnds(e) \/ IDELeaves(e)
      PROVE  SessionInvOf(e)'
  <2>1. Same(e)
    BY <1>6 DEF CopyEnds, IDELeaves, CopierVars, readers, Same
  <2> QED BY <1>1, <2>1, SameInv
<1>7. ASSUME NEW e \in Engines,
             \/ Accept(e) \/ CloudConnect(e) \/ CloudConnected(e)
             \/ HandlerStep(e) \/ ReadFails(e) \/ ForwardError(e)
             \/ CopierStep(e) \/ IDELeaves(e) \/ EngineStep(e)
      PROVE  SessionInv'
  <2>1. SessionInvOf(e)'
    BY <1>1, <1>2, <1>3, <1>4, <1>5, <1>6, <1>7, InitRead, PacketForwarded, PacketSent,
       OutputSent, EngineGone, EngineMet, Zenon
       DEF HandlerStep, CopierStep, EngineStep
  <2>2. \A f \in Engines \ {e} : Same(f)
    BY <1>1, <1>7, OthersAreTheSame
  <2> QED BY <1>1, <2>1, <2>2, SessionLocal
<1>8. CASE \/ \E k \in Keys : ProxyInit(k) \/ ProxyStop(k)
           \/ Interrupt \/ UNCHANGED vars
  <2>1. UNCHANGED <<pc, outer, inner, passed, engine, inbox, wire, sent>>
    BY <1>8 DEF ProxyInit, ProxyStop, CommandVars, Interrupt, vars, readers, peerVars
  <2>2. \A e \in Engines : SessionInvOf(e)'
    BY <1>1, <2>1, SameInv DEF Same
  <2> QED BY <1>1, <2>2 DEF SessionInv
<1> QED
  BY <1>7, <1>8, Zenon DEF Next

\* The program starts with the session invariant.
LEMMA SessionInit == Init => SessionInv
<1> SUFFICES ASSUME Init PROVE SessionInv
  OBVIOUS
<1>1. CopierInv
  <2>1. \A e \in Engines : pc[e] = "idle" /\ Quiet(e)
    BY DEF Init, Quiet
  <2> QED BY <2>1, InitTypes DEF CopierInv, CopierInvOf
<1>2. ASSUME NEW e \in Engines PROVE SessionInvOf(e)
  <2>1. /\ pc[e] = "idle" /\ outer[e] = <<>> /\ engine[e] = "off" /\ inbox[e] = <<>>
        /\ wire[e] = <<>>
    BY DEF Init
  <2>2. Len(wire[e]) = 0
    BY <2>1, EmptySeq
  <2>3. Fresh(e) /\ WireInOrder(e)
    BY <2>1, <2>2 DEF Fresh, WireInOrder, InOrder
  <2> QED BY <2>1, <2>3
          DEF SessionInvOf, Unmet, AheadIsNoInit, DebugsOnce, SessionInOrder
<1> QED BY <1>1, <1>2 DEF SessionInv

\* An IDE is sent its own session: whole, in order, and nothing of another one,
\* unless the reader of Handle has read what was meant for it.
THEOREM SessionsAreForwardedWhole == Spec => ForwardsOwnSession
<1>1. Init => SessionInv
  BY SessionInit
<1>2. SessionInv /\ [Next]_vars => SessionInv'
  BY SessionStep
<1>3. ASSUME SessionInv, [Next]_vars
      PROVE  \A e \in Engines :
               (pc[e] = "forward" /\ passed'[e] # passed[e] /\ (Cloud => NothingReadAhead(e))) =>
                 /\ passed'[e] = passed[e] + 1
                 /\ Head(inner[e] \o wire[e]).kind = "response"
  <2> SUFFICES ASSUME NEW e \in Engines, pc[e] = "forward", passed'[e] # passed[e],
                      Cloud => NothingReadAhead(e)
               PROVE  /\ passed'[e] = passed[e] + 1
                      /\ Head(inner[e] \o wire[e]).kind = "response"
    OBVIOUS
  <2>1. TypeOK
    BY <1>3 DEF SessionInv, CopierInv
  <2>2. ASSUME NEW f \in Engines,
               \/ Accept(f) \/ CloudConnect(f) \/ CloudConnected(f)
               \/ HandlerStep(f) \/ ReadFails(f) \/ ForwardError(f)
               \/ CopierStep(f) \/ IDELeaves(f) \/ EngineStep(f)
        PROVE  ForwardPacket(e)
    <3>1. f = e
      BY <2>1, <2>2, OthersAreTheSame DEF Same
    <3>2. ~ UNCHANGED passed
      OBVIOUS
    <3> QED
      BY <2>2, <3>1, <3>2
         DEF HandlerStep, CopierStep, EngineStep, Accept, CloudConnect, CloudConnected,
             ReadInit, ReadStops, ReadFails, DialFails, DialSucceeds, ForwardTimeout,
             ForwardError, Unwound, RemoveIDE, SendDetach, AwaitReply, CopyCommand, CopyEnds,
             CopierVars, IDELeaves, EngineInit, Answer, Stream, Hangup, EngineVars, readers
  <2>3. ~ (\/ \E k \in Keys : ProxyInit(k) \/ ProxyStop(k)
           \/ Interrupt \/ UNCHANGED vars)
    BY DEF ProxyInit, ProxyStop, CommandVars, Interrupt, vars, readers
  <2>4. ForwardPacket(e)
    BY <1>3, <2>2, <2>3, Zenon DEF Next
  <2> QED BY <1>3, <2>1, <2>4, PacketForwarded
<1> QED BY <1>1, <1>2, <1>3, PTL DEF Spec, ForwardsOwnSession

-----------------------------------------------------------------------------
(* The proxy keeps to HandlerContract.                                     *)

\* Nobody has been interrupted before he asks for signals, and what Handle returned
\* is known when it has.
StageInvOf(e) ==
  /\ pc[e] # "done" => outcome[e] = "none"
  /\ pc[e] \in {"idle", "cloudinit"} => ~ signals[e]

StageInv == TypeOK /\ \A e \in Engines : StageInvOf(e)

\* The expressions that Handler puts for the variables of HandlerContract.
PendingOf(e) == StageOf(e) \in {"waiting", "busy"} /\ signals[e]
Stage == [e \in Engines |-> StageOf(e)]
Pending == [e \in Engines |-> PendingOf(e)]

\* A step that concerns one handler is a step of HandlerContract if it takes that
\* handler from stage to stage as that allows.
LEMMA OneStage ==
  ASSUME TypeOK, NEW e \in Engines,
         \A f \in Engines \ {e} :
           pc'[f] = pc[f] /\ outcome'[f] = outcome[f] /\ signals'[f] = signals[f],
         \/ /\ StageOf(e)' = StageOf(e)
            /\ signals'[e] = signals[e] \/ StageOf(e) \notin {"waiting", "busy"}
         \/ StageOf(e) = "off" /\ StageOf(e)' = "waiting" /\ ~ signals'[e]
         \/ /\ StageOf(e) = "waiting" /\ StageOf(e)' = "busy"
            /\ ~ signals[e] /\ ~ signals'[e]
         \/ /\ StageOf(e) = "busy" /\ StageOf(e)' = "waiting"
            /\ signals'[e] = signals[e]
         \/ StageOf(e) = "waiting" /\ StageOf(e)' = "returned"
         \/ /\ StageOf(e) = "waiting" /\ StageOf(e)' = "failed"
            /\ Cloud /\ ~ signals[e]
  PROVE  [Handler!Next]_<<Stage, Pending>>
<1>1. \A f \in Engines \ {e} : StageOf(f)' = StageOf(f) /\ PendingOf(f)' = PendingOf(f)
  BY DEF StageOf, PendingOf
<1>2. /\ Stage' = [Stage EXCEPT ![e] = StageOf(e)']
      /\ \A f \in Engines : Stage[f] = StageOf(f) /\ Pending[f] = PendingOf(f)
  BY <1>1, Zenon DEF Stage, Pending
<1>3. PendingOf(e)' = PendingOf(e) => UNCHANGED Pending
  BY <1>1, Zenon DEF Pending
<1>4. ~ PendingOf(e)' => Pending' = [Pending EXCEPT ![e] = FALSE]
  <2> HAVE ~ PendingOf(e)'
  <2>1. PendingOf(e)' = FALSE
    BY DEF PendingOf
  <2> QED BY <1>1, <2>1, Zenon DEF Pending
<1>5. CASE /\ StageOf(e)' = StageOf(e)
           /\ signals'[e] = signals[e] \/ StageOf(e) \notin {"waiting", "busy"}
  <2>1. PendingOf(e)' = PendingOf(e)
    BY <1>5 DEF PendingOf
  <2>2. UNCHANGED Stage
    BY <1>1, <1>5, Zenon DEF Stage
  <2> QED BY <1>3, <2>1, <2>2
<1>6. CASE StageOf(e) = "off" /\ StageOf(e)' = "waiting" /\ ~ signals'[e]
  <2>1. PendingOf(e)' = PendingOf(e)
    BY <1>6 DEF PendingOf
  <2> QED BY <1>2, <1>3, <1>6, <2>1, Zenon DEF Handler!Next, Handler!Start, Stage, Pending, PendingOf
<1>7. CASE /\ StageOf(e) = "waiting" /\ StageOf(e)' = "busy"
           /\ ~ signals[e] /\ ~ signals'[e]
  <2>1. PendingOf(e)' = PendingOf(e) /\ ~ PendingOf(e)
    BY <1>7 DEF PendingOf
  <2> QED BY <1>2, <1>3, <1>7, <2>1, Zenon DEF Handler!Next, Handler!Take, Stage, Pending, PendingOf
<1>8. CASE /\ StageOf(e) = "busy" /\ StageOf(e)' = "waiting"
           /\ signals'[e] = signals[e]
  <2>1. PendingOf(e)' = PendingOf(e)
    BY <1>8 DEF PendingOf
  <2> QED BY <1>2, <1>3, <1>8, <2>1, Zenon DEF Handler!Next, Handler!Finish, Stage, Pending, PendingOf
<1>9. CASE StageOf(e) = "waiting" /\ StageOf(e)' = "returned"
  <2>1. ~ PendingOf(e)'
    BY <1>9 DEF PendingOf
  <2> QED BY <1>2, <1>4, <1>9, <2>1, Zenon DEF Handler!Next, Handler!Leave, Stage, Pending, PendingOf
<1>10. CASE /\ StageOf(e) = "waiting" /\ StageOf(e)' = "failed"
            /\ Cloud /\ ~ signals[e]
  <2>1. PendingOf(e)' = PendingOf(e) /\ ~ PendingOf(e)
    BY <1>10 DEF PendingOf
  <2>2. e \in {f \in Engines : Cloud}
    BY <1>10
  <2> QED BY <1>2, <1>3, <1>10, <2>1, <2>2, Zenon DEF Handler!Next, Handler!Fail, Stage, Pending, PendingOf
<1> QED
  BY <1>5, <1>6, <1>7, <1>8, <1>9, <1>10, Zenon

\* Every step of the proxy is a step of HandlerContract, or none, and keeps the
\* invariant that takes.
LEMMA StepOfHandler ==
  ASSUME StageInv, TypeOK', [Next]_vars
  PROVE  StageInv' /\ [Handler!Next]_<<Stage, Pending>>
<1> USE DEF Goto, Stay
<1>1. /\ pc \in [Engines -> Labels] /\ outcome \in [Engines -> Outcomes]
      /\ signals \in [Engines -> BOOLEAN] /\ TypeOK
      /\ \A e \in Engines : StageInvOf(e)
  BY DEF StageInv, TypeOK
<1>2. ASSUME NEW e \in Engines,
             \A f \in Engines \ {e} :
               pc'[f] = pc[f] /\ outcome'[f] = outcome[f] /\ signals'[f] = signals[f],
             StageInvOf(e)'
      PROVE  StageInv'
  BY <1>1, <1>2 DEF StageInv, StageInvOf
<1>3. ASSUME NEW e \in Engines,
             \/ DialFails(e) \/ DialSucceeds(e) \/ ForwardPacket(e) \/ ForwardTimeout(e)
             \/ ForwardError(e) \/ Unwound(e) \/ RemoveIDE(e) \/ SendDetach(e) \/ AwaitReply(e)
      PROVE  StageInv' /\ [Handler!Next]_<<Stage, Pending>>
  <2>1. /\ UNCHANGED <<outcome, signals>>
        /\ pc[e] \in {"dial", "forward", "closing", "remove", "detach", "await"}
        /\ \/ pc' = pc
           \/ \E label \in {"read", "forward", "closing", "remove", "detach", "await"} :
                pc' = [pc EXCEPT ![e] = label]
    BY <1>3 DEF DialFails, DialSucceeds, ForwardPacket, ForwardTimeout,
       ForwardError, Unwound, RemoveIDE, SendDetach, AwaitReply, Unwind
  <2>2. /\ \A f \in Engines \ {e} : pc'[f] = pc[f]
        /\ pc'[e] \in {"read", "dial", "forward", "closing", "remove", "detach", "await"}
    BY <1>1, <2>1
  <2>3. StageInvOf(e)' /\ outcome[e] = "none"
    BY <1>1, <2>1, <2>2 DEF StageInvOf
  <2>4. StageOf(e) = "busy" /\ StageOf(e)' \in {"busy", "waiting"}
    BY <2>1, <2>2, <2>3 DEF StageOf
  <2> QED
    BY <1>1, <1>2, <2>1, <2>2, <2>3, <2>4, OneStage
<1>4. ASSUME NEW e \in Engines, Accept(e)
      PROVE  StageInv' /\ [Handler!Next]_<<Stage, Pending>>
  <2>1. UNCHANGED <<outcome, signals>> /\ pc[e] = "idle" /\ pc' = [pc EXCEPT ![e] = "read"]
    BY <1>4 DEF Accept
  <2>2. \A f \in Engines \ {e} : pc'[f] = pc[f]
    BY <1>1, <2>1
  <2>3. pc'[e] = "read" /\ outcome'[e] = "none" /\ ~ signals'[e] /\ outcome[e] = "none"
    BY <1>1, <2>1 DEF StageInvOf
  <2>4. StageInvOf(e)' /\ StageOf(e) = "off" /\ StageOf(e)' = "waiting"
    BY <2>1, <2>3 DEF StageInvOf, StageOf
  <2> QED
    BY <1>1, <1>2, <2>1, <2>2, <2>3, <2>4, OneStage
<1>5. ASSUME NEW e \in Engines, CloudConnect(e) \/ CloudConnected(e)
      PROVE  StageInv' /\ [Handler!Next]_<<Stage, Pending>>
  <2>1. /\ UNCHANGED signals
        /\ pc[e] \in {"idle", "cloudinit"}
        /\ \/ /\ UNCHANGED outcome
              /\ \E label \in {"cloudinit", "read"} : pc' = [pc EXCEPT ![e] = label]
           \/ /\ pc' = [pc EXCEPT ![e] = "done"]
              /\ outcome' = [outcome EXCEPT ![e] = "refused"]
    BY <1>5, Zenon DEF CloudConnect, CloudConnected, Return
  <2>2. \A f \in Engines \ {e} : pc'[f] = pc[f] /\ outcome'[f] = outcome[f]
    BY <1>1, <2>1
  <2>3. /\ \/ pc'[e] = "done" /\ outcome'[e] = "refused"
           \/ pc'[e] \in {"cloudinit", "read"} /\ outcome'[e] = "none"
        /\ outcome[e] = "none" /\ ~ signals[e] /\ ~ signals'[e]
    BY <1>1, <2>1 DEF StageInvOf
  <2>4. StageInvOf(e)' /\ StageOf(e) = "off" /\ StageOf(e)' \in {"off", "waiting"}
    BY <2>1, <2>3 DEF StageInvOf, StageOf
  <2> QED
    BY <1>1, <1>2, <2>1, <2>2, <2>3, <2>4, OneStage
<1>6. ASSUME NEW e \in Engines, ReadInit(e) \/ ReadStops(e) \/ ReadFails(e)
      PROVE  StageInv' /\ [Handler!Next]_<<Stage, Pending>>
  <2>1. /\ pc[e] = "read"
        /\ \/ /\ signals' = [signals EXCEPT ![e] = FALSE]
              /\ pc' = [pc EXCEPT ![e] = "done"]
              /\ outcome' = [outcome EXCEPT ![e] = "nil"]
           \/ /\ ~ signals[e]
              /\ UNCHANGED signals \/ signals' = [signals EXCEPT ![e] = FALSE]
              /\ pc' = [pc EXCEPT ![e] = "done"]
              /\ \E result \in {"readError", "unset"} :
                   outcome' = [outcome EXCEPT ![e] = result]
           \/ /\ ~ signals[e] /\ signals' = [signals EXCEPT ![e] = FALSE]
              /\ UNCHANGED outcome
              /\ \E label \in {"dial", "detach"} : pc' = [pc EXCEPT ![e] = label]
    BY <1>6, Zenon DEF ReadInit, ReadStops, ReadFails, Return
  <2>2. /\ \A f \in Engines \ {e} :
             pc'[f] = pc[f] /\ outcome'[f] = outcome[f] /\ signals'[f] = signals[f]
        /\ outcome[e] = "none"
    BY <1>1, <2>1 DEF StageInvOf
  <2>3. \/ pc'[e] = "done" /\ outcome'[e] = "nil"
        \/ ~ signals[e] /\ pc'[e] = "done" /\ outcome'[e] \in {"readError", "unset"}
        \/ /\ ~ signals[e] /\ ~ signals'[e]
           /\ pc'[e] \in {"dial", "detach"} /\ outcome'[e] = "none"
    BY <1>1, <2>1, <2>2
  <2>4. StageInvOf(e)'
    BY <2>3 DEF StageInvOf
  <2>5. /\ StageOf(e) = "waiting"
        /\ \/ StageOf(e)' = "returned"
           \/ StageOf(e)' = "failed" /\ Cloud /\ ~ signals[e]
           \/ StageOf(e)' = "busy" /\ ~ signals[e] /\ ~ signals'[e]
    BY <2>1, <2>2, <2>3 DEF StageOf
  <2> QED
    BY <1>1, <1>2, <2>2, <2>4, <2>5, OneStage
<1>7. CASE \/ UNCHANGED vars
           \/ \E e \in Engines : CopierStep(e) \/ IDELeaves(e) \/ EngineStep(e)
           \/ \E k \in Keys : ProxyInit(k) \/ ProxyStop(k)
  <2>1. UNCHANGED <<pc, outcome, signals>>
    BY <1>7 DEF vars, CopierStep, CopyCommand, CopyEnds, CopierVars, IDELeaves,
       EngineStep, EngineInit, Answer, Stream, Hangup, EngineVars, ProxyInit, ProxyStop, CommandVars
  <2> QED
    BY <1>1, <2>1 DEF StageInv, StageInvOf, Stage, Pending, PendingOf, StageOf
<1>8. CASE Interrupt
  <2>1. /\ UNCHANGED <<pc, outcome>>
        /\ signals' = [e \in Engines |->
                         pc[e] \notin {"idle", "cloudinit", "done"} \/ signals[e]]
    BY <1>8 DEF Interrupt
  <2>2. StageInv'
    BY <1>1, <2>1 DEF StageInv, StageInvOf
  <2>3. \A e \in Engines : StageOf(e)' = StageOf(e)
    BY <2>1 DEF StageOf
  <2>4. \A e \in Engines : PendingOf(e)' = (StageOf(e) \in {"waiting", "busy"})
    <3> SUFFICES ASSUME NEW e \in Engines
                 PROVE  PendingOf(e)' = (StageOf(e) \in {"waiting", "busy"})
      OBVIOUS
    <3>1. StageOf(e) \in {"waiting", "busy"} => pc[e] \notin {"idle", "cloudinit", "done"}
      BY DEF StageOf
    <3>2. StageOf(e) \in {"waiting", "busy"} => signals'[e]
      BY <2>1, <3>1
    <3> QED BY <2>3, <3>2 DEF PendingOf
  <2>5. UNCHANGED Stage
    BY <2>3, Zenon DEF Stage
  <2>6. Pending' = [e \in Engines |-> StageOf(e) \in {"waiting", "busy"}]
    BY <2>4, Zenon DEF Pending
  <2>7. Pending' = [e \in Engines |-> Stage[e] \in {"waiting", "busy"}]
    BY <2>6, Zenon DEF Stage
  <2> QED
    BY <2>2, <2>5, <2>7, Zenon DEF Handler!Next, Handler!Interrupt, Stage, Pending, PendingOf
<1> QED
  BY <1>3, <1>4, <1>5, <1>6, <1>7, <1>8, Zenon DEF Next, HandlerStep

\* For any number of engines, with Cloud or without, the handlers keep to
\* HandlerContract.
THEOREM HandlersKeepTheContract == Spec => ImplementsHandler
<1>1. Init => StageInv
  BY InitTypes DEF Init, StageInv, StageInvOf
<1>2. StageInv /\ [Next]_vars => StageInv'
  BY NextTypes, StepOfHandler DEF StageInv
<1>3. Init => Handler!Init
  <2> SUFFICES ASSUME Init PROVE Handler!Init
    OBVIOUS
  <2>1. \A e \in Engines : StageOf(e) = "off" /\ PendingOf(e) = FALSE
    BY DEF Init, StageOf, PendingOf
  <2> QED BY <2>1, Zenon DEF Handler!Init, PendingOf
<1>4. StageInv /\ [Next]_vars => [Handler!Next]_Handler!vars
  <2>1. StageInv /\ [Next]_vars => [Handler!Next]_<<Stage, Pending>>
    BY NextTypes, StepOfHandler DEF StageInv
  <2> QED BY <2>1 DEF Handler!vars, Stage, Pending, PendingOf
<1> QED
  BY <1>1, <1>2, <1>3, <1>4, PTL DEF Spec, Handler!Spec, ImplementsHandler

-----------------------------------------------------------------------------
(* Why a handler ends: it never waits on a connection that it has closed,  *)
(* nor for somebody who waits himself, and without its engine it has only  *)
(* so many steps to take.                                                  *)

\* The handler has something to read, or the end of the connection.
CanRead(e) == connOpen[e] /\ (wire[e] # <<>> \/ engine[e] = "closed")

\* The handler goroutine can take a step; that a read times out with nothing else
\* to do does not count as one.
HandlerCanStep(e) ==
  \/ pc[e] \in {"dial", "remove"}
  \/ pc[e] \in {"cloudinit", "await"} /\ CanRead(e)
  \/ pc[e] = "read" /\ (outer[e] # <<>> \/ signals[e] \/ ~ connOpen[e] \/ CanRead(e))
  \/ pc[e] = "forward" /\ \/ inner[e] # <<>> \/ CanRead(e)
                          \/ connOpen[e] /\ copier[e] \in {"failed", "ended"}
  \/ pc[e] = "closing" /\ copier[e] \in {"failed", "ended"}
  \/ pc[e] = "detach" /\ (connOpen[e] \/ engine[e] = "closed")

\* A copier whose IDE is gone can end, and an engine can answer a command.
CopierCanEnd(e) == copier[e] = "copying" /\ ide[e] # "open"
EngineCanAnswer(e) == engine[e] \in {"ready", "debugging"} /\ inbox[e] # <<>>

\* Where the proxy waits for somebody without a timeout he can go on: the copier,
\* for which setupForwarder waits, and the engine, for whose reply sendDetach does.
\* With a timeout it waits only for an engine that is there.
WaitsForTheLiving ==
  \A e \in Engines : pc[e] \notin {"idle", "done"} =>
    \/ HandlerCanStep(e)
    \/ pc[e] = "closing" /\ CopierCanEnd(e)
    \/ pc[e] = "await" /\ EngineCanAnswer(e)
    \/ pc[e] \in {"read", "forward"} /\ connOpen[e] /\ engine[e] \in {"ready", "debugging"}

\* Nothing is sent over, and no session is begun on, a connection to the engine
\* that setupForwarder has closed.
NoUseAfterClose ==
  \A e \in Engines :
    pc[e] \in {"cloudinit", "dial", "forward", "remove", "detach", "await"} => connOpen[e]

\* What makes that so, for one connection.
WaitInvOf(e) ==
  /\ pc[e] \in {"cloudinit", "dial", "forward", "remove", "detach", "await"} => connOpen[e]
  /\ pc[e] = "closing" /\ failed[e] => connOpen[e]
  /\ pc[e] \notin {"idle", "done"} => engine[e] # "off"
  /\ pc[e] = "cloudinit" => wire[e] # <<>> \/ engine[e] = "closed"
  /\ pc[e] = "await" => wire[e] # <<>> \/ inbox[e] # <<>> \/ engine[e] = "closed"
  /\ pc[e] = "closing" => copier[e] # "none" /\ ide[e] = "closed"

WaitInv == SessionInv /\ \A e \in Engines : WaitInvOf(e)

\* The steps that a handler has left without its engine: to take a packet, that
\* may be an init, is followed by less than twenty.
HandlerRank(label) ==
  CASE label = "dial" -> 12 [] label = "forward" -> 8 [] label = "closing" -> 7
    [] label = "remove" -> 6 [] label = "detach" -> 5 [] label = "await" -> 4
    [] label = "cloudinit" -> 2 [] label = "read" -> 1 [] OTHER -> 0

Unread(e) == Len(wire[e]) + Len(outer[e]) + Len(inner[e])

\* What is left besides: where the handler is, a copier that runs and an IDE that
\* has not left.
Errands(e) ==
  HandlerRank(pc[e]) + (IF copier[e] = "copying" THEN 1 ELSE 0)
    + (IF ide[e] = "open" THEN 1 ELSE 0)

StepsLeft(e) == 20 * Unread(e) + Errands(e)

\* Once the engine is gone every step of the handler, the copier and the IDE
\* leaves one less, and nobody else's adds to them.
HandlerRunsOut ==
  \A e \in Engines : engine[e] = "closed" =>
    /\ StepsLeft(e) \in Nat /\ StepsLeft(e)' \in Nat
    /\ engine'[e] = "closed"
    /\ StepsLeft(e)' <= StepsLeft(e)
    /\ \/ CloudConnected(e) \/ HandlerStep(e) \/ ReadFails(e) \/ ForwardError(e)
       \/ CopierStep(e) \/ IDELeaves(e)
       => StepsLeft(e)' < StepsLeft(e)

\* What a read takes off the wire it returns or keeps, one packet less in all, and
\* it takes from a connection only that is open (readResponse).
LEMMA PacketsRead ==
  ASSUME TypeOK, NEW e \in Engines, NEW b \in Seq(Packet), NEW n \in Fetch(b, e),
         TakeFromWire(e, n)
  PROVE  /\ Len(b) \in Nat /\ Len(wire[e]) \in Nat /\ n \in 0..Len(wire[e])
         /\ Len(wire'[e]) = Len(wire[e]) - n
         /\ Len(Tail(Fetched(b, e, n))) = Len(b) + n - 1
         /\ b = <<>> => n > 0 /\ connOpen[e]
<1>1. wire[e] \in Seq(Packet) /\ Len(wire[e]) \in Nat /\ Len(b) \in Nat
  BY LenProperties DEF TypeOK
<1>2. n \in 0..Len(wire[e]) /\ (b = <<>> => n > 0 /\ connOpen[e])
  BY <1>1 DEF Fetch
<1>3. wire'[e] = SubSeq(wire[e], n + 1, Len(wire[e]))
  BY DEF TypeOK, TakeFromWire
<1>4. Len(wire'[e]) = Len(wire[e]) - n
  BY <1>1, <1>2, <1>3, Dropped
<1>5. SubSeq(wire[e], 1, n) \in Seq(Packet) /\ Len(SubSeq(wire[e], 1, n)) = n
  BY <1>1, <1>2, Kept
<1>6. /\ Fetched(b, e, n) \in Seq(Packet) /\ Fetched(b, e, n) # <<>>
      /\ Len(Fetched(b, e, n)) = Len(b) + n
  BY <1>5, ConcatProperties, ReadTypes DEF Fetched
<1>7. Len(Tail(Fetched(b, e, n))) = Len(Fetched(b, e, n)) - 1
  BY <1>6, HeadTailProperties, Zenon
<1> QED
  BY <1>1, <1>2, <1>4, <1>6, <1>7

\* An init that the loop takes up comes from the connection, which is open: none is
\* left over in the reader (Handle).
LEMMA InitComesFresh ==
  ASSUME TypeOK, NEW e \in Engines, AheadIsNoInit(e), pc[e] = "read",
         NEW n \in Fetch(outer[e], e), Head(Fetched(outer[e], e, n)).kind = "init"
  PROVE  connOpen[e]
<1>1. outer[e] \in Seq(Packet) /\ wire[e] \in Seq(Packet)
  BY DEF TypeOK
<1>2. CASE outer[e] = <<>>
  BY <1>2 DEF Fetch
<1>3. CASE outer[e] # <<>>
  <2>1. n = 0
    BY <1>3 DEF Fetch
  <2>2. SubSeq(wire[e], 1, 0) = <<>>
    BY SubSeqEmpty
  <2>3. Fetched(outer[e], e, n) = outer[e]
    BY <1>1, <2>1, <2>2, ConcatEmptySeq DEF Fetched
  <2> QED BY <1>3, <2>3 DEF AheadIsNoInit
<1> QED
  BY <1>2, <1>3

\* A step that concerns one connection leaves those of the others as they are.
LEMMA OthersStayConnected ==
  ASSUME TypeOK, NEW e \in Engines, NEW f \in Engines \ {e},
         \/ Accept(e) \/ CloudConnect(e) \/ CloudConnected(e)
         \/ HandlerStep(e) \/ ReadFails(e) \/ ForwardError(e)
         \/ CopierStep(e) \/ IDELeaves(e) \/ EngineStep(e)
  PROVE  /\ connOpen'[f] = connOpen[f] /\ failed'[f] = failed[f]
         /\ copier'[f] = copier[f] /\ ide'[f] = ide[f]
<1> USE DEF TypeOK, Stay, Return, Unwind, ideVars
<1>1. CASE Accept(e) \/ CloudConnect(e) \/ CloudConnected(e)
  BY <1>1 DEF Accept, CloudConnect, CloudConnected
<1>2. CASE ReadInit(e)
  BY <1>2 DEF ReadInit
<1>3. CASE ReadStops(e) \/ ReadFails(e)
  BY <1>3 DEF ReadStops, ReadFails
<1>4. CASE DialFails(e) \/ DialSucceeds(e) \/ RemoveIDE(e)
  BY <1>4 DEF DialFails, DialSucceeds, RemoveIDE
<1>5. CASE ForwardPacket(e)
  BY <1>5 DEF ForwardPacket
<1>6. CASE ForwardTimeout(e) \/ ForwardError(e) \/ Unwound(e)
  BY <1>6 DEF ForwardTimeout, ForwardError, Unwound
<1>7. CASE SendDetach(e) \/ AwaitReply(e)
  BY <1>7 DEF SendDetach, AwaitReply
<1>8. CASE CopyCommand(e) \/ CopyEnds(e) \/ IDELeaves(e)
  BY <1>8 DEF CopyCommand, CopyEnds, IDELeaves, CopierVars
<1>9. CASE EngineStep(e)
  BY <1>9 DEF EngineStep, EngineInit, Answer, Stream, Hangup, EngineVars
<1> QED
  BY <1>1, <1>2, <1>3, <1>4, <1>5, <1>6, <1>7, <1>8, <1>9 DEF HandlerStep, CopierStep

\* Before anything has happened nobody waits.
LEMMA WaitInit == Init => WaitInv
<1> SUFFICES ASSUME Init PROVE WaitInv
  OBVIOUS
<1>1. \A e \in Engines : pc[e] = "idle"
  BY DEF Init
<1> QED
  BY <1>1, SessionInit DEF WaitInv, WaitInvOf

\* The steps of a handler keep what it waits for in place.
LEMMA HandlerWaits ==
  ASSUME WaitInv, NEW e \in Engines,
         \/ Accept(e) \/ CloudConnect(e) \/ CloudConnected(e)
         \/ HandlerStep(e) \/ ReadFails(e) \/ ForwardError(e)
  PROVE  WaitInvOf(e)'
<1> USE DEF Goto, Stay, Return, Unwind, peerVars, ideVars
<1>1. TypeOK /\ WaitInvOf(e) /\ Unmet(e) /\ AheadIsNoInit(e) /\ CopierInvOf(e)
  BY DEF WaitInv, SessionInv, CopierInv, SessionInvOf
<1>2. /\ pc \in [Engines -> Labels] /\ connOpen \in [Engines -> BOOLEAN]
      /\ failed \in [Engines -> BOOLEAN] /\ outer[e] \in Seq(Packet)
      /\ engine \in [Engines -> {"off", "ready", "debugging", "closed"}]
      /\ inbox \in [Engines -> Seq(Commands)] /\ wire \in [Engines -> Seq(Packet)]
      /\ ide \in [Engines -> {"none", "open", "left", "closed"}]
      /\ copier \in [Engines -> {"none", "copying", "failed", "ended"}]
  BY <1>1 DEF TypeOK
<1>3. ASSUME pc'[e] = "done" \/ (pc'[e] = "read" /\ engine'[e] # "off")
      PROVE  WaitInvOf(e)'
  BY <1>3 DEF WaitInvOf
<1>4. CASE Accept(e)
  BY <1>2, <1>3, <1>4 DEF Accept
<1>5. CASE CloudConnect(e)
  <2>1. CASE Return(e, "refused")
    BY <1>2, <1>3, <2>1
  <2>2. CASE /\ pc' = [pc EXCEPT ![e] = "cloudinit"]
             /\ connOpen' = [connOpen EXCEPT ![e] = TRUE]
             /\ engine' = [engine EXCEPT ![e] = "ready"]
             /\ wire' = [wire EXCEPT ![e] = <<[kind |-> "cloudinit", n |-> 0]>>]
    <3>1. <<[kind |-> "cloudinit", n |-> 0]>> # <<>>
      OBVIOUS
    <3>2. wire'[e] # <<>> /\ pc'[e] = "cloudinit" /\ connOpen'[e] /\ engine'[e] = "ready"
      BY <1>2, <2>2, <3>1
    <3> QED BY <3>2 DEF WaitInvOf
  <2> QED BY <1>5, <2>1, <2>2 DEF CloudConnect
<1>6. CASE CloudConnected(e)
  <2>1. pc[e] = "cloudinit" /\ engine' = engine /\ pc'[e] \in {"read", "done"}
    BY <1>2, <1>6 DEF CloudConnected
  <2> QED BY <1>1, <1>3, <2>1 DEF WaitInvOf
<1>7. CASE ReadInit(e)
  <2>1. PICK n \in Fetch(outer[e], e) :
          \/ pc'[e] = "done"
          \/ /\ Head(Fetched(outer[e], e, n)).kind = "init"
             /\ pc'[e] \in {"dial", "detach"} /\ connOpen' = connOpen
    BY <1>2, <1>7 DEF ReadInit
  <2>2. pc[e] = "read" /\ engine' = engine
    BY <1>7 DEF ReadInit
  <2>3. pc'[e] # "done" => connOpen'[e] /\ pc'[e] \in {"dial", "detach"}
    BY <1>1, <2>1, <2>2, InitComesFresh
  <2> QED BY <1>1, <1>3, <2>2, <2>3 DEF WaitInvOf
<1>8. CASE ReadStops(e) \/ ReadFails(e)
  BY <1>2, <1>3, <1>8 DEF ReadStops, ReadFails
<1>9. CASE DialFails(e) \/ DialSucceeds(e) \/ RemoveIDE(e)
  <2>1. /\ pc[e] \in {"dial", "remove"} /\ UNCHANGED <<engine, connOpen>>
        /\ pc'[e] \in {"remove", "forward", "detach"}
    BY <1>2, <1>9 DEF DialFails, DialSucceeds, RemoveIDE
  <2> QED BY <1>1, <2>1 DEF WaitInvOf
<1>10. CASE ForwardPacket(e) \/ ForwardTimeout(e) \/ ForwardError(e)
  <2>1. /\ pc[e] = "forward" /\ UNCHANGED engine
        /\ \/ UNCHANGED copier \/ copier' = [copier EXCEPT ![e] = "ended"]
        /\ \/ UNCHANGED <<pc, connOpen>>
           \/ /\ pc' = [pc EXCEPT ![e] = "closing"]
              /\ ide' = [ide EXCEPT ![e] = "closed"]
              /\ \/ failed' = [failed EXCEPT ![e] = FALSE]
                 \/ UNCHANGED connOpen
    BY <1>10 DEF ForwardPacket, ForwardTimeout, ForwardError
  <2>2. copier'[e] # "none" /\ connOpen[e] /\ engine'[e] # "off"
    BY <1>1, <1>2, <2>1 DEF WaitInvOf, CopierInvOf
  <2>3. \/ pc'[e] = "forward" /\ connOpen'[e]
        \/ pc'[e] = "closing" /\ ide'[e] = "closed" /\ (~ failed'[e] \/ connOpen'[e])
    BY <1>2, <2>1, <2>2
  <2> QED BY <2>2, <2>3 DEF WaitInvOf
<1>11. CASE Unwound(e)
  <2>1. /\ pc[e] = "closing" /\ UNCHANGED <<engine, connOpen>>
        /\ pc'[e] = IF failed[e] THEN "remove" ELSE "read"
    BY <1>2, <1>11 DEF Unwound
  <2> QED BY <1>1, <2>1 DEF WaitInvOf
<1>12. CASE SendDetach(e)
  <2>1. /\ pc[e] = "detach" /\ UNCHANGED <<engine, connOpen>>
        /\ \/ pc'[e] = "read"
           \/ pc'[e] = "await" /\ inbox' = [inbox EXCEPT ![e] = Append(@, "detach")]
    BY <1>2, <1>12 DEF SendDetach
  <2>2. Append(inbox[e], "detach") # <<>>
    <3>1. inbox[e] \in Seq(Commands) /\ "detach" \in Commands
      BY <1>2 DEF Commands
    <3> QED BY <3>1, AppendProperties, Zenon
  <2>3. pc'[e] = "read" \/ (pc'[e] = "await" /\ inbox'[e] # <<>>)
    BY <1>2, <2>1, <2>2
  <2> QED BY <1>1, <2>1, <2>3 DEF WaitInvOf
<1>13. CASE AwaitReply(e)
  <2>1. pc[e] = "await" /\ engine' = engine /\ pc'[e] = "read"
    BY <1>2, <1>13 DEF AwaitReply
  <2> QED BY <1>1, <1>3, <2>1 DEF WaitInvOf
<1> QED
  BY <1>4, <1>5, <1>6, <1>7, <1>8, <1>9, <1>10, <1>11, <1>12, <1>13 DEF HandlerStep

\* So do the steps of its copier, its IDE and its engine.
LEMMA PeersKeepWaiting ==
  ASSUME WaitInv, NEW e \in Engines, CopierStep(e) \/ IDELeaves(e) \/ EngineStep(e)
  PROVE  WaitInvOf(e)'
<1>1. TypeOK /\ WaitInvOf(e) /\ CopierInvOf(e)
  BY DEF WaitInv, SessionInv, CopierInv
<1>2. /\ wire \in [Engines -> Seq(Packet)] /\ inbox \in [Engines -> Seq(Commands)]
      /\ engine \in [Engines -> {"off", "ready", "debugging", "closed"}]
      /\ ide \in [Engines -> {"none", "open", "left", "closed"}]
      /\ copier \in [Engines -> {"none", "copying", "failed", "ended"}]
      /\ sent[e] \in Nat
  BY <1>1 DEF TypeOK
<1>3. UNCHANGED <<pc, connOpen, failed>>
  BY DEF CopierStep, CopyCommand, CopyEnds, IDELeaves, CopierVars, EngineStep, EngineInit,
         Answer, Stream, Hangup, EngineVars
<1>4. CASE CopierStep(e) \/ IDELeaves(e)
  <2>1. UNCHANGED <<engine, wire>>
    BY <1>4 DEF CopierStep, CopyCommand, CopyEnds, IDELeaves, CopierVars
  <2>2. \/ /\ copier[e] = "copying" /\ UNCHANGED ide
           /\ \/ UNCHANGED copier
              \/ /\ UNCHANGED inbox
                 /\ \E state \in {"ended", "failed"} : copier' = [copier EXCEPT ![e] = state]
        \/ /\ UNCHANGED <<inbox, copier>>
           /\ ide[e] = "open" /\ ide' = [ide EXCEPT ![e] = "left"]
    BY <1>4 DEF CopierStep, CopyCommand, CopyEnds, IDELeaves, ideVars
  <2>3. /\ copier[e] # "none" => copier'[e] # "none"
        /\ ide[e] = "closed" => ide'[e] = "closed"
        /\ pc[e] = "await" => inbox'[e] = inbox[e]
    BY <1>1, <1>2, <2>2 DEF CopierInvOf, Quiet
  <2> QED BY <1>1, <1>3, <2>1, <2>3 DEF WaitInvOf
<1>5. CASE EngineStep(e)
  <2>1. UNCHANGED <<ide, copier>>
    BY <1>5 DEF EngineStep, EngineInit, Answer, Stream, Hangup, EngineVars, ideVars
  <2>2. wire'[e] # <<>> \/ engine'[e] = "closed"
    <3>1. CASE EngineInit(e) \/ Answer(e)
      <4>1. PICK packet \in Packet : wire' = [wire EXCEPT ![e] = Append(@, packet)]
        <5>1. sent[e] + 1 \in Nat
          BY <1>2
        <5>2. \A kind \in {"init", "done", "response"} :
                [kind |-> kind, n |-> sent[e] + 1] \in Packet
          BY <5>1 DEF Packet, Kinds
        <5> QED BY <3>1, <5>2 DEF EngineInit, Answer, Send
      <4>2. wire[e] \in Seq(Packet)
        BY <1>2
      <4>3. Append(wire[e], packet) # <<>>
        BY <4>2, AppendProperties, Zenon
      <4> QED BY <1>2, <4>1, <4>3
    <3>2. CASE Stream(e)
      <4>1. wire[e] \in Seq(Packet) /\ [kind |-> "stream", n |-> 0] \in Packet
        BY <1>2 DEF Packet, Kinds
      <4>2. Append(wire[e], [kind |-> "stream", n |-> 0]) # <<>>
        BY <4>1, AppendProperties, Zenon
      <4> QED BY <1>2, <3>2, <4>2 DEF Stream
    <3>3. CASE Hangup(e)
      BY <1>2, <3>3 DEF Hangup
    <3> QED BY <1>5, <3>1, <3>2, <3>3 DEF EngineStep
  <2>3. engine'[e] # "off"
    BY <1>2, <1>5 DEF EngineStep, EngineInit, Answer, Stream, Hangup, peerVars
  <2> QED BY <1>1, <1>3, <2>1, <2>2, <2>3 DEF WaitInvOf
<1> QED
  BY <1>4, <1>5

\* The invariant is inductive.
LEMMA WaitStep == WaitInv /\ [Next]_vars => WaitInv'
<1> SUFFICES ASSUME WaitInv, [Next]_vars PROVE WaitInv'
  OBVIOUS
<1>1. TypeOK /\ SessionInv' /\ \A e \in Engines : WaitInvOf(e)
  BY SessionStep DEF WaitInv, SessionInv, CopierInv
<1>2. ASSUME NEW e \in Engines,
             \/ Accept(e) \/ CloudConnect(e) \/ CloudConnected(e)
             \/ HandlerStep(e) \/ ReadFails(e) \/ ForwardError(e)
             \/ CopierStep(e) \/ IDELeaves(e) \/ EngineStep(e)
      PROVE  WaitInv'
  <2>1. WaitInvOf(e)'
    BY <1>2, HandlerWaits, PeersKeepWaiting
  <2>2. ASSUME NEW f \in Engines \ {e} PROVE WaitInvOf(f)'
    <3>1. /\ Same(f) /\ connOpen'[f] = connOpen[f] /\ failed'[f] = failed[f]
          /\ copier'[f] = copier[f] /\ ide'[f] = ide[f]
      BY <1>1, <1>2, OthersAreTheSame, OthersStayConnected
    <3> QED BY <1>1, <3>1 DEF Same, WaitInvOf
  <2> QED BY <1>1, <2>1, <2>2 DEF WaitInv
<1>3. CASE \/ \E k \in Keys : ProxyInit(k) \/ ProxyStop(k)
           \/ Interrupt \/ UNCHANGED vars
  <2>1. UNCHANGED <<pc, connOpen, failed, engine, wire, inbox, copier, ide>>
    BY <1>3 DEF ProxyInit, ProxyStop, CommandVars, Interrupt, vars, peerVars, ideVars
  <2> QED BY <1>1, <2>1 DEF WaitInv, WaitInvOf
<1> QED
  BY <1>2, <1>3, Zenon DEF Next

\* Once setupForwarder has closed the connection to the engine, Handle's loop only
\* finds that out: an init that is still in its reader is never served.
THEOREM ClosedIsClosed == Spec => []NoUseAfterClose
<1>1. WaitInv => NoUseAfterClose
  BY DEF WaitInv, WaitInvOf, NoUseAfterClose
<1> QED BY <1>1, WaitInit, WaitStep, PTL DEF Spec

\* A handler that cannot take a step waits for a goroutine or a peer that can: the
\* copier's channel and the reply to detach never leave two parties waiting on each
\* other (setupForwarder's deferred function, sendDetach).
THEOREM NobodyWaitsForTheDead == Spec => []WaitsForTheLiving
<1>1. ASSUME WaitInv, NEW e \in Engines, pc[e] \notin {"idle", "done"}
      PROVE  \/ HandlerCanStep(e)
             \/ pc[e] = "closing" /\ CopierCanEnd(e)
             \/ pc[e] = "await" /\ EngineCanAnswer(e)
             \/ pc[e] \in {"read", "forward"} /\ connOpen[e] /\ engine[e] \in {"ready", "debugging"}
  <2>1. /\ pc[e] \in Labels /\ connOpen[e] \in BOOLEAN
        /\ engine[e] \in {"off", "ready", "debugging", "closed"}
        /\ copier[e] \in {"none", "copying", "failed", "ended"}
    BY <1>1 DEF WaitInv, SessionInv, CopierInv, TypeOK
  <2>2. WaitInvOf(e)
    BY <1>1 DEF WaitInv
  <2> QED
    BY <1>1, <2>1, <2>2
       DEF WaitInvOf, HandlerCanStep, CanRead, CopierCanEnd, EngineCanAnswer, Labels
<1>2. WaitInv => WaitsForTheLiving
  BY <1>1 DEF WaitsForTheLiving
<1> QED BY <1>2, WaitInit, WaitStep, PTL DEF Spec

\* The steps left are a number, in which unread packets weigh most.
LEMMA StepsAreNumbers ==
  ASSUME TypeOK, NEW e \in Engines
  PROVE  /\ Len(wire[e]) \in Nat /\ Len(outer[e]) \in Nat /\ Len(inner[e]) \in Nat
         /\ Unread(e) \in Nat /\ Errands(e) \in 0..14 /\ StepsLeft(e) \in Nat
<1>1. wire[e] \in Seq(Packet) /\ outer[e] \in Seq(Packet) /\ inner[e] \in Seq(Packet)
  BY DEF TypeOK
<1>2. Len(wire[e]) \in Nat /\ Len(outer[e]) \in Nat /\ Len(inner[e]) \in Nat
  BY <1>1, LenProperties
<1>3. HandlerRank(pc[e]) \in 0..12
  BY DEF HandlerRank
<1>4. Errands(e) \in 0..14
  BY <1>3 DEF Errands
<1>5. Unread(e) \in Nat
  <2> DEFINE w == Len(wire[e])
             o == Len(outer[e])
             i == Len(inner[e])
  <2>1. w \in Nat /\ o \in Nat /\ i \in Nat /\ Unread(e) = w + o + i
    BY <1>2 DEF Unread
  <2> HIDE DEF w, o, i
  <2> QED BY <2>1
<1>6. StepsLeft(e) \in Nat
  BY <1>4, <1>5 DEF StepsLeft
<1> QED
  BY <1>2, <1>4, <1>5, <1>6

\* They are after a step too.
LEMMA StepsStayNumbers ==
  ASSUME TypeOK', NEW e \in Engines
  PROVE  Unread(e)' \in Nat /\ Errands(e)' \in 0..14 /\ StepsLeft(e)' \in Nat
<1>1. wire'[e] \in Seq(Packet) /\ outer'[e] \in Seq(Packet) /\ inner'[e] \in Seq(Packet)
  BY DEF TypeOK
<1>2. Len(wire'[e]) \in Nat /\ Len(outer'[e]) \in Nat /\ Len(inner'[e]) \in Nat
  BY <1>1, LenProperties
<1>3. HandlerRank(pc'[e]) \in 0..12
  BY DEF HandlerRank
<1>4. Errands(e)' \in 0..14
  BY <1>3 DEF Errands
<1>5. Unread(e)' \in Nat
  <2> DEFINE w == Len(wire'[e])
             o == Len(outer'[e])
             i == Len(inner'[e])
  <2>1. w \in Nat /\ o \in Nat /\ i \in Nat /\ Unread(e)' = w + o + i
    BY <1>2 DEF Unread
  <2> HIDE DEF w, o, i
  <2> QED BY <2>1
<1>6. StepsLeft(e)' \in Nat
  BY <1>4, <1>5 DEF StepsLeft
<1> QED
  BY <1>4, <1>5, <1>6

\* A packet less outweighs whatever there is to do with it.
LEMMA LessToRead ==
  ASSUME TypeOK, TypeOK', NEW e \in Engines, Unread(e)' < Unread(e)
  PROVE  StepsLeft(e)' < StepsLeft(e)
<1>1. /\ Unread(e) \in Nat /\ Errands(e) \in 0..14
      /\ Unread(e)' \in Nat /\ Errands(e)' \in 0..14
  BY StepsAreNumbers, StepsStayNumbers
<1>2. Unread(e)' + 1 <= Unread(e)
  BY <1>1
<1> QED
  BY <1>1, <1>2 DEF StepsLeft

\* So does an errand less when nothing was read.
LEMMA LessToDo ==
  ASSUME TypeOK, TypeOK', NEW e \in Engines,
         Unread(e)' <= Unread(e), Errands(e)' < Errands(e)
  PROVE  StepsLeft(e)' < StepsLeft(e)
<1>1. /\ Unread(e) \in Nat /\ Errands(e) \in 0..14
      /\ Unread(e)' \in Nat /\ Errands(e)' \in 0..14
  BY StepsAreNumbers, StepsStayNumbers
<1> QED
  BY <1>1 DEF StepsLeft

\* Each way of reading takes packets away: the loop and the forwarder one, the
\* readers of RunCommand as many as they fetch.
LEMMA ReadingRunsOut ==
  ASSUME TypeOK, TypeOK', NEW e \in Engines,
         \/ ReadInit(e) \/ ForwardPacket(e)
         \/ /\ CloudConnected(e) \/ AwaitReply(e)
            /\ \E n \in Fetch(<<>>, e) : TakeFromWire(e, n)
  PROVE  StepsLeft(e)' < StepsLeft(e)
<1> USE DEF readers
<1>1. /\ outer \in [Engines -> Seq(Packet)] /\ inner \in [Engines -> Seq(Packet)]
      /\ outer[e] \in Seq(Packet) /\ inner[e] \in Seq(Packet) /\ <<>> \in Seq(Packet)
      /\ Len(wire[e]) \in Nat /\ Len(outer[e]) \in Nat /\ Len(inner[e]) \in Nat
  BY StepsAreNumbers, EmptySeq DEF TypeOK
<1>2. CASE ReadInit(e)
  <2>1. PICK n \in Fetch(outer[e], e) :
          /\ outer' = [outer EXCEPT ![e] = Tail(Fetched(outer[e], e, n))]
          /\ TakeFromWire(e, n)
          /\ UNCHANGED inner
    BY <1>2, Zenon DEF ReadInit
  <2>2. outer'[e] = Tail(Fetched(outer[e], e, n)) /\ inner'[e] = inner[e]
    BY <1>1, <2>1
  <2>3. /\ Len(wire'[e]) = Len(wire[e]) - n /\ n \in 0..Len(wire[e])
        /\ Len(outer'[e]) = Len(outer[e]) + n - 1
        /\ Len(inner'[e]) = Len(inner[e])
    BY <1>1, <2>1, <2>2, PacketsRead
  <2>4. Unread(e)' < Unread(e)
    <3> DEFINE w == Len(wire[e])
               o == Len(outer[e])
               i == Len(inner[e])
    <3>1. /\ w \in Nat /\ o \in Nat /\ i \in Nat /\ n \in 0..w
          /\ Unread(e) = w + o + i
          /\ Unread(e)' = (w - n) + (o + n - 1) + i
      BY <1>1, <2>3 DEF Unread
    <3> HIDE DEF w, o, i
    <3> QED BY <3>1
  <2> QED BY <2>4, LessToRead
<1>3. CASE ForwardPacket(e)
  <2>1. PICK n \in Fetch(inner[e], e) :
          /\ inner' = [inner EXCEPT ![e] = Tail(Fetched(inner[e], e, n))]
          /\ TakeFromWire(e, n)
          /\ UNCHANGED outer
    BY <1>3, Zenon DEF ForwardPacket
  <2>2. inner'[e] = Tail(Fetched(inner[e], e, n)) /\ outer'[e] = outer[e]
    BY <1>1, <2>1
  <2>3. /\ Len(wire'[e]) = Len(wire[e]) - n /\ n \in 0..Len(wire[e])
        /\ Len(inner'[e]) = Len(inner[e]) + n - 1
    BY <1>1, <2>1, <2>2, PacketsRead
  <2>4. Unread(e)' < Unread(e)
    BY <1>1, <2>2, <2>3 DEF Unread
  <2> QED BY <2>4, LessToRead
<1>4. CASE /\ CloudConnected(e) \/ AwaitReply(e)
           /\ \E n \in Fetch(<<>>, e) : TakeFromWire(e, n)
  <2>1. PICK n \in Fetch(<<>>, e) : TakeFromWire(e, n)
    BY <1>4
  <2>2. outer'[e] = outer[e] /\ inner'[e] = inner[e]
    BY <1>4 DEF CloudConnected, AwaitReply
  <2>3. Len(wire'[e]) = Len(wire[e]) - n /\ n \in 0..Len(wire[e]) /\ n > 0
    BY <1>1, <2>1, PacketsRead
  <2>4. Unread(e)' < Unread(e)
    BY <1>1, <2>2, <2>3 DEF Unread
  <2> QED BY <2>4, LessToRead
<1> QED
  BY <1>2, <1>3, <1>4

\* Without its engine every step of a connection's handler, copier or IDE is one
\* step less.
LEMMA EveryStepIsOneLess ==
  ASSUME TypeOK, TypeOK', NEW e \in Engines, engine[e] = "closed",
         \/ CloudConnected(e) \/ HandlerStep(e) \/ ReadFails(e) \/ ForwardError(e)
         \/ CopierStep(e) \/ IDELeaves(e)
  PROVE  StepsLeft(e)' < StepsLeft(e)
<1> USE DEF Goto, Stay, Return, Unwind, readers, ideVars
<1>1. /\ pc \in [Engines -> Labels] /\ inner \in [Engines -> Seq(Packet)]
      /\ copier \in [Engines -> {"none", "copying", "failed", "ended"}]
      /\ ide \in [Engines -> {"none", "open", "left", "closed"}]
      /\ Len(wire[e]) \in Nat /\ Len(outer[e]) \in Nat /\ Len(inner[e]) \in Nat
  BY StepsAreNumbers DEF TypeOK
<1>2. ASSUME UNCHANGED <<wire, outer, inner>>, Errands(e)' < Errands(e)
      PROVE  StepsLeft(e)' < StepsLeft(e)
  <2>1. Unread(e)' <= Unread(e)
    BY <1>1, <1>2 DEF Unread
  <2> QED BY <1>2, <2>1, LessToDo
<1>3. CASE CloudConnected(e) \/ AwaitReply(e)
  <2>1. \/ \E n \in Fetch(<<>>, e) : TakeFromWire(e, n)
        \/ /\ UNCHANGED <<wire, outer, inner, copier, ide>>
           /\ \/ pc[e] = "cloudinit" /\ pc' = [pc EXCEPT ![e] = "done"]
              \/ pc[e] = "await" /\ pc' = [pc EXCEPT ![e] = "read"]
    BY <1>3, Zenon DEF CloudConnected, AwaitReply
  <2>2. \/ \E n \in Fetch(<<>>, e) : TakeFromWire(e, n)
        \/ UNCHANGED <<wire, outer, inner>> /\ Errands(e)' < Errands(e)
    BY <1>1, <2>1 DEF Errands, HandlerRank
  <2> QED BY <1>2, <1>3, <2>2, ReadingRunsOut
<1>4. CASE ReadInit(e) \/ ForwardPacket(e)
  BY <1>4, ReadingRunsOut
<1>5. CASE ReadStops(e) \/ ReadFails(e)
  <2>1. /\ UNCHANGED <<wire, outer, inner, copier, ide>>
        /\ pc[e] = "read" /\ pc'[e] = "done"
    BY <1>1, <1>5 DEF ReadStops, ReadFails
  <2> QED BY <1>2, <2>1 DEF Errands, HandlerRank
<1>6. CASE DialFails(e) \/ RemoveIDE(e) \/ SendDetach(e)
  <2>1. /\ UNCHANGED <<wire, outer, inner, copier, ide>>
        /\ \/ pc[e] = "dial" /\ pc'[e] = "remove"
           \/ pc[e] = "remove" /\ pc'[e] = "detach"
           \/ pc[e] = "detach" /\ pc'[e] \in {"await", "read"}
    BY <1>1, <1>6 DEF DialFails, RemoveIDE, SendDetach
  <2> QED BY <1>2, <2>1 DEF Errands, HandlerRank
<1>7. CASE DialSucceeds(e)
  <2>1. /\ UNCHANGED <<wire, outer, inner>>
        /\ pc[e] = "dial" /\ pc'[e] = "forward"
    BY <1>1, <1>7 DEF DialSucceeds
  <2> QED BY <1>2, <2>1 DEF Errands, HandlerRank
<1>8. CASE ForwardTimeout(e)
  BY <1>8 DEF ForwardTimeout, TimedOut
<1>9. CASE ForwardError(e)
  <2>1. /\ UNCHANGED <<wire, outer, inner, copier>>
        /\ pc[e] = "forward" /\ pc'[e] = "closing" /\ ide'[e] = "closed"
    BY <1>1, <1>9 DEF ForwardError
  <2> QED BY <1>2, <2>1 DEF Errands, HandlerRank
<1>10. CASE Unwound(e)
  <2>1. /\ UNCHANGED <<wire, outer>> /\ inner'[e] = <<>>
        /\ pc[e] = "closing" /\ pc'[e] \in {"remove", "read"}
        /\ copier'[e] = "none" /\ ide'[e] = "none"
    BY <1>1, <1>10 DEF Unwound
  <2>2. Len(inner'[e]) = 0
    BY <2>1, EmptySeq
  <2>3. Unread(e)' <= Unread(e)
    BY <1>1, <2>1, <2>2 DEF Unread
  <2>4. Errands(e)' < Errands(e)
    BY <2>1 DEF Errands, HandlerRank
  <2> QED BY <2>3, <2>4, LessToDo
<1>11. CASE CopierStep(e) \/ IDELeaves(e)
  <2>1. /\ UNCHANGED <<wire, outer, inner, pc>>
        /\ \/ copier[e] = "copying" /\ copier'[e] \in {"ended", "failed"} /\ UNCHANGED ide
           \/ ide[e] = "open" /\ ide'[e] = "left" /\ UNCHANGED copier
    BY <1>1, <1>11 DEF CopierStep, CopyCommand, CopyEnds, IDELeaves, CopierVars
  <2>2. HandlerRank(pc[e]) \in 0..12
    BY DEF HandlerRank
  <2>3. Errands(e)' < Errands(e)
    BY <2>1, <2>2 DEF Errands
  <2> QED BY <1>2, <2>1, <2>3
<1> QED
  BY <1>3, <1>4, <1>5, <1>6, <1>7, <1>8, <1>9, <1>10, <1>11 DEF HandlerStep

\* Once its engine is gone nothing keeps a handler going: packets still unread, a
\* copier to wait for and an IDE that hangs on are used up, and what other handlers
\* and IDEs do adds nothing (Handle, setupForwarder, sendDetach).
THEOREM EveryHandlerRunsOut == Spec => [][HandlerRunsOut]_vars
<1>1. ASSUME SessionInv, Next
      PROVE  HandlerRunsOut
  <2> SUFFICES ASSUME NEW e \in Engines, engine[e] = "closed"
               PROVE  /\ StepsLeft(e) \in Nat /\ StepsLeft(e)' \in Nat
                      /\ engine'[e] = "closed"
                      /\ StepsLeft(e)' <= StepsLeft(e)
                      /\ \/ CloudConnected(e) \/ HandlerStep(e) \/ ReadFails(e)
                         \/ ForwardError(e) \/ CopierStep(e) \/ IDELeaves(e)
                         => StepsLeft(e)' < StepsLeft(e)
    BY DEF HandlerRunsOut
  <2>1. TypeOK /\ TypeOK' /\ Unmet(e)
    BY <1>1, NextTypes DEF SessionInv, SessionInvOf, CopierInv
  <2>2. StepsLeft(e) \in Nat /\ StepsLeft(e)' \in Nat
    BY <2>1, StepsAreNumbers, StepsStayNumbers
  <2>3. CASE \/ CloudConnected(e) \/ HandlerStep(e) \/ ReadFails(e) \/ ForwardError(e)
             \/ CopierStep(e) \/ IDELeaves(e)
    <3>1. StepsLeft(e)' < StepsLeft(e)
      BY <2>1, <2>3, EveryStepIsOneLess
    <3>2. engine' = engine
      BY <2>3 DEF CloudConnected, HandlerStep, ReadInit, ReadStops, ReadFails, DialFails,
         DialSucceeds, ForwardPacket, ForwardTimeout, ForwardError, Unwound, RemoveIDE,
         SendDetach, AwaitReply, CopierStep, CopyCommand, CopyEnds, CopierVars, IDELeaves,
         peerVars
    <3> QED BY <2>2, <3>1, <3>2
  <2>4. ASSUME UNCHANGED <<engine[e], pc[e], wire[e], outer[e], inner[e], copier[e], ide[e]>>
        PROVE  engine'[e] = "closed" /\ StepsLeft(e)' = StepsLeft(e)
    BY <2>4 DEF StepsLeft, Unread, Errands
  <2>5. CASE ~ (\/ CloudConnected(e) \/ HandlerStep(e) \/ ReadFails(e) \/ ForwardError(e)
                \/ CopierStep(e) \/ IDELeaves(e))
    <3>1. ~ (Accept(e) \/ CloudConnect(e) \/ EngineStep(e))
      BY <2>1 DEF Unmet, Accept, CloudConnect, EngineStep, EngineInit, Answer, Stream, Hangup
    <3>2. ASSUME NEW f \in Engines \ {e},
                 \/ Accept(f) \/ CloudConnect(f) \/ CloudConnected(f)
                 \/ HandlerStep(f) \/ ReadFails(f) \/ ForwardError(f)
                 \/ CopierStep(f) \/ IDELeaves(f) \/ EngineStep(f)
          PROVE  engine'[e] = "closed" /\ StepsLeft(e)' = StepsLeft(e)
      <4>1. e \in Engines \ {f}
        OBVIOUS
      <4>2. Same(e) /\ copier'[e] = copier[e] /\ ide'[e] = ide[e]
        BY <2>1, <3>2, <4>1, OthersAreTheSame, OthersStayConnected
      <4> QED BY <2>4, <4>2 DEF Same
    <3>3. engine'[e] = "closed" /\ StepsLeft(e)' = StepsLeft(e)
      <4>1. CASE (\E k \in Keys : ProxyInit(k) \/ ProxyStop(k)) \/ Interrupt
        <5>1. UNCHANGED <<engine, pc, wire, outer, inner, copier, ide>>
          BY <4>1 DEF ProxyInit, ProxyStop, CommandVars, Interrupt, peerVars, readers, ideVars
        <5> QED BY <2>4, <5>1
      <4>2. CASE ~ ((\E k \in Keys : ProxyInit(k) \/ ProxyStop(k)) \/ Interrupt)
        <5>1. PICK f \in Engines :
                 \/ Accept(f) \/ CloudConnect(f) \/ CloudConnected(f)
                 \/ HandlerStep(f) \/ ReadFails(f) \/ ForwardError(f)
                 \/ CopierStep(f) \/ IDELeaves(f) \/ EngineStep(f)
          BY <1>1, <4>2, Zenon DEF Next
        <5>2. f # e
          BY <2>5, <3>1, <5>1, Zenon
        <5> QED BY <3>2, <5>1, <5>2
      <4> QED BY <4>1, <4>2
    <3> QED BY <2>2, <2>5, <3>3
  <2> QED BY <2>3, <2>5
<1>2. SessionInv /\ [Next]_vars => [HandlerRunsOut]_vars
  BY <1>1
<1> QED BY <1>2, SessionInit, SessionStep, PTL DEF Spec

-----------------------------------------------------------------------------
(* The init that is thrown away with the inner reader is one of Cloud's.   *)

\* An Xdebug process sends a single init, and Handle's reader is the one to read it.
NoInitInside(e) == ~ Cloud => \A i \in 1..Len(inner[e]) : inner[e][i].kind # "init"

InsideInv == SessionInv /\ \A e \in Engines : NoInitInside(e)

\* Nothing that setupForwarder fetches from an Xdebug process is an init.
LEMMA PacketsInside ==
  ASSUME SessionInv, NEW e \in Engines, NoInitInside(e), ForwardPacket(e)
  PROVE  NoInitInside(e)'
<1> SUFFICES ASSUME ~ Cloud, NEW i \in 1..Len(inner'[e])
             PROVE  inner'[e][i].kind # "init"
  BY DEF NoInitInside
<1>1. /\ TypeOK /\ pc[e] = "forward" /\ DebugsOnce(e)
      /\ inner[e] \in Seq(Packet) /\ wire[e] \in Seq(Packet)
      /\ Len(inner[e]) \in Nat /\ Len(wire[e]) \in Nat
  BY LenProperties DEF SessionInv, CopierInv, SessionInvOf, TypeOK, ForwardPacket
<1>2. PICK n \in Fetch(inner[e], e) :
        inner' = [inner EXCEPT ![e] = Tail(Fetched(inner[e], e, n))]
  BY Zenon DEF ForwardPacket
<1>3. n \in 0..Len(wire[e]) /\ n \in Nat
  BY <1>1, <1>2, FetchBounds
<1>4. \A j \in 1..Len(wire[e]) : wire[e][j].kind # "init"
  BY <1>1 DEF DebugsOnce, Fresh, Begun
<1> DEFINE b == inner[e]
           cut == SubSeq(wire[e], 1, n)
           data == b \o cut
<1>5. cut \in Seq(Packet) /\ Len(cut) = n /\ \A j \in 1..n : cut[j] = wire[e][j]
  BY <1>1, <1>3, Kept
<1>6. \A j \in 1..n : cut[j].kind # "init"
  <2>1. \A j \in 1..n : j \in 1..Len(wire[e])
    BY <1>1, <1>3
  <2> QED BY <1>4, <1>5, <2>1
<1>7. /\ data \in Seq(Packet) /\ Len(data) = Len(b) + n
      /\ \A j \in 1..(Len(b) + n) : data[j] = IF j <= Len(b) THEN b[j] ELSE cut[j - Len(b)]
  BY <1>1, <1>5, ConcatProperties
<1>8. \A j \in 1..(Len(b) + n) : data[j].kind # "init"
  <2> SUFFICES ASSUME NEW j \in 1..(Len(b) + n)
               PROVE  data[j].kind # "init"
    OBVIOUS
  <2> HIDE DEF data, cut
  <2>1. CASE j <= Len(b)
    BY <1>1, <1>3, <1>7, <2>1 DEF NoInitInside
  <2>2. CASE ~ (j <= Len(b))
    <3>1. j - Len(b) \in 1..n
      BY <1>1, <1>3, <2>2
    <3> QED BY <1>6, <1>7, <2>2, <3>1
  <2> QED BY <2>1, <2>2
<1>9. data # <<>> /\ inner'[e] = Tail(data)
  BY <1>1, <1>2, ReadTypes DEF Fetched, TypeOK
<1> HIDE DEF data, cut
<1>10. /\ Len(Tail(data)) = Len(data) - 1
       /\ \A j \in 1..Len(Tail(data)) : Tail(data)[j] = data[j + 1]
  BY <1>7, <1>9, HeadTailProperties, Zenon
<1>11. i \in 1..Len(Tail(data)) /\ i + 1 \in 1..(Len(b) + n)
  BY <1>1, <1>3, <1>7, <1>9, <1>10
<1> QED
  BY <1>8, <1>9, <1>10, <1>11

\* The invariant is inductive.
LEMMA InsideStep == InsideInv /\ [Next]_vars => InsideInv'
<1> SUFFICES ASSUME InsideInv, [Next]_vars PROVE InsideInv'
  OBVIOUS
<1>1. TypeOK /\ SessionInv /\ SessionInv' /\ \A e \in Engines : NoInitInside(e)
  BY SessionStep DEF InsideInv, SessionInv, CopierInv
<1>2. ASSUME NEW e \in Engines,
             \/ Accept(e) \/ CloudConnect(e) \/ CloudConnected(e)
             \/ HandlerStep(e) \/ ReadFails(e) \/ ForwardError(e)
             \/ CopierStep(e) \/ IDELeaves(e) \/ EngineStep(e)
      PROVE  InsideInv'
  <2>1. NoInitInside(e)'
    <3>1. CASE ForwardPacket(e)
      BY <1>1, <3>1, PacketsInside
    <3>2. CASE Unwound(e)
      <4>1. inner'[e] = <<>>
        BY <1>1, <3>2 DEF Unwound, TypeOK
      <4>2. Len(inner'[e]) = 0
        BY <4>1, EmptySeq
      <4> QED BY <4>2 DEF NoInitInside
    <3>3. CASE ~ (ForwardPacket(e) \/ Unwound(e))
      <4>1. inner' = inner
        BY <1>2, <3>3
           DEF Accept, CloudConnect, CloudConnected, HandlerStep, ReadInit, ReadStops, ReadFails,
               DialFails, DialSucceeds, ForwardTimeout, ForwardError, RemoveIDE, SendDetach,
               AwaitReply, CopierStep, CopyCommand, CopyEnds, CopierVars, IDELeaves, EngineStep,
               EngineInit, Answer, Stream, Hangup, EngineVars, readers
      <4> QED BY <1>1, <4>1 DEF NoInitInside
    <3> QED BY <3>1, <3>2, <3>3
  <2>2. ASSUME NEW f \in Engines \ {e} PROVE NoInitInside(f)'
    <3>1. Same(f)
      BY <1>1, <1>2, OthersAreTheSame
    <3> QED BY <1>1, <3>1 DEF Same, NoInitInside
  <2> QED BY <1>1, <2>1, <2>2 DEF InsideInv
<1>3. CASE \/ \E k \in Keys : ProxyInit(k) \/ ProxyStop(k)
           \/ Interrupt \/ UNCHANGED vars
  <2>1. inner' = inner
    BY <1>3 DEF ProxyInit, ProxyStop, CommandVars, Interrupt, vars, readers
  <2> QED BY <1>1, <2>1 DEF InsideInv, NoInitInside
<1> QED
  BY <1>2, <1>3, Zenon DEF Next

\* Without Cloud what the comment at client.go:105 says does hold: no init is lost
\* with the reader of setupForwarder when a session is over.
THEOREM LocalInitsAreNotLost == Spec => [](~ Cloud => NextInitStillReadable)
<1>1. Init => InsideInv
  <2> SUFFICES ASSUME Init PROVE InsideInv
    OBVIOUS
  <2>1. ASSUME NEW e \in Engines PROVE NoInitInside(e)
    <3>1. inner[e] = <<>>
      BY DEF Init
    <3>2. Len(inner[e]) = 0
      BY <3>1, EmptySeq
    <3> QED BY <3>2 DEF NoInitInside
  <2> QED BY <2>1, SessionInit DEF InsideInv
<1>2. InsideInv => (~ Cloud => NextInitStillReadable)
  BY DEF InsideInv, NoInitInside, NextInitStillReadable
<1> QED BY <1>1, <1>2, InsideStep, PTL DEF Spec

=============================================================================
