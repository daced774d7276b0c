------------------------- MODULE ProxyLifecycleProofs -------------------------
(***************************************************************************)
(* The WaitGroup of dbgpProxy counts right for any servers, connections    *)
(* and signals, and main waits for all that it counts.                     *)
(***************************************************************************)
EXTENDS ProxyLifecycle, FiniteSetTheorems, TLAPS

\* Nothing is connected to Cloud before CloudConnect is done.
CloudIdle ==
  main \in {"unregister", "resolve", "connect"} => \A c \in CloudConns : conn[c] = "none"

IInv == TypeOK /\ GroupCounts /\ WaitsForCounted /\ CloudIdle

USE DEF MainLabels, ListenerLabels, ConnLabels, Running, options

-----------------------------------------------------------------------------
\* What is counted is finite, as a part of all servers and connections.
LEMMA CountedFinite ==
  /\ IsFiniteSet(CountedListeners) /\ Cardinality(CountedListeners) \in Nat
  /\ IsFiniteSet(CountedConns) /\ Cardinality(CountedConns) \in Nat
<1>1. CountedListeners \in SUBSET Listeners /\ CountedConns \in SUBSET Conns
  BY DEF CountedListeners, CountedConns
<1>2. IsFiniteSet(CountedListeners) /\ IsFiniteSet(CountedConns)
  BY <1>1, ServersAssumption, FS_Subset
<1> QED
  BY <1>2, FS_CardinalityType

\* The same for the next state.
LEMMA CountedFiniteNext ==
  /\ IsFiniteSet(CountedListeners') /\ Cardinality(CountedListeners') \in Nat
  /\ IsFiniteSet(CountedConns') /\ Cardinality(CountedConns') \in Nat
<1>1. CountedListeners' \in SUBSET Listeners /\ CountedConns' \in SUBSET Conns
  BY DEF CountedListeners, CountedConns
<1>2. IsFiniteSet(CountedListeners') /\ IsFiniteSet(CountedConns')
  BY <1>1, ServersAssumption, FS_Subset
<1> QED
  BY <1>2, FS_CardinalityType

\* A step that moves nobody into or out of what is counted, and leaves the group
\* alone, keeps the count.
LEMMA KeepsCount ==
  ASSUME GroupCounts, Running' => Running, group' = group,
         CountedListeners' = CountedListeners, CountedConns' = CountedConns
  PROVE  GroupCounts'
BY DEF GroupCounts

\* Who is counted where is decided by listener and conn alone.
LEMMA CountedBy ==
  /\ listener' = listener => CountedListeners' = CountedListeners
  /\ conn' = conn => CountedConns' = CountedConns
BY DEF CountedListeners, CountedConns

\* A goroutine of a server signs on with Add(1), and off with Done.
LEMMA ListenerMoves ==
  ASSUME TypeOK, NEW s \in Listeners, NEW label \in ListenerLabels,
         listener' = [listener EXCEPT ![s] = label]
  PROVE  CountedListeners' =
           IF label \in {"check", "accept"} THEN CountedListeners \cup {s}
                                           ELSE CountedListeners \ {s}
BY DEF TypeOK, CountedListeners

\* Likewise the goroutine of a connection.
LEMMA ConnMoves ==
  ASSUME TypeOK, NEW c \in Conns, NEW label \in ConnLabels,
         conn' = [conn EXCEPT ![c] = label]
  PROVE  CountedConns' =
           IF label \in {"waiting", "session", "failing", "leaving"}
             THEN CountedConns \cup {c} ELSE CountedConns \ {c}
BY DEF TypeOK, CountedConns

-----------------------------------------------------------------------------
\* Nobody has been started.
LEMMA InitCounts == Init => IInv
<1> SUFFICES ASSUME Init
             PROVE  IInv
  OBVIOUS
<1>1. TypeOK
  <2>1. cloud \in BOOLEAN /\ ssl \in BOOLEAN /\ main \in MainLabels
    BY DEF Init
  <2>2. listener \in [Listeners -> ListenerLabels] /\ stop \in [Listeners -> BOOLEAN]
    BY DEF Init
  <2>3. conn \in [Conns -> ConnLabels] /\ signals \in [Conns -> {"none", "empty", "full"}]
    BY DEF Init
  <2>4. group \in Nat /\ sent \in 0..MaxSignals
    BY MaxSignalsAssumption DEF Init
  <2>5. mainSignal \in BOOLEAN /\ shutdown \in BOOLEAN
    BY DEF Init
  <2> QED
    BY <2>1, <2>2, <2>3, <2>4, <2>5 DEF TypeOK
<1>2. CountedListeners = {} /\ CountedConns = {}
  BY DEF Init, CountedListeners, CountedConns
<1>3. GroupCounts
  BY <1>2, FS_EmptySet DEF Init, GroupCounts
<1>4. WaitsForCounted
  BY <1>2 DEF WaitsForCounted
<1>5. CloudIdle
  BY DEF Init, CloudIdle, Conns
<1> QED
  BY <1>1, <1>3, <1>4, <1>5 DEF IInv

\* Every step of main, of a server, of a handler and every signal keeps the count.
LEMMA NextCounts == IInv /\ [Next]_vars => IInv'
<1> SUFFICES ASSUME IInv, [Next]_vars
             PROVE  IInv'
  OBVIOUS
<1>t. TypeOK /\ GroupCounts /\ WaitsForCounted /\ CloudIdle
  BY DEF IInv
<1>d. \A c \in CloudConns : c \in Conns /\ c \notin EngineConns /\ c \notin IDEConns
  BY ServersAssumption DEF Conns
<1> SUFFICES TypeOK' /\ GroupCounts' /\ WaitsForCounted' /\ CloudIdle'
  BY DEF IInv
<1>0. CASE Unregister \/ Resolve
  <2>1. TypeOK'
    BY <1>0, <1>t DEF Unregister, Resolve, channels, TypeOK
  <2>2. CountedListeners' = CountedListeners /\ CountedConns' = CountedConns
    BY <1>0, CountedBy DEF Unregister, Resolve
  <2>3. Running /\ group' = group
    BY <1>0 DEF Unregister, Resolve
  <2>4. GroupCounts'
    BY <1>t, <2>2, <2>3, KeepsCount
  <2>5. WaitsForCounted' /\ CloudIdle'
    BY <1>0, <1>t, <1>d DEF Unregister, Resolve, WaitsForCounted, CloudIdle, TypeOK
  <2> QED
    BY <2>1, <2>4, <2>5
<1>1. ASSUME NEW reply \in Document, CloudConnect(reply)
      PROVE  TypeOK' /\ GroupCounts' /\ WaitsForCounted' /\ CloudIdle'
  <2>1. TypeOK'
    BY <1>1, <1>t DEF CloudConnect, channels, TypeOK
  <2>2. CountedListeners' = CountedListeners
    BY <1>1, CountedBy DEF CloudConnect
  <2>3. CountedConns' = CountedConns
    <3>1. CASE conn' = conn
      BY <3>1, CountedBy
    <3>2. CASE conn' = [c \in Conns |-> IF c \in CloudConns THEN "spawned" ELSE conn[c]]
      BY <1>1, <3>2, <1>t, <1>d DEF CloudConnect, CountedConns, CloudIdle
    <3> QED
      BY <1>1, <3>1, <3>2 DEF CloudConnect
  <2>4. GroupCounts'
    BY <1>1, <1>t, <2>2, <2>3, KeepsCount DEF CloudConnect
  <2>5. WaitsForCounted' /\ CloudIdle'
    BY <1>1, <1>t, <1>d DEF CloudConnect, WaitsForCounted, CloudIdle, TypeOK
  <2> QED
    BY <2>1, <2>4, <2>5
<1>2. ASSUME NEW s \in Listeners, Spawn(s)
      PROVE  TypeOK' /\ GroupCounts' /\ WaitsForCounted' /\ CloudIdle'
  <2>1. TypeOK'
    BY <1>2, <1>t DEF Spawn, channels, TypeOK
  <2>2. CountedListeners' = CountedListeners
    BY <1>2, <1>t DEF Spawn, CountedListeners, TypeOK
  <2>3. CountedConns' = CountedConns
    BY <1>2, CountedBy DEF Spawn
  <2>4. GroupCounts'
    BY <1>2, <1>t, <2>2, <2>3, KeepsCount DEF Spawn
  <2>5. WaitsForCounted' /\ CloudIdle'
    BY <1>2, <1>t, <1>d DEF Spawn, WaitsForCounted, CloudIdle, TypeOK
  <2> QED
    BY <2>1, <2>4, <2>5
<1>3. CASE Notify
  <2>1. TypeOK'
    BY <1>3, <1>t DEF Notify, channels, TypeOK
  <2>2. CountedListeners' = CountedListeners
    BY <1>3, CountedBy DEF Notify
  <2>3. CountedConns' = CountedConns
    BY <1>3, CountedBy DEF Notify
  <2>4. GroupCounts'
    BY <1>3, <1>t, <2>2, <2>3, KeepsCount DEF Notify
  <2>5. WaitsForCounted' /\ CloudIdle'
    BY <1>3, <1>t, <1>d DEF Notify, WaitsForCounted, CloudIdle, TypeOK
  <2> QED
    BY <2>1, <2>4, <2>5
<1>4. CASE Wake
  <2>1. TypeOK'
    BY <1>4, <1>t DEF Wake, channels, TypeOK
  <2>2. CountedListeners' = CountedListeners
    BY <1>4, CountedBy DEF Wake
  <2>3. CountedConns' = CountedConns
    BY <1>4, CountedBy DEF Wake
  <2>4. GroupCounts'
    BY <1>4, <1>t, <2>2, <2>3, KeepsCount DEF Wake
  <2>5. WaitsForCounted' /\ CloudIdle'
    BY <1>4, <1>t, <1>d DEF Wake, WaitsForCounted, CloudIdle, TypeOK
  <2> QED
    BY <2>1, <2>4, <2>5
<1>5. ASSUME NEW s \in Listeners, Stop(s)
      PROVE  TypeOK' /\ GroupCounts' /\ WaitsForCounted' /\ CloudIdle'
  <2>1. TypeOK'
    BY <1>5, <1>t DEF Stop, channels, TypeOK
  <2>2. CountedListeners' = CountedListeners
    BY <1>5, CountedBy DEF Stop
  <2>3. CountedConns' = CountedConns
    BY <1>5, CountedBy DEF Stop
  <2>4. GroupCounts'
    BY <1>5, <1>t, <2>2, <2>3, KeepsCount DEF Stop
  <2>5. WaitsForCounted' /\ CloudIdle'
    BY <1>5, <1>t, <1>d DEF Stop, WaitsForCounted, CloudIdle, TypeOK
  <2> QED
    BY <2>1, <2>4, <2>5
<1>6. CASE Exit
  <2>1. TypeOK' /\ CloudIdle'
    BY <1>6, <1>t DEF Exit, channels, TypeOK, CloudIdle
  <2>2. CountedListeners = {} /\ CountedConns = {}
    <3>1. 0 = Cardinality(CountedListeners) + Cardinality(CountedConns)
      BY <1>6, <1>t DEF Exit, GroupCounts
    <3>2. Cardinality(CountedListeners) = 0 /\ Cardinality(CountedConns) = 0
      BY <3>1, CountedFinite
    <3> QED
      BY <3>2, CountedFinite, FS_EmptySet
  <2>3. WaitsForCounted'
    BY <1>6, <2>2, CountedBy DEF Exit, WaitsForCounted
  <2>4. GroupCounts'
    BY <1>6 DEF Exit, GroupCounts
  <2> QED
    BY <2>1, <2>3, <2>4
<1>7. ASSUME NEW s \in Listeners, ListenerStarts(s)
      PROVE  TypeOK' /\ GroupCounts' /\ WaitsForCounted' /\ CloudIdle'
  <2>1. TypeOK'
    BY <1>7, <1>t DEF ListenerStarts, channels, TypeOK
  <2>2. WaitsForCounted' /\ CloudIdle'
    BY <1>7, <1>t DEF ListenerStarts, WaitsForCounted, CloudIdle, TypeOK
  <2>3. CASE main' = "dead"
    BY <2>1, <2>2, <2>3 DEF GroupCounts
  <2>4. CASE listener' = [listener EXCEPT ![s] = "check"]
    <3>1. s \notin CountedListeners
      BY <1>7 DEF ListenerStarts, CountedListeners
    <3>2. CountedListeners' = CountedListeners \cup {s}
      BY <2>4, <1>t, ListenerMoves
    <3>3. Cardinality(CountedListeners') = Cardinality(CountedListeners) + 1
      BY <3>1, <3>2, CountedFinite, FS_AddElement
    <3>4. CountedConns' = CountedConns
      BY <1>7, CountedBy DEF ListenerStarts
    <3>5. GroupCounts'
      BY <1>7, <1>t, <3>3, <3>4, CountedFinite DEF ListenerStarts, GroupCounts, TypeOK
    <3> QED
      BY <2>1, <2>2, <3>5
  <2> QED
    BY <1>7, <2>3, <2>4 DEF ListenerStarts
<1>8. ASSUME NEW s \in Listeners, CheckStop(s)
      PROVE  TypeOK' /\ GroupCounts' /\ WaitsForCounted' /\ CloudIdle'
  <2>2. WaitsForCounted' /\ CloudIdle'
    BY <1>8, <1>t DEF CheckStop, WaitsForCounted, CloudIdle, TypeOK
  <2>3. ASSUME stop[s]
        PROVE  TypeOK' /\ GroupCounts' /\ WaitsForCounted' /\ CloudIdle'
    <3>1. s \in CountedListeners
      BY <1>8, <2>3 DEF CheckStop, CountedListeners
    <3>2. CountedListeners' = CountedListeners \ {s}
      BY <1>8, <2>3, <1>t, ListenerMoves DEF CheckStop
    <3>3. /\ Cardinality(CountedListeners') = Cardinality(CountedListeners) - 1
          /\ Cardinality(CountedListeners') \in Nat
      BY <3>1, <3>2, CountedFinite, CountedFiniteNext, FS_RemoveElement
    <3>4. CountedConns' = CountedConns
      BY <1>8, CountedBy DEF CheckStop
    <3>5. group' = group - 1 /\ main' = main
      BY <1>8, <2>3 DEF CheckStop
    <3>6. group = Cardinality(CountedListeners) + Cardinality(CountedConns)
      BY <1>8, <1>t DEF CheckStop, GroupCounts
    <3>7. group' = Cardinality(CountedListeners') + Cardinality(CountedConns')
      BY <3>3, <3>4, <3>5, <3>6, CountedFinite
    <3>8. group' \in Nat
      BY <3>7, CountedFiniteNext
    <3>9. TypeOK'
      BY <1>8, <2>3, <3>8, <1>t DEF CheckStop, channels, TypeOK
    <3>10. GroupCounts'
      BY <3>7 DEF GroupCounts
    <3> QED
      BY <2>2, <3>9, <3>10
  <2>4. ASSUME ~ stop[s]
        PROVE  TypeOK' /\ GroupCounts' /\ WaitsForCounted' /\ CloudIdle'
    <3>1. TypeOK'
      BY <1>8, <2>4, <1>t DEF CheckStop, channels, TypeOK
    <3>2. CountedListeners' = CountedListeners
      BY <1>8, <2>4, <1>t, ListenerMoves DEF CheckStop, CountedListeners
    <3>3. CountedConns' = CountedConns
      BY <1>8, CountedBy DEF CheckStop
    <3>4. GroupCounts'
      BY <1>8, <2>4, <1>t, <3>2, <3>3, KeepsCount DEF CheckStop
    <3> QED
      BY <2>2, <3>1, <3>4
  <2> QED
    BY <2>3, <2>4
<1>9. ASSUME NEW s \in Listeners, NEW c \in Conns, Accept(s, c)
      PROVE  TypeOK' /\ GroupCounts' /\ WaitsForCounted' /\ CloudIdle'
  <2>1. TypeOK'
    BY <1>9, <1>t DEF Accept, channels, TypeOK
  <2>2. CountedListeners' = CountedListeners
    BY <1>9, <1>t, ListenerMoves DEF Accept, CountedListeners
  <2>3. CountedConns' = CountedConns
    BY <1>9, <1>t, ConnMoves DEF Accept, CountedConns
  <2>4. GroupCounts'
    BY <1>9, <1>t, <2>2, <2>3, KeepsCount DEF Accept
  <2>5. WaitsForCounted' /\ CloudIdle'
    BY <1>9, <1>t, <1>d DEF Accept, WaitsForCounted, CloudIdle, TypeOK
  <2> QED
    BY <2>1, <2>4, <2>5
<1>10. ASSUME NEW s \in Listeners, AcceptFails(s)
      PROVE  TypeOK' /\ GroupCounts' /\ WaitsForCounted' /\ CloudIdle'
  <2>1. TypeOK'
    BY <1>10, <1>t DEF AcceptFails, channels, TypeOK
  <2>2. CountedListeners' = CountedListeners
    BY <1>10, <1>t, ListenerMoves DEF AcceptFails, CountedListeners
  <2>3. CountedConns' = CountedConns
    BY <1>10, CountedBy DEF AcceptFails
  <2>4. GroupCounts'
    BY <1>10, <1>t, <2>2, <2>3, KeepsCount DEF AcceptFails
  <2>5. WaitsForCounted' /\ CloudIdle'
    BY <1>10, <1>t, <1>d DEF AcceptFails, WaitsForCounted, CloudIdle, TypeOK
  <2> QED
    BY <2>1, <2>4, <2>5
<1>11. ASSUME NEW c \in Conns, HandlerStarts(c)
      PROVE  TypeOK' /\ GroupCounts' /\ WaitsForCounted' /\ CloudIdle'
  <2>1. TypeOK'
    BY <1>11, <1>t DEF HandlerStarts, TypeOK
  <2>2. WaitsForCounted' /\ CloudIdle'
    BY <1>11, <1>t DEF HandlerStarts, WaitsForCounted, CloudIdle, TypeOK
  <2>3. c \notin CountedConns
    BY <1>11 DEF HandlerStarts, CountedConns
  <2>4. CountedConns' = CountedConns \cup {c}
    BY <1>11, <1>t DEF HandlerStarts, CountedConns, TypeOK
  <2>5. Cardinality(CountedConns') = Cardinality(CountedConns) + 1
    BY <2>3, <2>4, CountedFinite, FS_AddElement
  <2>6. CountedListeners' = CountedListeners
    BY <1>11, CountedBy DEF HandlerStarts
  <2>7. GroupCounts'
    BY <1>11, <1>t, <2>5, <2>6, CountedFinite DEF HandlerStarts, GroupCounts, TypeOK
  <2> QED
    BY <2>1, <2>2, <2>7
<1>12. ASSUME NEW c \in Conns, Session(c)
      PROVE  TypeOK' /\ GroupCounts' /\ WaitsForCounted' /\ CloudIdle'
  <2>1. TypeOK'
    BY <1>12, <1>t DEF Session, channels, TypeOK
  <2>2. CountedListeners' = CountedListeners
    BY <1>12, CountedBy DEF Session
  <2>3. CountedConns' = CountedConns
    BY <1>12, <1>t DEF Session, CountedConns, TypeOK
  <2>4. GroupCounts'
    BY <1>12, <1>t, <2>2, <2>3, KeepsCount DEF Session
  <2>5. WaitsForCounted' /\ CloudIdle'
    BY <1>12, <1>t, <1>d DEF Session, WaitsForCounted, CloudIdle, TypeOK
  <2> QED
    BY <2>1, <2>4, <2>5
<1>13. ASSUME NEW c \in Conns, Returns(c)
      PROVE  TypeOK' /\ GroupCounts' /\ WaitsForCounted' /\ CloudIdle'
  <2>1. TypeOK'
    BY <1>13, <1>t DEF Returns, channels, TypeOK
  <2>2. CountedListeners' = CountedListeners
    BY <1>13, CountedBy DEF Returns
  <2>3. CountedConns' = CountedConns
    BY <1>13, <1>t DEF Returns, CountedConns, TypeOK
  <2>4. GroupCounts'
    BY <1>13, <1>t, <2>2, <2>3, KeepsCount DEF Returns
  <2>5. WaitsForCounted' /\ CloudIdle'
    BY <1>13, <1>t, <1>d DEF Returns, WaitsForCounted, CloudIdle, TypeOK
  <2> QED
    BY <2>1, <2>4, <2>5
<1>14. ASSUME NEW c \in Conns, Report(c)
      PROVE  TypeOK' /\ GroupCounts' /\ WaitsForCounted' /\ CloudIdle'
  <2>1. TypeOK'
    BY <1>14, <1>t DEF Report, channels, TypeOK
  <2>2. CountedListeners' = CountedListeners
    BY <1>14, CountedBy DEF Report
  <2>3. CountedConns' = CountedConns
    BY <1>14, <1>t, ConnMoves DEF Report, CountedConns
  <2>4. GroupCounts'
    BY <1>14, <1>t, <2>2, <2>3, KeepsCount DEF Report
  <2>5. WaitsForCounted' /\ CloudIdle'
    BY <1>14, <1>t, <1>d DEF Report, WaitsForCounted, CloudIdle, TypeOK
  <2> QED
    BY <2>1, <2>4, <2>5
<1>15. ASSUME NEW c \in Conns, Done(c)
      PROVE  TypeOK' /\ GroupCounts' /\ WaitsForCounted' /\ CloudIdle'
  <2>0. WaitsForCounted' /\ CloudIdle'
    BY <1>15, <1>t DEF Done, WaitsForCounted, CloudIdle, TypeOK
  <2>1. c \in CountedConns
    BY <1>15 DEF Done, CountedConns
  <2>2. CountedConns' = CountedConns \ {c}
    BY <1>15, <1>t, ConnMoves DEF Done
  <2>3. /\ Cardinality(CountedConns') = Cardinality(CountedConns) - 1
        /\ Cardinality(CountedConns') \in Nat
    BY <2>1, <2>2, CountedFinite, CountedFiniteNext, FS_RemoveElement
  <2>4. CountedListeners' = CountedListeners
    BY <1>15, CountedBy DEF Done
  <2>5. group' = group - 1 /\ main' = main
    BY <1>15 DEF Done
  <2>6. group = Cardinality(CountedListeners) + Cardinality(CountedConns)
    BY <1>15, <1>t DEF Done, GroupCounts
  <2>7. group' = Cardinality(CountedListeners') + Cardinality(CountedConns')
    BY <2>3, <2>4, <2>5, <2>6, CountedFinite
  <2>8. group' \in Nat
    BY <2>7, CountedFiniteNext
  <2>9. TypeOK'
    BY <1>15, <2>8, <1>t DEF Done, channels, TypeOK
  <2>10. GroupCounts'
    BY <2>7 DEF GroupCounts
  <2> QED
    BY <2>0, <2>9, <2>10
<1>16. ASSUME NEW c \in Conns, CloseConnection(c)
      PROVE  TypeOK' /\ GroupCounts' /\ WaitsForCounted' /\ CloudIdle'
  <2>1. TypeOK'
    BY <1>16, <1>t DEF CloseConnection, channels, TypeOK
  <2>2. CountedListeners' = CountedListeners
    BY <1>16, CountedBy DEF CloseConnection
  <2>3. CountedConns' = CountedConns
    BY <1>16, <1>t, ConnMoves DEF CloseConnection, CountedConns
  <2>4. GroupCounts'
    BY <1>16, <1>t, <2>2, <2>3, KeepsCount DEF CloseConnection
  <2>5. WaitsForCounted' /\ CloudIdle'
    BY <1>16, <1>t, <1>d DEF CloseConnection, WaitsForCounted, CloudIdle, TypeOK
  <2> QED
    BY <2>1, <2>4, <2>5
<1>17. ASSUME NEW kind \in {"INT", "TERM"}, Signal(kind)
      PROVE  TypeOK' /\ GroupCounts' /\ WaitsForCounted' /\ CloudIdle'
  <2>1. TypeOK'
    BY <1>17, <1>t, MaxSignalsAssumption DEF Signal, channels, TypeOK
  <2>2. CountedListeners' = CountedListeners
    BY <1>17, CountedBy DEF Signal
  <2>3. CountedConns' = CountedConns
    BY <1>17, CountedBy DEF Signal
  <2>4. GroupCounts'
    BY <1>17, <1>t, <2>2, <2>3, KeepsCount DEF Signal
  <2>5. WaitsForCounted' /\ CloudIdle'
    BY <1>17, <1>t, <1>d DEF Signal, WaitsForCounted, CloudIdle, TypeOK
  <2> QED
    BY <2>1, <2>4, <2>5
<1>18. CASE UNCHANGED vars
  <2>1. TypeOK' /\ WaitsForCounted' /\ CloudIdle'
    BY <1>18, <1>t DEF vars, channels, TypeOK, WaitsForCounted, CloudIdle, CountedListeners, CountedConns
  <2>2. GroupCounts'
    BY <1>18, <1>t, CountedBy, KeepsCount DEF vars
  <2> QED
    BY <2>1, <2>2
<1> QED
  BY <1>0, <1>1, <1>2, <1>3, <1>4, <1>5, <1>6, <1>7, <1>8, <1>9,
     <1>10, <1>11, <1>12, <1>13, <1>14, <1>15, <1>16, <1>17, <1>18
     DEF Next, MainStep, ListenerStep, HandlerStep

\* In every reachable state every variable has its type, in particular the counter
\* of the WaitGroup is never negative (syncGroup).
THEOREM TypesAreRight == Spec => []TypeOK
<1>1. Init => IInv
  BY InitCounts
<1>2. IInv /\ [Next]_vars => IInv'
  BY NextCounts
<1>3. IInv => TypeOK
  BY DEF IInv
<1> QED
  BY <1>1, <1>2, <1>3, PTL DEF Spec

\* In every reachable state of a running proxy the WaitGroup counts exactly the
\* goroutines that have signed on and not yet off (handleConnection, Listen).
THEOREM GroupIsRight == Spec => []GroupCounts
<1>1. Init => IInv
  BY InitCounts
<1>2. IInv /\ [Next]_vars => IInv'
  BY NextCounts
<1>3. IInv => GroupCounts
  BY DEF IInv
<1> QED
  BY <1>1, <1>2, <1>3, PTL DEF Spec

\* main, which waits for the WaitGroup, never returns under a goroutine that has
\* signed on (syncGroup.Wait).
THEOREM MainWaits == Spec => []WaitsForCounted
<1>1. Init => IInv
  BY InitCounts
<1>2. IInv /\ [Next]_vars => IInv'
  BY NextCounts
<1>3. IInv => WaitsForCounted
  BY DEF IInv
<1> QED
  BY <1>1, <1>2, <1>3, PTL DEF Spec

-----------------------------------------------------------------------------
(* Handlers are as HandlerContract has them.                               *)

\* A handler has asked for signals before it waits for anything.
Asked == \A c \in Served : conn[c] \in {"waiting", "session"} => signals[c] # "none"

HandlerInv == IInv /\ Asked

\* The expressions that Handler puts for the variables of HandlerContract.
PendingOf(c) == StageOf(c) \in {"waiting", "busy"} /\ signals[c] = "full"
Stage == [c \in Served |-> StageOf(c)]
Pending == [c \in Served |-> PendingOf(c)]

\* A step that concerns one connection is a step of HandlerContract if it takes its
\* handler from stage to stage as that allows.
LEMMA OneStage ==
  ASSUME NEW c \in Served,
         \A d \in Served \ {c} : conn'[d] = conn[d] /\ signals'[d] = signals[d],
         \/ /\ StageOf(c)' = StageOf(c)
            /\ signals'[c] = signals[c] \/ StageOf(c) \notin {"waiting", "busy"}
         \/ StageOf(c) = "off" /\ StageOf(c)' = "waiting" /\ signals'[c] # "full"
         \/ /\ StageOf(c) = "waiting" /\ StageOf(c)' = "busy"
            /\ signals[c] # "full" /\ signals'[c] # "full"
         \/ /\ StageOf(c) = "busy" /\ StageOf(c)' = "waiting"
            /\ signals'[c] = signals[c]
         \/ StageOf(c) = "waiting" /\ StageOf(c)' = "returned"
         \/ /\ StageOf(c) = "waiting" /\ StageOf(c)' = "failed"
            /\ c \in CloudConns /\ signals[c] # "full"
         \/ StageOf(c) = "failed" /\ StageOf(c)' = "returned"
  PROVE  [Handler!Next]_<<Stage, Pending>>
<1>1. \A d \in Served \ {c} : StageOf(d)' = StageOf(d) /\ PendingOf(d)' = PendingOf(d)
  BY DEF StageOf, PendingOf
<1>2. /\ Stage' = [Stage EXCEPT ![c] = StageOf(c)']
      /\ \A d \in Served : Stage[d] = StageOf(d) /\ Pending[d] = PendingOf(d)
  BY <1>1, Zenon DEF Stage, Pending
<1>3. PendingOf(c)' = PendingOf(c) => UNCHANGED Pending
  BY <1>1, Zenon DEF Pending
<1>4. ~ PendingOf(c)' => Pending' = [Pending EXCEPT ![c] = FALSE]
  <2> HAVE ~ PendingOf(c)'
  <2>1. PendingOf(c)' = FALSE
    BY DEF PendingOf
  <2> QED BY <1>1, <2>1, Zenon DEF Pending
<1>5. CASE /\ StageOf(c)' = StageOf(c)
           /\ signals'[c] = signals[c] \/ StageOf(c) \notin {"waiting", "busy"}
  <2>1. PendingOf(c)' = PendingOf(c)
    BY <1>5 DEF PendingOf
  <2>2. UNCHANGED Stage
    BY <1>1, <1>5, Zenon DEF Stage
  <2> QED BY <1>3, <2>1, <2>2
<1>6. CASE StageOf(c) = "off" /\ StageOf(c)' = "waiting" /\ signals'[c] # "full"
  <2>1. PendingOf(c)' = PendingOf(c)
    BY <1>6 DEF PendingOf
  <2> QED BY <1>2, <1>3, <1>6, <2>1, Zenon DEF Handler!Next, Handler!Start, Stage, Pending, PendingOf
<1>7. CASE /\ StageOf(c) = "waiting" /\ StageOf(c)' = "busy"
           /\ signals[c] # "full" /\ signals'[c] # "full"
  <2>1. PendingOf(c)' = PendingOf(c) /\ ~ PendingOf(c)
    BY <1>7 DEF PendingOf
  <2> QED BY <1>2, <1>3, <1>7, <2>1, Zenon DEF Handler!Next, Handler!Take, Stage, Pending, PendingOf
<1>8. CASE /\ StageOf(c) = "busy" /\ StageOf(c)' = "waiting"
           /\ signals'[c] = signals[c]
  <2>1. PendingOf(c)' = PendingOf(c)
    BY <1>8 DEF PendingOf
  <2> QED BY <1>2, <1>3, <1>8, <2>1, Zenon DEF Handler!Next, Handler!Finish, Stage, Pending, PendingOf
<1>9. CASE StageOf(c) = "waiting" /\ StageOf(c)' = "returned"
  <2>1. ~ PendingOf(c)'
    BY <1>9 DEF PendingOf
  <2> QED BY <1>2, <1>4, <1>9, <2>1, Zenon DEF Handler!Next, Handler!Leave, Stage, Pending, PendingOf
<1>10. CASE /\ StageOf(c) = "waiting" /\ StageOf(c)' = "failed"
            /\ c \in CloudConns /\ signals[c] # "full"
  <2>1. PendingOf(c)' = PendingOf(c) /\ ~ PendingOf(c)
    BY <1>10 DEF PendingOf
  <2> QED BY <1>2, <1>3, <1>10, <2>1, Zenon DEF Handler!Next, Handler!Fail, Stage, Pending, PendingOf
<1>11. CASE StageOf(c) = "failed" /\ StageOf(c)' = "returned"
  <2>1. PendingOf(c)' = PendingOf(c)
    BY <1>11 DEF PendingOf
  <2> QED BY <1>2, <1>3, <1>11, <2>1, Zenon DEF Handler!Next, Handler!Report, Stage, Pending, PendingOf
<1> QED
  BY <1>5, <1>6, <1>7, <1>8, <1>9, <1>10, <1>11, Zenon

\* Every step of the program is a step of HandlerContract, or none, and keeps the
\* invariant that takes.
LEMMA StepOfHandler ==
  ASSUME HandlerInv, [Next]_vars
  PROVE  HandlerInv' /\ [Handler!Next]_<<Stage, Pending>>
<1>1. /\ IInv /\ IInv' /\ Asked
      /\ conn \in [Conns -> ConnLabels] /\ conn' \in [Conns -> ConnLabels]
      /\ signals \in [Conns -> {"none", "empty", "full"}]
      /\ signals' \in [Conns -> {"none", "empty", "full"}]
  BY NextCounts DEF HandlerInv, IInv, TypeOK
<1>2. /\ Served \subseteq Conns
      /\ \A c \in Conns : c \in Served <=> c \notin IDEConns
  BY ServersAssumption DEF Served, Conns
<1> SUFFICES Asked' /\ [Handler!Next]_<<Stage, Pending>>
  BY <1>1 DEF HandlerInv
<1>3. ASSUME UNCHANGED signals,
             \A c \in Served : \/ conn'[c] = conn[c]
                               \/ conn[c] \in {"none", "spawned"} /\ conn'[c] \in {"none", "spawned"}
      PROVE  Asked' /\ [Handler!Next]_<<Stage, Pending>>
  <2>1. Asked'
    BY <1>1, <1>3 DEF Asked
  <2>2. \A c \in Served : StageOf(c)' = StageOf(c) /\ PendingOf(c)' = PendingOf(c)
    BY <1>3 DEF StageOf, PendingOf
  <2> QED BY <2>1, <2>2, Zenon DEF Stage, Pending
<1>4. CASE \/ Unregister \/ Resolve \/ MainStep \/ UNCHANGED vars
           \/ \E s \in Listeners : ListenerStep(s)
  <2>1. UNCHANGED <<conn, signals>>
    BY <1>4 DEF Unregister, Resolve, MainStep, Notify, Wake, Exit, Spawn, Stop, ListenerStep,
       ListenerStarts, CheckStop, AcceptFails, vars, channels
  <2> QED BY <1>3, <2>1
<1>5. ASSUME NEW reply \in Document, CloudConnect(reply)
      PROVE  Asked' /\ [Handler!Next]_<<Stage, Pending>>
  <2>1. UNCHANGED signals /\ main = "connect"
    BY <1>5 DEF CloudConnect, channels
  <2>2. \A c \in CloudConns : conn[c] = "none"
    BY <1>1, <2>1 DEF IInv, CloudIdle
  <2>3. conn' = conn \/ conn' = [c \in Conns |-> IF c \in CloudConns THEN "spawned" ELSE conn[c]]
    BY <1>5 DEF CloudConnect
  <2>4. \A c \in Served : \/ conn'[c] = conn[c]
                          \/ conn[c] = "none" /\ conn'[c] = "spawned"
    BY <1>2, <2>2, <2>3
  <2> QED BY <1>3, <2>1, <2>4
<1>6. ASSUME NEW s \in Listeners, NEW c \in Conns, Accept(s, c)
      PROVE  Asked' /\ [Handler!Next]_<<Stage, Pending>>
  <2>1. UNCHANGED signals /\ conn[c] = "none" /\ conn' = [conn EXCEPT ![c] = "spawned"]
    BY <1>6 DEF Accept, channels
  <2>2. \A d \in Served : conn'[d] = conn[d] \/ (conn[d] = "none" /\ conn'[d] = "spawned")
    BY <1>1, <1>2, <2>1
  <2> QED BY <1>3, <2>1, <2>2
<1>7. ASSUME NEW c \in Conns,
             HandlerStarts(c) \/ Session(c) \/ Returns(c) \/ Report(c) \/ Done(c) \/ CloseConnection(c)
      PROVE  Asked' /\ [Handler!Next]_<<Stage, Pending>>
  <2>1. \A d \in Conns \ {c} : conn'[d] = conn[d] /\ signals'[d] = signals[d]
    BY <1>1, <1>7 DEF HandlerStarts, Session, Returns, Report, Done, CloseConnection, channels
  <2>2. CASE c \in IDEConns
    <3>1. \A d \in Served : conn'[d] = conn[d] /\ signals'[d] = signals[d]
      BY <1>2, <2>1, <2>2
    <3>2. Asked'
      BY <1>1, <3>1 DEF Asked
    <3>3. \A d \in Served : StageOf(d)' = StageOf(d) /\ PendingOf(d)' = PendingOf(d)
      BY <3>1 DEF StageOf, PendingOf
    <3> QED BY <3>2, <3>3, Zenon DEF Stage, Pending
  <2>3. CASE c \notin IDEConns
    <3>1. c \in Served /\ \A d \in Served \ {c} : conn'[d] = conn[d] /\ signals'[d] = signals[d]
      BY <1>2, <2>1, <2>3
    <3>2. \/ conn[c] = "spawned" /\ conn'[c] = "waiting" /\ signals'[c] = "empty"
          \/ /\ conn[c] = "waiting" /\ conn'[c] = "session"
             /\ signals[c] = "empty" /\ signals'[c] = signals[c]
          \/ conn[c] = "session" /\ conn'[c] = "waiting" /\ signals'[c] = signals[c]
          \/ conn[c] = "waiting" /\ conn'[c] = "leaving"
          \/ /\ conn[c] = "waiting" /\ conn'[c] = "failing"
             /\ c \in CloudConns /\ signals[c] # "full"
          \/ conn[c] = "failing" /\ conn'[c] = "leaving"
          \/ conn[c] = "leaving" /\ conn'[c] = "closing"
          \/ conn[c] = "closing" /\ conn'[c] = "done"
      BY <1>1, <1>7, <2>3
         DEF HandlerStarts, Session, Returns, Report, Done, CloseConnection, channels
    <3>3. Asked'
      BY <1>1, <3>1, <3>2 DEF Asked
    <3>4. [Handler!Next]_<<Stage, Pending>>
      BY <3>1, <3>2, OneStage DEF StageOf
    <3> QED BY <3>3, <3>4
  <2> QED BY <2>2, <2>3
<1>8. ASSUME NEW kind \in {"INT", "TERM"}, Signal(kind)
      PROVE  Asked' /\ [Handler!Next]_<<Stage, Pending>>
  <2>1. /\ UNCHANGED conn
        /\ signals' = [c \in Conns |-> IF signals[c] # "none" THEN "full" ELSE signals[c]]
    BY <1>1, <1>8 DEF Signal
  <2>2. Asked'
    BY <1>1, <1>2, <2>1 DEF Asked
  <2>3. \A c \in Served : /\ StageOf(c)' = StageOf(c)
                          /\ PendingOf(c)' = (StageOf(c) \in {"waiting", "busy"})
    <3> SUFFICES ASSUME NEW c \in Served
                 PROVE  /\ StageOf(c)' = StageOf(c)
                        /\ PendingOf(c)' = (StageOf(c) \in {"waiting", "busy"})
      OBVIOUS
    <3>1. StageOf(c)' = StageOf(c)
      BY <2>1 DEF StageOf
    <3>2. StageOf(c) \in {"waiting", "busy"} => signals'[c] = "full"
      BY <1>1, <1>2, <2>1 DEF StageOf, Asked
    <3> QED BY <3>1, <3>2 DEF PendingOf
  <2>4. UNCHANGED Stage
    BY <2>3, Zenon DEF Stage
  <2>5. Pending' = [c \in Served |-> Stage[c] \in {"waiting", "busy"}]
    BY <2>3, Zenon DEF Pending, Stage
  <2> QED
    BY <2>2, <2>4, <2>5, Zenon DEF Handler!Next, Handler!Interrupt, Stage, Pending, PendingOf
<1> QED
  BY <1>4, <1>5, <1>6, <1>7, <1>8, Zenon DEF Next, HandlerStep

\* With any servers and connections, the handlers of the program keep to
\* HandlerContract, as those of DbgpProxy do.
THEOREM HandlersKeepTheContract == Spec => ImplementsHandler
<1>1. Init => HandlerInv
  <2>1. Init => Asked
    BY DEF Init, Asked, Served, Conns
  <2> QED BY <2>1, InitCounts DEF HandlerInv
<1>2. HandlerInv /\ [Next]_vars => HandlerInv'
  BY StepOfHandler
<1>3. Init => Handler!Init
  <2> SUFFICES ASSUME Init PROVE Handler!Init
    OBVIOUS
  <2>1. \A c \in Served : StageOf(c) = "off" /\ PendingOf(c) = FALSE
    BY DEF Init, StageOf, PendingOf, Served, Conns
  <2> QED BY <2>1, Zenon DEF Handler!Init, PendingOf
<1>4. HandlerInv /\ [Next]_vars => [Handler!Next]_Handler!vars
  BY StepOfHandler DEF Handler!vars, Stage, Pending, PendingOf
<1> QED
  BY <1>1, <1>2, <1>3, <1>4, PTL DEF Spec, Handler!Spec, ImplementsHandler

-----------------------------------------------------------------------------
(* Why the proxy stops, and why it does stop once it is to.                *)

\* The handler of the Cloud connection has returned.
CloudIsOver == cloud /\ \A c \in CloudConns : conn[c] \in {"leaving", "closing", "done"}

\* The token for main is put into an empty channel.
ReportNeverWaits == \A c \in Conns : conn[c] = "failing" => ~ shutdown

\* main stops the servers only if it was told to: by a signal, or by the handler
\* of the Cloud connection.
StopHasACause == main \in {"stop", "wait", "exit"} => sent > 0 \/ CloudIsOver

\* Every goroutine that listens, or is about to, has been told to stop.
NobodyIsForgotten ==
  main \in {"wait", "exit"} => \A s \in Listeners : listener[s] # "off" => stop[s]

\* A goroutine that the group counts can take a step of its own.
CanSignOff ==
  \/ \E s \in Listeners : listener[s] \in {"check", "accept"}
  \/ \E c \in Conns : \/ conn[c] \in {"waiting", "session", "leaving"}
                      \/ conn[c] = "failing" /\ ~ shutdown

\* main waits for nobody, or for somebody who can go on.
WaitIsNotInVain == main = "wait" => group = 0 \/ CanSignOff

\* What is left for a goroutine to do once its server has been told to stop, and
\* for a connection.
ListenerRank(label) ==
  CASE label = "spawned" -> 3 [] label = "accept" -> 2 [] label = "check" -> 1 [] OTHER -> 0

ConnRank(label) ==
  CASE label = "none" -> 6 [] label = "spawned" -> 5 [] label \in {"waiting", "session"} -> 4
    [] label = "failing" -> 3 [] label = "leaving" -> 2 [] label = "closing" -> 1
    [] OTHER -> 0

ListenersToGo == {p \in Listeners \X (1..3) : p[2] <= ListenerRank(listener[p[1]])}
ConnsToGo == {p \in Conns \X (1..6) : p[2] <= ConnRank(conn[p[1]])}

\* While main waits there is less and less to do: each step takes something off,
\* ends the process, begins or ends a session, or is a signal.
WaitRunsOut ==
  main = "wait" =>
    /\ IsFiniteSet(ListenersToGo) /\ IsFiniteSet(ConnsToGo)
    /\ ListenersToGo' \subseteq ListenersToGo /\ ConnsToGo' \subseteq ConnsToGo
    /\ \/ ListenersToGo' # ListenersToGo
       \/ ConnsToGo' # ConnsToGo
       \/ ~ Running'
       \/ \E c \in Conns : Session(c)
       \/ \E kind \in {"INT", "TERM"} : Signal(kind)

\* main has a reason for what it does, and does it to all.
MainInv ==
  /\ mainSignal => sent > 0
  /\ shutdown => CloudIsOver
  /\ main \in {"unregister", "resolve", "connect"} => cloud
  /\ \A c \in CloudConns : conn[c] # "none" => cloud
  /\ StopHasACause
  /\ \A s \in Listeners : listener[s] # "off" => s \in Servers
  /\ main \in {"wait", "exit"} => \A s \in Servers : stop[s]
  /\ \A c \in Conns : conn[c] = "failing" => c \in CloudConns

\* Nobody has been told anything.
LEMMA InitMain == Init => MainInv
BY DEF Init, MainInv, StopHasACause, CloudIsOver, Conns

\* A handler that has returned does not come back, and the only one that can fail is
\* that of the Cloud connection.
LEMMA HandlersMain ==
  ASSUME IInv, MainInv, NEW c \in Conns,
         HandlerStarts(c) \/ Session(c) \/ Returns(c) \/ Done(c) \/ CloseConnection(c) \/ Report(c)
  PROVE  MainInv'
<1>t. TypeOK /\ MainInv
  BY DEF IInv
<1>1. /\ UNCHANGED <<cloud, ssl, main, listener, stop, mainSignal, sent>>
      /\ \A d \in Conns : d # c => conn'[d] = conn[d]
      /\ conn[c] # "none"
      /\ conn[c] \in {"leaving", "closing", "done"} => conn'[c] \in {"leaving", "closing", "done"}
      /\ conn'[c] = "failing" => c \in CloudConns
      /\ \/ UNCHANGED shutdown
         \/ conn[c] = "failing" /\ conn'[c] = "leaving"
  BY <1>t DEF TypeOK, HandlerStarts, Session, Returns, Done, CloseConnection, Report, channels
<1>2. PICK k : CloudConns = {k} /\ k \in Conns
  BY CloudAssumption DEF Conns
<1>3. CloudIsOver => CloudIsOver'
  BY <1>1, <1>2 DEF CloudIsOver
<1>4. shutdown' => CloudIsOver'
  <2>1. CASE UNCHANGED shutdown
    BY <1>3, <2>1 DEF MainInv
  <2>2. CASE conn[c] = "failing" /\ conn'[c] = "leaving"
    BY <1>1, <1>2, <2>2 DEF MainInv, CloudIsOver
  <2> QED BY <1>1, <2>1, <2>2
<1>5. StopHasACause'
  BY <1>1, <1>3 DEF MainInv, StopHasACause
<1>6. Servers' = Servers
  BY <1>1 DEF Servers
<1>7. \A d \in CloudConns : conn'[d] # "none" => cloud
  BY <1>1, <1>2 DEF MainInv
<1>8. \A d \in Conns : conn'[d] = "failing" => d \in CloudConns
  BY <1>1 DEF MainInv
<1> QED
  BY <1>1, <1>4, <1>5, <1>6, <1>7, <1>8 DEF MainInv

\* main stops because it was woken, and waits when it has stopped all servers.
LEMMA MainMain ==
  ASSUME IInv, MainInv, MainStep \/ Unregister \/ Resolve
  PROVE  MainInv'
<1>t. TypeOK /\ MainInv
  BY DEF IInv
<1>0. UNCHANGED <<cloud, ssl, conn, sent>>
  BY DEF MainStep, Unregister, Resolve, Notify, Wake, Exit, Spawn, Stop, channels
<1>1. Servers' = Servers /\ (CloudIsOver' <=> CloudIsOver)
  BY <1>0 DEF Servers, CloudIsOver
<1>2. (mainSignal' => mainSignal) /\ (shutdown' => shutdown)
  BY DEF MainStep, Unregister, Resolve, Notify, Wake, Exit, Spawn, Stop, channels
<1>3. main' \in {"stop", "wait", "exit"} =>
        main \in {"stop", "wait", "exit"} \/ mainSignal \/ shutdown
  BY DEF MainStep, Unregister, Resolve, Notify, Wake, Exit, Spawn, Stop
<1>4. StopHasACause'
  BY <1>0, <1>1, <1>3 DEF MainInv, StopHasACause
<1>7. main' \in {"unregister", "resolve", "connect"} =>
        main \in {"unregister", "resolve", "connect"}
  BY DEF MainStep, Unregister, Resolve, Notify, Wake, Exit, Spawn, Stop
<1>5. \A s \in Listeners : listener'[s] # "off" => listener[s] # "off" \/ s \in Servers
  BY <1>t DEF TypeOK, MainStep, Unregister, Resolve, Notify, Wake, Exit, Spawn, Stop
<1>6. main' \in {"wait", "exit"} => \A s \in Servers : stop'[s]
  <2>1. ASSUME NEW s \in Listeners, Stop(s), main' \in {"wait", "exit"}
        PROVE  \A r \in Servers : stop'[r]
    <3>1. stop' = [stop EXCEPT ![s] = TRUE] /\ \A r \in Servers \ {s} : stop[r]
      BY <2>1 DEF Stop
    <3>2. Servers \subseteq Listeners
      BY DEF Servers, Listeners
    <3> QED BY <1>t, <3>1, <3>2 DEF TypeOK
  <2>2. CASE Exit
    BY <2>2 DEF Exit, MainInv
  <2>3. ASSUME NEW s \in Listeners, Spawn(s)
        PROVE  main' \notin {"wait", "exit"}
    BY <2>3 DEF Spawn
  <2>4. CASE Notify \/ Wake \/ Unregister \/ Resolve
    BY <2>4 DEF Notify, Wake, Unregister, Resolve
  <2> QED BY <2>1, <2>2, <2>3, <2>4 DEF MainStep
<1> QED
  BY <1>0, <1>1, <1>2, <1>4, <1>5, <1>6, <1>7 DEF MainInv

\* Servers, signals and the dial to Cloud give main no other reason, and start
\* nobody that main does not know of.
LEMMA NextMain == IInv /\ MainInv /\ [Next]_vars => MainInv'
<1> SUFFICES ASSUME IInv, MainInv, [Next]_vars
             PROVE  MainInv'
  OBVIOUS
<1>t. TypeOK /\ CloudIdle
  BY DEF IInv
<1>1. CASE MainStep \/ Unregister \/ Resolve
  BY <1>1, MainMain
<1>2. ASSUME NEW c \in Conns, HandlerStep(c) \/ Session(c) \/ Returns(c)
      PROVE  MainInv'
  BY <1>2, HandlersMain DEF HandlerStep
<1>3. ASSUME NEW reply \in Document, CloudConnect(reply)
      PROVE  MainInv'
  <2>1. /\ UNCHANGED <<cloud, ssl, listener, stop, mainSignal, shutdown, sent>>
        /\ main = "connect" /\ main' \in {"failed", "spawn", "dead"}
        /\ \/ UNCHANGED conn
           \/ conn' = [c \in Conns |-> IF c \in CloudConns THEN "spawned" ELSE conn[c]]
    BY <1>3 DEF CloudConnect, channels
  <2>2. cloud
    BY <1>3 DEF CloudConnect, MainInv
  <2>3. ~ shutdown
    BY <1>t, <2>1, CloudAssumption DEF CloudIdle, MainInv, CloudIsOver
  <2>4. Servers' = Servers
    BY <2>1 DEF Servers
  <2>5. \A c \in Conns : conn'[c] = "failing" => conn[c] = "failing"
    BY <2>1
  <2> QED
    BY <2>1, <2>2, <2>3, <2>4, <2>5 DEF MainInv, StopHasACause
<1>4. ASSUME NEW s \in Listeners, ListenerStep(s)
      PROVE  MainInv'
  <2>1. /\ UNCHANGED <<cloud, ssl, stop, conn, mainSignal, shutdown, sent>>
        /\ main' \in {main, "dead"}
        /\ \A r \in Listeners : listener'[r] # "off" => listener[r] # "off"
    BY <1>t, <1>4 DEF TypeOK, ListenerStep, ListenerStarts, CheckStop, AcceptFails, channels
  <2>2. Servers' = Servers /\ (CloudIsOver' <=> CloudIsOver)
    BY <2>1 DEF Servers, CloudIsOver
  <2> QED BY <2>1, <2>2 DEF MainInv, StopHasACause
<1>5. ASSUME NEW s \in Listeners, NEW c \in Conns, Accept(s, c)
      PROVE  MainInv'
  <2>1. /\ UNCHANGED <<cloud, ssl, main, stop, mainSignal, shutdown, sent>>
        /\ \A r \in Listeners : listener'[r] # "off" => listener[r] # "off"
        /\ c \notin CloudConns
        /\ \A d \in Conns : conn'[d] = IF d = c THEN "spawned" ELSE conn[d]
    BY <1>t, <1>5, ServersAssumption DEF TypeOK, Accept, channels
  <2>2. \A d \in CloudConns : d \in Conns /\ conn'[d] = conn[d]
    BY <2>1 DEF Conns
  <2>3. Servers' = Servers /\ (CloudIsOver' <=> CloudIsOver)
    BY <2>1, <2>2 DEF Servers, CloudIsOver
  <2> QED BY <2>1, <2>2, <2>3 DEF MainInv, StopHasACause
<1>6. ASSUME NEW kind \in {"INT", "TERM"}, Signal(kind)
      PROVE  MainInv'
  <2>1. /\ UNCHANGED <<cloud, ssl, listener, stop, conn, shutdown>>
        /\ main' \in {main, "dead"} /\ sent' > 0
    BY <1>t, <1>6 DEF TypeOK, Signal
  <2>2. Servers' = Servers /\ (CloudIsOver' <=> CloudIsOver)
    BY <2>1 DEF Servers, CloudIsOver
  <2> QED BY <2>1, <2>2 DEF MainInv, StopHasACause
<1>7. CASE UNCHANGED vars
  <2>1. Servers' = Servers /\ (CloudIsOver' <=> CloudIsOver)
    BY <1>7 DEF vars, Servers, CloudIsOver
  <2> QED BY <1>7, <2>1 DEF vars, channels, MainInv, StopHasACause
<1> QED
  BY <1>1, <1>2, <1>3, <1>4, <1>5, <1>6, <1>7 DEF Next

\* In every reachable state: the handler of the Cloud connection that fails finds
\* the channel to main empty, so it never waits there with the group still counting
\* it (shutdownSignal).
THEOREM ReportGoesThrough == Spec => []ReportNeverWaits
<1>1. Init => IInv /\ MainInv
  BY InitCounts, InitMain
<1>2. IInv /\ MainInv /\ [Next]_vars => IInv' /\ MainInv'
  BY NextCounts, NextMain
<1>3. MainInv => ReportNeverWaits
  BY DEF MainInv, ReportNeverWaits, CloudIsOver
<1> QED
  BY <1>1, <1>2, <1>3, PTL DEF Spec

\* In every reachable state: main has stopped the servers, or is about to, only
\* after a signal, or after the handler of the Cloud connection has returned; no
\* engine and no IDE makes it (main, shutdownSignal).
THEOREM NoStopWithoutACause == Spec => []StopHasACause
<1>1. Init => IInv /\ MainInv
  BY InitCounts, InitMain
<1>2. IInv /\ MainInv /\ [Next]_vars => IInv' /\ MainInv'
  BY NextCounts, NextMain
<1>3. MainInv => StopHasACause
  BY DEF MainInv
<1> QED
  BY <1>1, <1>2, <1>3, PTL DEF Spec

\* In every reachable state: when main waits for the group, or has done so, it has
\* set the stop flag of every server whose goroutine runs or is about to, whatever
\* the options; one that it had forgotten would accept for ever (main, Server.Stop,
\* Server.Listen).
THEOREM EveryServerIsTold == Spec => []NobodyIsForgotten
<1>1. Init => IInv /\ MainInv
  BY InitCounts, InitMain
<1>2. IInv /\ MainInv /\ [Next]_vars => IInv' /\ MainInv'
  BY NextCounts, NextMain
<1>3. MainInv => NobodyIsForgotten
  BY DEF MainInv, NobodyIsForgotten
<1> QED
  BY <1>1, <1>2, <1>3, PTL DEF Spec

\* In every reachable state: while main waits and the group is not empty, one of
\* those it counts can take a step, so main never waits for nobody, or only for
\* goroutines that wait themselves (syncGroup.Wait, Listen, handleConnection).
THEOREM SomebodySignsOff == Spec => []WaitIsNotInVain
<1>1. Init => IInv /\ MainInv
  BY InitCounts, InitMain
<1>2. IInv /\ MainInv /\ [Next]_vars => IInv' /\ MainInv'
  BY NextCounts, NextMain
<1>3. IInv /\ MainInv => WaitIsNotInVain
  <2> SUFFICES ASSUME IInv, MainInv, main = "wait", ~ CanSignOff
               PROVE  group = 0
    BY DEF WaitIsNotInVain
  <2>1. CountedListeners = {}
    BY DEF CanSignOff, CountedListeners
  <2>2. CountedConns = {}
    BY DEF CanSignOff, CountedConns, MainInv, CloudIsOver
  <2> QED
    BY <2>1, <2>2, FS_EmptySet DEF IInv, GroupCounts
<1> QED
  BY <1>1, <1>2, <1>3, PTL DEF Spec

\* What is left to do is finite.
LEMMA ToGoIsFinite == IsFiniteSet(ListenersToGo) /\ IsFiniteSet(ConnsToGo)
<1>0. IsFiniteSet(1..3) /\ IsFiniteSet(1..6)
  <2>1. 1 \in Int /\ 3 \in Int /\ 6 \in Int
    OBVIOUS
  <2> QED BY <2>1, FS_Interval, Zenon
<1>1. IsFiniteSet(Listeners \X (1..3)) /\ IsFiniteSet(Conns \X (1..6))
  BY <1>0, ServersAssumption, FS_Product
<1>2. ListenersToGo \subseteq Listeners \X (1..3) /\ ConnsToGo \subseteq Conns \X (1..6)
  BY DEF ListenersToGo, ConnsToGo
<1> QED
  BY <1>1, <1>2, FS_Subset

\* A goroutine of a server that moves down its ranks.
LEMMA ListenerGoes ==
  ASSUME TypeOK, NEW s \in Listeners, NEW label \in ListenerLabels,
         listener' = [listener EXCEPT ![s] = label],
         ListenerRank(label) < ListenerRank(listener[s])
  PROVE  ListenersToGo' \subseteq ListenersToGo /\ ListenersToGo' # ListenersToGo
<1>0. ListenerRank(label) \in 0..3 /\ ListenerRank(listener[s]) \in 0..3
  BY DEF ListenerRank
<1>1. \A r \in Listeners : listener'[r] = IF r = s THEN label ELSE listener[r]
  BY DEF TypeOK
<1>2. ASSUME NEW p \in ListenersToGo' PROVE p \in ListenersToGo
  <2>1. p \in Listeners \X (1..3) /\ p[2] <= ListenerRank(listener'[p[1]])
    BY DEF ListenersToGo
  <2>2. ListenerRank(listener'[p[1]]) <= ListenerRank(listener[p[1]])
    BY <1>0, <1>1, <2>1 DEF ListenerRank
  <2>3. ListenerRank(listener'[p[1]]) \in Nat /\ ListenerRank(listener[p[1]]) \in Nat
    BY DEF ListenerRank
  <2> QED BY <2>1, <2>2, <2>3 DEF ListenersToGo
<1>3. <<s, ListenerRank(listener[s])>> \in ListenersToGo \ ListenersToGo'
  BY <1>0, <1>1 DEF ListenersToGo
<1> QED
  BY <1>2, <1>3

\* A connection that moves down its ranks, and one that keeps its rank.
LEMMA ConnGoes ==
  ASSUME TypeOK, NEW c \in Conns, NEW label \in ConnLabels,
         conn' = [conn EXCEPT ![c] = label], ConnRank(label) <= ConnRank(conn[c])
  PROVE  /\ ConnsToGo' \subseteq ConnsToGo
         /\ ConnRank(label) < ConnRank(conn[c]) => ConnsToGo' # ConnsToGo
<1>0. ConnRank(label) \in 0..6 /\ ConnRank(conn[c]) \in 0..6
  BY DEF ConnRank
<1>1. \A d \in Conns : conn'[d] = IF d = c THEN label ELSE conn[d]
  BY DEF TypeOK
<1>2. ASSUME NEW p \in ConnsToGo' PROVE p \in ConnsToGo
  <2>1. p \in Conns \X (1..6) /\ p[2] <= ConnRank(conn'[p[1]])
    BY DEF ConnsToGo
  <2>2. ConnRank(conn'[p[1]]) \in Nat /\ ConnRank(conn[p[1]]) \in Nat
    BY DEF ConnRank
  <2>3. ConnRank(conn'[p[1]]) <= ConnRank(conn[p[1]])
    BY <1>0, <1>1, <2>1, <2>2
  <2> QED BY <2>1, <2>2, <2>3 DEF ConnsToGo
<1>3. ASSUME ConnRank(label) < ConnRank(conn[c])
      PROVE  <<c, ConnRank(conn[c])>> \in ConnsToGo \ ConnsToGo'
  BY <1>0, <1>1, <1>3 DEF ConnsToGo
<1> QED
  BY <1>2, <1>3

\* While main waits every step of a goroutine takes something off.
LEMMA WaitingGoes ==
  ASSUME IInv, MainInv, Next, main = "wait"
  PROVE  WaitRunsOut
<1>t. TypeOK
  BY DEF IInv
<1>f. IsFiniteSet(ListenersToGo) /\ IsFiniteSet(ConnsToGo)
  BY ToGoIsFinite
<1>l. listener' = listener => ListenersToGo' = ListenersToGo
  BY DEF ListenersToGo
<1>c. conn' = conn => ConnsToGo' = ConnsToGo
  BY DEF ConnsToGo
<1>1. CASE Exit
  <2>1. UNCHANGED <<listener, conn>> /\ ~ Running'
    BY <1>1 DEF Exit
  <2> QED BY <1>f, <1>l, <1>c, <2>1 DEF WaitRunsOut
<1>2. ASSUME NEW s \in Listeners, ListenerStep(s)
      PROVE  WaitRunsOut
  <2>1. UNCHANGED conn
    BY <1>2 DEF ListenerStep, ListenerStarts, CheckStop, AcceptFails
  <2>2. stop[s]
    BY <1>2 DEF MainInv, ListenerStep, ListenerStarts, CheckStop, AcceptFails
  <2>3. CASE \E label \in ListenerLabels :
               /\ listener' = [listener EXCEPT ![s] = label]
               /\ ListenerRank(label) < ListenerRank(listener[s])
    BY <1>t, <1>f, <1>c, <2>1, <2>3, ListenerGoes DEF WaitRunsOut
  <2>4. CASE UNCHANGED listener /\ ~ Running'
    BY <1>f, <1>l, <1>c, <2>1, <2>4 DEF WaitRunsOut
  <2>5. CASE ListenerStarts(s)
    BY <2>3, <2>4, <2>5 DEF ListenerStarts, ListenerRank
  <2>6. CASE CheckStop(s)
    <3>1. listener[s] = "check" /\ listener' = [listener EXCEPT ![s] = "done"]
      BY <2>2, <2>6 DEF CheckStop
    <3> QED BY <2>3, <3>1 DEF ListenerRank
  <2>7. CASE AcceptFails(s)
    BY <2>3, <2>7 DEF AcceptFails, ListenerRank
  <2> QED BY <1>2, <2>5, <2>6, <2>7 DEF ListenerStep
<1>3. ASSUME NEW s \in Listeners, NEW c \in Conns, Accept(s, c)
      PROVE  WaitRunsOut
  <2>0. /\ listener' = [listener EXCEPT ![s] = "check"]
        /\ ListenerRank("check") < ListenerRank(listener[s])
        /\ conn' = [conn EXCEPT ![c] = "spawned"]
        /\ ConnRank("spawned") <= ConnRank(conn[c])
    BY <1>3 DEF Accept, ListenerRank, ConnRank
  <2>1. ListenersToGo' \subseteq ListenersToGo /\ ListenersToGo' # ListenersToGo
    BY <1>t, <2>0, ListenerGoes
  <2>2. ConnsToGo' \subseteq ConnsToGo
    BY <1>t, <2>0, ConnGoes
  <2> QED BY <1>f, <2>1, <2>2 DEF WaitRunsOut
<1>4. ASSUME NEW c \in Conns, HandlerStep(c) \/ Returns(c)
      PROVE  WaitRunsOut
  <2>1. UNCHANGED listener
    BY <1>4 DEF HandlerStep, HandlerStarts, Report, Done, CloseConnection, Returns
  <2>2. PICK label \in ConnLabels :
          conn' = [conn EXCEPT ![c] = label] /\ ConnRank(label) < ConnRank(conn[c])
    <3>1. CASE HandlerStarts(c)
      <4>0. conn[c] = "spawned"
        BY <3>1 DEF HandlerStarts
      <4>1. PICK label \in {"session", "waiting"} : conn' = [conn EXCEPT ![c] = label]
        BY <3>1 DEF HandlerStarts
      <4>2. label \in ConnLabels /\ ConnRank(label) < ConnRank(conn[c])
        BY <4>0 DEF ConnRank
      <4> QED BY <4>1, <4>2
    <3>2. CASE Report(c) \/ Done(c) \/ CloseConnection(c)
      BY <3>2 DEF Report, Done, CloseConnection, ConnRank
    <3>3. CASE Returns(c)
      BY <3>3 DEF Returns, ConnRank
    <3> QED BY <1>4, <3>1, <3>2, <3>3 DEF HandlerStep
  <2>3. ConnRank(label) \in Nat /\ ConnRank(conn[c]) \in Nat
    BY DEF ConnRank
  <2>4. ConnRank(label) <= ConnRank(conn[c])
    BY <2>2, <2>3
  <2>5. ConnsToGo' \subseteq ConnsToGo /\ ConnsToGo' # ConnsToGo
    BY <1>t, <2>2, <2>4, ConnGoes
  <2> QED BY <1>f, <1>l, <2>1, <2>5 DEF WaitRunsOut
<1>5. ASSUME NEW c \in Conns, Session(c)
      PROVE  WaitRunsOut
  <2>1. UNCHANGED listener
    BY <1>5 DEF Session
  <2>2. ConnsToGo' \subseteq ConnsToGo
    BY <1>t, <1>5, ConnGoes DEF Session, ConnRank
  <2> QED BY <1>f, <1>l, <1>5, <2>1, <2>2 DEF WaitRunsOut
<1>6. ASSUME NEW kind \in {"INT", "TERM"}, Signal(kind)
      PROVE  WaitRunsOut
  <2>1. UNCHANGED <<listener, conn>>
    BY <1>6 DEF Signal
  <2> QED BY <1>f, <1>l, <1>c, <1>6, <2>1 DEF WaitRunsOut
<1>7. ~ (Unregister \/ Resolve \/ Notify \/ Wake)
  BY DEF Unregister, Resolve, Notify, Wake
<1>8. \A s \in Listeners : ~ (Spawn(s) \/ Stop(s))
  BY DEF Spawn, Stop
<1>9. \A reply \in Document : ~ CloudConnect(reply)
  BY DEF CloudConnect
<1> QED
  BY <1>1, <1>2, <1>3, <1>4, <1>5, <1>6, <1>7, <1>8, <1>9 DEF Next, MainStep

\* In every step while main waits: a finite number of things is left to do for the
\* listening goroutines, none of which goes round its loop again, and for the
\* connections, those still to be accepted included; every step takes one of them
\* off, but that handlers may begin and end sessions, and signals arrive (Listen,
\* handleConnection, syncGroup.Wait).
THEOREM TheWaitRunsOut == Spec => [][WaitRunsOut]_vars
<1>1. Init => IInv /\ MainInv
  BY InitCounts, InitMain
<1>2. IInv /\ MainInv /\ [Next]_vars => IInv' /\ MainInv' /\ [WaitRunsOut]_vars
  BY NextCounts, NextMain, WaitingGoes DEF WaitRunsOut
<1> QED
  BY <1>1, <1>2, PTL DEF Spec

=============================================================================
