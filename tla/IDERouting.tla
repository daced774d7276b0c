------------------------------ MODULE IDERouting ------------------------------
(***************************************************************************)
(* What the proxy promises engines and IDEs, without goroutines, packets   *)
(* or connections.  Registrations are numbered in the order in which IDEs  *)
(* ask for them; 0 is none.  An engine is served by the registration that  *)
(* was there for its key, the IDE is called once, and if that or the       *)
(* session fails the engine is let go together with what is registered for *)
(* its key by then.                                                        *)
(***************************************************************************)
EXTENDS Naturals

CONSTANTS Keys, Engines, EngineKey

VARIABLES
  last,     \* number of the last registration asked for
  ide,      \* what is registered for a key
  serving,  \* the registration that serves an engine
  session   \* "none", "calling" the IDE, "debugging", or "broken"

vars == <<last, ide, serving, session>>

Init ==
  /\ last = 0
  /\ ide = [k \in Keys |-> 0]
  /\ serving = [e \in Engines |-> 0]
  /\ session = [e \in Engines |-> "none"]

\* An IDE registers; it never takes a key from another.
Register(k) ==
  /\ ide[k] = 0
  /\ last' = last + 1
  /\ ide' = [ide EXCEPT ![k] = last + 1]
  /\ UNCHANGED <<serving, session>>

\* An IDE asks in vain.
Refuse ==
  /\ last' = last + 1
  /\ UNCHANGED <<ide, serving, session>>

\* A registration is withdrawn, for good; with -f that takes one more to ask.
Withdraw(k) ==
  /\ last' \in {last, last + 1}
  /\ ide' = [ide EXCEPT ![k] = 0]
  /\ UNCHANGED <<serving, session>>

Attach(e) ==
  /\ session[e] = "none"
  /\ ide[EngineKey[e]] # 0
  /\ serving' = [serving EXCEPT ![e] = ide[EngineKey[e]]]
  /\ session' = [session EXCEPT ![e] = "calling"]
  /\ UNCHANGED <<last, ide>>

\* The IDE answers.
Connect(e) ==
  /\ session[e] = "calling"
  /\ session' = [session EXCEPT ![e] = "debugging"]
  /\ UNCHANGED <<last, ide, serving>>

Break(e) ==
  /\ session[e] \in {"calling", "debugging"}
  /\ session' = [session EXCEPT ![e] = "broken"]
  /\ UNCHANGED <<last, ide, serving>>

\* The session is over: the IDE stays registered.
Finish(e) ==
  /\ session[e] = "debugging"
  /\ serving' = [serving EXCEPT ![e] = 0]
  /\ session' = [session EXCEPT ![e] = "none"]
  /\ UNCHANGED <<last, ide>>

\* The session has failed: the registration goes with it.
Drop(e) ==
  /\ session[e] = "broken"
  /\ serving' = [serving EXCEPT ![e] = 0]
  /\ session' = [session EXCEPT ![e] = "none"]
  /\ ide' = [ide EXCEPT ![EngineKey[e]] = 0]
  /\ UNCHANGED last

Next ==
  \/ \E k \in Keys : Register(k) \/ Withdraw(k)
  \/ Refuse
  \/ \E e \in Engines : Attach(e) \/ Connect(e) \/ Break(e) \/ Finish(e) \/ Drop(e)

Spec == Init /\ [][Next]_vars

=============================================================================
