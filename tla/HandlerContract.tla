--------------------------- MODULE HandlerContract ---------------------------
(***************************************************************************)
(* What the rest of the program may rely on of the handlers of engine      *)
(* connections (ServerHandler.Handle): between two sessions they heed an   *)
(* interrupt before anything else, in a session they do not, and the only  *)
(* errors that end the program are those of the Cloud's handler, none of   *)
(* which is due to an interrupt.  DbgpProxy, where a session is a dozen    *)
(* steps, and ProxyLifecycle, where it is one, both keep to it.            *)
(***************************************************************************)
CONSTANTS
  Handlers,
  Reporting   \* those whose errors are for main

VARIABLES
  stage,      \* where a handler is
  pending     \* an interrupt that it has yet to see

vars == <<stage, pending>>

Init ==
  /\ stage = [h \in Handlers |-> "off"]
  /\ pending = [h \in Handlers |-> FALSE]

\* The handler asks for signals and waits for an init packet.
Start(h) ==
  /\ stage[h] = "off"
  /\ stage' = [stage EXCEPT ![h] = "waiting"]
  /\ UNCHANGED pending

\* A session begins, or a detach that stands in for one.
Take(h) ==
  /\ stage[h] = "waiting"
  /\ ~ pending[h]
  /\ stage' = [stage EXCEPT ![h] = "busy"]
  /\ UNCHANGED pending

Finish(h) ==
  /\ stage[h] = "busy"
  /\ stage' = [stage EXCEPT ![h] = "waiting"]
  /\ UNCHANGED pending

\* The handler returns: for an interrupt, for the end of the connection, or for
\* an error that is only logged.
Leave(h) ==
  /\ stage[h] = "waiting"
  /\ stage' = [stage EXCEPT ![h] = "returned"]
  /\ pending' = [pending EXCEPT ![h] = FALSE]

\* It returns with an error that main is to have.
Fail(h) ==
  /\ h \in Reporting
  /\ stage[h] = "waiting"
  /\ ~ pending[h]
  /\ stage' = [stage EXCEPT ![h] = "failed"]
  /\ UNCHANGED pending

\* main has it.
Report(h) ==
  /\ stage[h] = "failed"
  /\ stage' = [stage EXCEPT ![h] = "returned"]
  /\ UNCHANGED pending

\* Every handler gets the signal.
Interrupt ==
  /\ pending' = [h \in Handlers |-> stage[h] \in {"waiting", "busy"}]
  /\ UNCHANGED stage

Next ==
  \/ \E h \in Handlers :
       Start(h) \/ Take(h) \/ Finish(h) \/ Leave(h) \/ Fail(h) \/ Report(h)
  \/ Interrupt

Spec == Init /\ [][Next]_vars

=============================================================================
