--------------------------- MODULE ConnectionList ---------------------------
(***************************************************************************)
(* The registry that every goroutine of the proxy shares                   *)
(* (lib/connections/connections.go): a map from an IDE key, or a Cloud     *)
(* user id, to the Connection that an IDE registered under it.  Each       *)
(* method holds the list's mutex from its first to its last access of the  *)
(* map and waits for nothing while it does, so a critical section is one   *)
(* action.  The part of RemoveByKey that runs after the unlock, and the    *)
(* `claimed' flag it reads, are in CloudRegistry.                          *)
(***************************************************************************)
EXTENDS Naturals

CONSTANTS
  Keys,          \* IDE keys and Cloud user ids
  NoConnection,  \* the nil *Connection of a failed lookup
  ForceAdd       \* ConnectionList.forceAdd: the proxy was started with -f

ASSUME ForceAddAssumption == ForceAdd \in BOOLEAN

\* NewConnection draws a random UUID; what matters of it is that it is fresh.
\* The address only decides whether a later dial succeeds, which is not modelled.
Connection == [ideKey : Keys, sid : Nat]

ASSUME NoConnectionAssumption == NoConnection \notin Connection

VARIABLE connections  \* list.connections

ListInit == connections = [k \in Keys |-> NoConnection]

\* FindByKey's second result, `ok'.
Registered(k) == connections[k] # NoConnection

\* Variant of FindByKey that compares no keys: any registration will do.
FindAny(k) ==
  IF \E m \in Keys : Registered(m)
    THEN connections[CHOOSE m \in Keys : Registered(m)] ELSE NoConnection

\* FindByKey's first result; FindByKey changes nothing.
FindByKey(k) == connections[k]

\* Variants of Add: one that stores a Connection without its sid, one that
\* overwrites the entry it finds.
AddAnonymous(c, ok) ==
  /\ ~ Registered(c.ideKey)
  /\ ok
  /\ connections' = [connections EXCEPT ![c.ideKey] = [ideKey |-> c.ideKey]]

AddReplaces(c, ok) ==
  ok /\ connections' = [connections EXCEPT ![c.ideKey] = c]

(***************************************************************************)
(* Add: `ok' is whether it returns a nil error.  With forceAdd an existing *)
(* entry is deleted and the method returns before it stores the new one.   *)
(***************************************************************************)
Add(c, ok) ==
  \/ /\ ~ Registered(c.ideKey)
     /\ ok
     /\ connections' = [connections EXCEPT ![c.ideKey] = c]
  \/ /\ Registered(c.ideKey)
     /\ ForceAdd
     /\ ok
     /\ connections' = [connections EXCEPT ![c.ideKey] = NoConnection]
  \/ /\ Registered(c.ideKey)
     /\ ~ ForceAdd
     /\ ~ ok
     /\ UNCHANGED connections

\* The critical section of RemoveByKey.
RemoveByKey(k, ok) ==
  /\ ok = Registered(k)
  /\ connections' = [connections EXCEPT ![k] = NoConnection]

ListTypeOK == connections \in [Keys -> Connection \cup {NoConnection}]

=============================================================================
