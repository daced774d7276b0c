---------------------------- MODULE CloudRegistry ----------------------------
(***************************************************************************)
(* The part of the registry that serves Xdebug Cloud: claims, and the      *)
(* commands cloudinit and cloudstop (lib/connections, lib/command).  A     *)
(* link is a goroutine that reads one command from an IDE, carries it out  *)
(* and, when the IDE disconnects, closes it.  A session is a goroutine     *)
(* that claims the IDE of a user for an engine, uses it and gives it back. *)
(* The server that runs these goroutines is not in the repository: that    *)
(* sessions listen to the ControlRequests of the connection they have      *)
(* claimed, until they give it back, is what RemoveByKey takes for granted.*)
(***************************************************************************)
EXTENDS ConnectionList, CommandLine, FiniteSets

CONSTANTS
  Links,     \* connections of IDEs to the Cloud
  Sessions,  \* engines that look for an IDE
  MaxSid     \* bound: connections registered

ASSUME LinksAssumption ==
  IsFiniteSet(Links) /\ IsFiniteSet(Sessions) /\ MaxSid \in Nat

VARIABLES
  nextSid,        \* identity of the next Connection
  claimed,        \* Connection.claimed, by sid
  link,           \* where a link is
  own,            \* the connection that the cloudinit of a link has registered
  needsRemoving,  \* CloudInitCommand.needsRemoving
  removed,        \* the connection that a RemoveByKey has just taken out
  session,        \* where a session is
  holds           \* the connection a session has claimed

linkVars == <<link, own, needsRemoving, removed>>
sessionVars == <<session, holds>>
vars == <<connections, nextSid, claimed, linkVars, sessionVars>>

Init ==
  /\ ListInit
  /\ nextSid = 0
  /\ claimed = [i \in 0..MaxSid |-> FALSE]
  /\ link = [l \in Links |-> "idle"]
  /\ own = [l \in Links |-> NoConnection]
  /\ needsRemoving = [l \in Links |-> FALSE]
  /\ removed = [l \in Links |-> NoConnection]
  /\ session = [s \in Sessions |-> "idle"]
  /\ holds = [s \in Sessions |-> NoConnection]

-----------------------------------------------------------------------------
(* Links.                                                                  *)

\* What the server understands of a command for a user.
Understood(line) == ParseCloudLine(ProcessLine(line, "1"))

\* CloudInitCommand.Handle; ActUponConnection does the same without a reply.
CloudInit(l, user) ==
  /\ link[l] = "idle"
  /\ nextSid < MaxSid
  /\ Understood(CloudInitLine(user)).ok
  /\ LET c == [ideKey |-> Understood(CloudInitLine(user)).key, sid |-> nextSid]
     IN \E ok \in BOOLEAN :
          /\ Add(c, ok)
          /\ needsRemoving' = [needsRemoving EXCEPT ![l] = ok]
          /\ own' = [own EXCEPT ![l] = c]
  /\ nextSid' = nextSid + 1
  /\ link' = [link EXCEPT ![l] = "open"]
  /\ UNCHANGED <<claimed, removed, sessionVars>>

\* The critical section of RemoveByKey takes a connection out; if there is none
\* the method returns and the link goes on as `otherwise'.
TakeOut(l, user, otherwise) ==
  /\ \E ok \in BOOLEAN : RemoveByKey(user, ok)
  /\ removed' = [removed EXCEPT ![l] = FindByKey(user)]
  /\ link' = [link EXCEPT ![l] = IF Registered(user) THEN "notifying" ELSE otherwise]

\* CloudStopCommand.Handle, up to the unlock in RemoveByKey.
CloudStop(l, user) ==
  /\ link[l] = "idle"
  /\ Understood(CloudStopLine(user)).ok
  /\ TakeOut(l, Understood(CloudStopLine(user)).key, "open")
  /\ UNCHANGED <<nextSid, claimed, own, needsRemoving, sessionVars>>

\* The IDE disconnects: CloudInitCommand.Close, or CloudStopCommand's, which
\* does nothing.
Close(l) ==
  /\ link[l] = "open"
  /\ \/ needsRemoving[l] /\ TakeOut(l, own[l].ideKey, "done")
     \/ /\ ~ needsRemoving[l]
        /\ link' = [link EXCEPT ![l] = "done"]
        /\ UNCHANGED <<connections, removed>>
  /\ UNCHANGED <<nextSid, claimed, own, needsRemoving, sessionVars>>

\* Variant of Notify that does not ask whether anybody has claimed the connection.
NotifyUnclaimed(l) ==
  /\ link[l] = "notifying"
  /\ \E s \in Sessions :
       /\ session[s] = "active"
       /\ holds[s] = removed[l]
       /\ session' = [session EXCEPT ![s] = "told"]
  /\ link' = [link EXCEPT ![l] = IF needsRemoving[l] THEN "done" ELSE "open"]
  /\ removed' = [removed EXCEPT ![l] = NoConnection]
  /\ UNCHANGED <<connections, nextSid, claimed, own, needsRemoving, holds>>

\* The rest of RemoveByKey, after the unlock: a connection that is claimed has
\* its session told to close.  The channel is unbuffered.
Notify(l) ==
  /\ link[l] = "notifying"
  /\ LET c == removed[l]
     IN \/ ~ claimed[c.sid] /\ UNCHANGED session
        \/ /\ claimed[c.sid]
           /\ \E s \in Sessions :
                /\ session[s] = "active"
                /\ holds[s] = c
                /\ session' = [session EXCEPT ![s] = "told"]
  /\ link' = [link EXCEPT ![l] = IF needsRemoving[l] THEN "done" ELSE "open"]
  /\ removed' = [removed EXCEPT ![l] = NoConnection]
  /\ UNCHANGED <<connections, nextSid, claimed, own, needsRemoving, holds>>

-----------------------------------------------------------------------------
(* Sessions.                                                               *)

\* Fails if nobody is registered for the user or the connection is claimed.
ClaimConnection(s, user) ==
  /\ session[s] = "idle"
  /\ \/ /\ Registered(user)
        /\ ~ claimed[FindByKey(user).sid]
        /\ claimed' = [claimed EXCEPT ![FindByKey(user).sid] = TRUE]
        /\ holds' = [holds EXCEPT ![s] = FindByKey(user)]
        /\ session' = [session EXCEPT ![s] = "active"]
     \/ /\ Registered(user) => claimed[FindByKey(user).sid]
        /\ session' = [session EXCEPT ![s] = "done"]
        /\ UNCHANGED <<claimed, holds>>
  /\ UNCHANGED <<connections, nextSid, linkVars>>

\* Variant of UnclaimConnection that gives back the connection that was claimed,
\* registered or not.
UnclaimOwn(s) ==
  /\ session[s] \in {"active", "told"}
  /\ claimed' = [claimed EXCEPT ![holds[s].sid] = FALSE]
  /\ session' = [session EXCEPT ![s] = "done"]
  /\ UNCHANGED <<connections, nextSid, linkVars, holds>>

\* Variant of UnclaimConnection that leaves the flag alone.
UnclaimNothing(s) ==
  /\ session[s] \in {"active", "told"}
  /\ session' = [session EXCEPT ![s] = "done"]
  /\ UNCHANGED <<connections, nextSid, claimed, linkVars, holds>>

\* The session ends: the claim is looked up by key.
UnclaimConnection(s) ==
  /\ session[s] \in {"active", "told"}
  /\ LET user == holds[s].ideKey
     IN claimed' = IF Registered(user)
                     THEN [claimed EXCEPT ![FindByKey(user).sid] = FALSE] ELSE claimed
  /\ session' = [session EXCEPT ![s] = "done"]
  /\ UNCHANGED <<connections, nextSid, linkVars, holds>>

-----------------------------------------------------------------------------
Next ==
  \/ \E l \in Links :
       \/ \E user \in Keys : CloudInit(l, user) \/ CloudStop(l, user)
       \/ Close(l) \/ Notify(l)
  \/ \E s \in Sessions :
       (\E user \in Keys : ClaimConnection(s, user)) \/ UnclaimConnection(s)

Spec == Init /\ [][Next]_vars

\* A link that can go on does; nobody has to connect or to disconnect.
FairSpec == Spec /\ \A l \in Links : WF_vars(Notify(l))

-----------------------------------------------------------------------------
\* Every variable has its type.
TypeOK ==
  /\ ListTypeOK
  /\ nextSid \in 0..MaxSid
  /\ claimed \in [0..MaxSid -> BOOLEAN]
  /\ link \in [Links -> {"idle", "open", "notifying", "done"}]
  /\ own \in [Links -> Connection \cup {NoConnection}]
  /\ needsRemoving \in [Links -> BOOLEAN]
  /\ removed \in [Links -> Connection \cup {NoConnection}]
  /\ session \in [Sessions -> {"idle", "active", "told", "done"}]
  /\ holds \in [Sessions -> Connection \cup {NoConnection}]

\* RemoveByKey reads `claimed' after it has let go of the lock, and yet reads
\* what was there when it took the connection out: nobody can claim a connection
\* that is not registered or give one back (connections.go:114-116).
RemovalSeesClaim ==
  [][\A l \in Links : (link[l] = "notifying" /\ link'[l] = "notifying") =>
       claimed'[removed[l].sid] = claimed[removed[l].sid]]_vars

\* No user is locked out: a registered connection that counts as claimed is in
\* the hands of a session that has still to give it back.
NoStuckClaim ==
  \A k \in Keys : (Registered(k) /\ claimed[FindByKey(k).sid]) =>
    \E s \in Sessions : session[s] = "active" /\ holds[s] = FindByKey(k)

\* A removal comes to its end, and with it the link that asked for it, unless the
\* session that had claimed the connection ended of itself in that very moment,
\* and with it the only one that would have taken the message (RemoveByKey).
RemovalHeeded ==
  \A l \in Links : link[l] = "notifying" ~>
    \/ link[l] # "notifying"
    \/ claimed[removed[l].sid]
         /\ \E s \in Sessions : session[s] = "done" /\ holds[s] = removed[l]

=============================================================================
