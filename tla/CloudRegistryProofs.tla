------------------------- MODULE CloudRegistryProofs -------------------------
(***************************************************************************)
(* Proofs about CloudRegistry, for any number of IDEs, engines and users.  *)
(***************************************************************************)
EXTENDS CloudRegistry, SequenceTheorems, TLAPS

-----------------------------------------------------------------------------
(* Commands.                                                               *)

\* A line whose first two tokens are not empty is trimmed at its end only.
LEMMA TrimmedEnd ==
  ASSUME NEW a, NEW b, NEW c, a # Blank, b # Blank
  PROVE  Trimmed(<<a, b, c>>) = IF c = Blank THEN <<a, b>> ELSE <<a, b, c>>
<1> DEFINE line == <<a, b, c>>
<1> DEFINE full == {i \in DOMAIN line : line[i] # Blank}
<1> DEFINE end == IF c = Blank THEN 2 ELSE 3
<1>1. DOMAIN line = 1..3 /\ line[1] = a /\ line[2] = b /\ line[3] = c
  OBVIOUS
<1>2. full = 1..end
  <2> HIDE DEF line
  <2> QED BY <1>1
<1>3. end \in {2, 3}
  OBVIOUS
<1>4. SubSeq(line, 1, 2) = <<a, b>> /\ SubSeq(line, 1, 3) = <<a, b, c>>
  <2> DEFINE S == {a, b, c}
  <2>1. line \in Seq(S) /\ <<a, b>> \in Seq(S) /\ Len(<<a, b>>) = 2 /\ Len(line) = 3
    OBVIOUS
  <2>2. \A i \in 1..3 : line[i] \in S
    BY <1>1
  <2>3. SubSeq(line, 1, 3) = line
    BY <2>1, SubSeqFull
  <2>4. /\ SubSeq(line, 1, 2) \in Seq(S)
        /\ Len(SubSeq(line, 1, 2)) = 2
        /\ \A i \in 1..2 : SubSeq(line, 1, 2)[i] = line[i]
    <3> HIDE DEF line, S
    <3> QED BY <2>2, SubSeqProperties
  <2>5. \A i \in 1..2 : SubSeq(line, 1, 2)[i] = <<a, b>>[i]
    BY <2>4, <1>1
  <2>6. SubSeq(line, 1, 2) = <<a, b>>
    <3> HIDE DEF line, S
    <3> QED BY <2>1, <2>4, <2>5, SeqEqual
  <2> QED BY <2>3, <2>6
<1>5. Trimmed(line) = IF full = {} THEN <<Blank>>
                      ELSE SubSeq(line, CHOOSE i \in full : \A j \in full : i <= j,
                                        CHOOSE i \in full : \A j \in full : i >= j)
  BY DEF Trimmed
<1>6. full # {} /\ (CHOOSE i \in full : \A j \in full : i <= j) = 1
                /\ (CHOOSE i \in full : \A j \in full : i >= j) = end
  <2> HIDE DEF full, end
  <2>1. 1 \in full /\ (\A j \in full : 1 <= j) /\ end \in full /\ \A j \in full : end >= j
    BY <1>2, <1>3
  <2>2. \A i \in full : /\ (\A j \in full : i <= j) => i = 1
                        /\ (\A j \in full : i >= j) => i = end
    BY <1>2, <1>3
  <2>3. (CHOOSE i \in full : \A j \in full : i <= j) = 1
    BY <2>1, <2>2
  <2>4. (CHOOSE i \in full : \A j \in full : i >= j) = end
    BY <2>1, <2>2
  <2> QED
    BY <2>1, <2>3, <2>4
<1>7. Trimmed(line) = SubSeq(line, 1, end)
  <2> HIDE DEF full, line, end
  <2> QED BY <1>5, <1>6
<1> QED
  BY <1>4, <1>7

\* The tokens that the commands themselves bring along.
LEMMA CommandTokens ==
  /\ Blank # "cloudinit" /\ Blank # "cloudstop" /\ Blank # "-u"
  /\ Blank # "-i" /\ Blank # "1"
BY Zenon DEF Blank

\* How three tokens are joined to one or two more.
LEMMA Joined ==
  ASSUME NEW a, NEW b, NEW c, NEW d, NEW e
  PROVE  <<a, b, c>> \o <<d>> = <<a, b, c, d>> /\ <<a, b, c>> \o <<d, e>> = <<a, b, c, d, e>>
<1> DEFINE S == {a, b, c, d, e}
<1>1. /\ <<a, b, c>> \in Seq(S) /\ <<d>> \in Seq(S) /\ <<d, e>> \in Seq(S)
      /\ <<a, b, c, d>> \in Seq(S) /\ <<a, b, c, d, e>> \in Seq(S)
  OBVIOUS
<1>2. /\ Len(<<a, b, c>>) = 3 /\ Len(<<d>>) = 1 /\ Len(<<d, e>>) = 2
      /\ Len(<<a, b, c, d>>) = 4 /\ Len(<<a, b, c, d, e>>) = 5
  OBVIOUS
<1> HIDE DEF S
<1>3. <<a, b, c>> \o <<d>> = <<a, b, c, d>>
  <2> DEFINE joined == <<a, b, c>> \o <<d>>
  <2> DEFINE all == <<a, b, c, d>>
  <2>1. /\ <<a, b, c>> \o <<d>> \in Seq(S)
        /\ Len(<<a, b, c>> \o <<d>>) = 4
        /\ \A i \in 1..4 : (<<a, b, c>> \o <<d>>)[i] =
                                IF i <= 3 THEN <<a, b, c>>[i] ELSE <<d>>[i - 3]
    BY <1>1, <1>2, ConcatProperties
  <2>2. \A i \in 1..4 : (IF i <= 3 THEN <<a, b, c>>[i] ELSE <<d>>[i - 3]) = <<a, b, c, d>>[i]
    OBVIOUS
  <2>3. joined \in Seq(S) /\ all \in Seq(S) /\ Len(joined) = Len(all) /\ Len(joined) = 4
    BY <1>1, <1>2, <2>1
  <2>4. \A i \in 1..4 : joined[i] = all[i]
    BY <2>1, <2>2
  <2> HIDE DEF joined, all
  <2>5. joined = all
    BY <2>3, <2>4, SeqEqual
  <2> QED BY <2>5 DEF joined, all
<1>4. <<a, b, c>> \o <<d, e>> = <<a, b, c, d, e>>
  <2> DEFINE joined == <<a, b, c>> \o <<d, e>>
  <2> DEFINE all == <<a, b, c, d, e>>
  <2>1. /\ <<a, b, c>> \o <<d, e>> \in Seq(S)
        /\ Len(<<a, b, c>> \o <<d, e>>) = 5
        /\ \A i \in 1..5 : (<<a, b, c>> \o <<d, e>>)[i] =
                                IF i <= 3 THEN <<a, b, c>>[i] ELSE <<d, e>>[i - 3]
    BY <1>1, <1>2, ConcatProperties
  <2>2. \A i \in 1..5 : (IF i <= 3 THEN <<a, b, c>>[i] ELSE <<d, e>>[i - 3])
                            = <<a, b, c, d, e>>[i]
    OBVIOUS
  <2>3. joined \in Seq(S) /\ all \in Seq(S) /\ Len(joined) = Len(all) /\ Len(joined) = 5
    BY <1>1, <1>2, <2>1
  <2>4. \A i \in 1..5 : joined[i] = all[i]
    BY <2>1, <2>2
  <2> HIDE DEF joined, all
  <2>5. joined = all
    BY <2>3, <2>4, SeqEqual
  <2> QED BY <2>5 DEF joined, all
<1> QED
  BY <1>3, <1>4

\* A transaction id follows the name of the command, unless the line has an -i.
LEMMA Injected ==
  ASSUME NEW name, name # "-i", NEW key
  PROVE  /\ InjectIIfNeeded(<<name, "-u">>, "1") = <<name, "-i", "1", "-u">>
         /\ key = "-i" => InjectIIfNeeded(<<name, "-u", key>>, "1") = <<name, "-u", key>>
         /\ key # "-i" => InjectIIfNeeded(<<name, "-u", key>>, "1")
                            = <<name, "-i", "1", "-u", key>>
<1>1. ~ Contains(<<name, "-u">>, "-i")
  BY DEF Contains
<1>2. Contains(<<name, "-u", key>>, "-i") <=> key = "-i"
  BY DEF Contains
<1>3. Tail(<<name, "-u">>) = <<"-u">> /\ Head(<<name, "-u">>) = name
  OBVIOUS
<1>4. Tail(<<name, "-u", key>>) = <<"-u", key>> /\ Head(<<name, "-u", key>>) = name
  OBVIOUS
<1>5. <<name, "-i", "1">> \o <<"-u">> = <<name, "-i", "1", "-u">>
  BY Joined
<1>6. <<name, "-i", "1">> \o <<"-u", key>> = <<name, "-i", "1", "-u", key>>
  BY Joined
<1> QED
  BY <1>1, <1>2, <1>3, <1>4, <1>5, <1>6 DEF InjectIIfNeeded

\* The value of a flag that is given once.
LEMMA ValueOfFlag ==
  ASSUME NEW flag, NEW value, NEW default
  PROVE  /\ Value(<<flag, value>>, flag, default) = value
         /\ \A f, v : f # flag => Value(<<f, v, flag, value>>, flag, default) = value
<1>1. Value(<<flag, value>>, flag, default) = value
  <2> DEFINE pairs == Pairs(<<flag, value>>)
  <2> DEFINE given == {i \in DOMAIN pairs : pairs[i].flag = flag}
  <2>1. DOMAIN pairs = {1} /\ pairs[1] = [flag |-> flag, value |-> value]
    BY DEF Pairs
  <2>2. given = {1}
    <3> HIDE DEF pairs
    <3> QED BY <2>1
  <2>3. Value(<<flag, value>>, flag, default) =
          IF given = {} THEN default
          ELSE pairs[CHOOSE i \in given : \A j \in given : i >= j].value
    BY DEF Value
  <2> HIDE DEF pairs, given
  <2>4. (CHOOSE i \in given : \A j \in given : i >= j) = 1
    BY <2>2
  <2> QED BY <2>1, <2>2, <2>3, <2>4
<1>2. ASSUME NEW f, NEW v, f # flag
      PROVE  Value(<<f, v, flag, value>>, flag, default) = value
  <2> DEFINE pairs == Pairs(<<f, v, flag, value>>)
  <2> DEFINE given == {i \in DOMAIN pairs : pairs[i].flag = flag}
  <2>1. /\ DOMAIN pairs = {1, 2}
        /\ pairs[1] = [flag |-> f, value |-> v]
        /\ pairs[2] = [flag |-> flag, value |-> value]
    BY DEF Pairs
  <2>2. given = {2}
    <3> HIDE DEF pairs
    <3> QED BY <1>2, <2>1
  <2>3. Value(<<f, v, flag, value>>, flag, default) =
          IF given = {} THEN default
          ELSE pairs[CHOOSE i \in given : \A j \in given : i >= j].value
    BY DEF Value
  <2> HIDE DEF pairs, given
  <2>4. (CHOOSE i \in given : \A j \in given : i >= j) = 2
    BY <2>2
  <2> QED BY <2>1, <2>2, <2>3, <2>4
<1> QED
  BY <1>1, <1>2

\* A line for a user is understood unless the user id is empty, and then it is
\* about that user, even if the id reads like a flag (processLine,
\* CreateCloudInit, CreateCloudStop).
THEOREM UserUnderstood ==
  ASSUME NEW user, NEW line \in {CloudInitLine(user), CloudStopLine(user)}
  PROVE  /\ Understood(line).ok <=> user # Blank
         /\ Understood(line).ok => Understood(line).key = user
<1> DEFINE name == line[1]
<1>1. line = <<name, "-u", user>> /\ name \in {"cloudinit", "cloudstop"}
  BY DEF CloudInitLine, CloudStopLine
<1> HIDE DEF name
<1>3. CASE user = Blank
  <2>1. ProcessLine(line, "1") = <<name, "-i", "1", "-u">>
    BY <1>1, <1>3, CommandTokens, TrimmedEnd, Injected DEF ProcessLine
  <2>2. Tail(<<name, "-i", "1", "-u">>) = <<"-i", "1", "-u">> /\ Head(<<name, "-i", "1", "-u">>) = name
    OBVIOUS
  <2>3. \A flags : ~ WellFormed(<<"-i", "1", "-u">>, flags)
    BY DEF WellFormed
  <2>4. ~ Understood(line).ok
    BY <1>1, <2>1, <2>2, <2>3 DEF Understood, ParseCloudLine, CreateCloudInit, CreateCloudStop, Parsed
  <2> QED BY <1>3, <2>4
<1>4. CASE user = "-i"
  <2>1. ProcessLine(line, "1") = <<name, "-u", user>>
    BY <1>1, <1>4, CommandTokens, TrimmedEnd, Injected DEF ProcessLine
  <2>2. Tail(<<name, "-u", user>>) = <<"-u", user>> /\ Head(<<name, "-u", user>>) = name
    OBVIOUS
  <2>3. WellFormed(<<"-u", user>>, {"-u"})
    BY DEF WellFormed, Pairs
  <2>4. Value(<<"-u", user>>, "-u", Blank) = user
    BY ValueOfFlag
  <2>5. user # Blank
    BY <1>4, CommandTokens
  <2> QED
    BY <1>1, <2>1, <2>2, <2>3, <2>4, <2>5
       DEF Understood, ParseCloudLine, CreateCloudInit, CreateCloudStop, Parsed
<1>5. CASE user # Blank /\ user # "-i"
  <2>1. ProcessLine(line, "1") = <<name, "-i", "1", "-u", user>>
    <3>1. Trimmed(line) = line
      BY <1>1, <1>5, CommandTokens, TrimmedEnd
    <3>2. InjectIIfNeeded(<<name, "-u", user>>, "1") = <<name, "-i", "1", "-u", user>>
      BY <1>1, <1>5, Injected
    <3> QED BY <1>1, <3>1, <3>2 DEF ProcessLine
  <2>2. /\ Tail(<<name, "-i", "1", "-u", user>>) = <<"-i", "1", "-u", user>>
        /\ Head(<<name, "-i", "1", "-u", user>>) = name
    OBVIOUS
  <2>3. WellFormed(<<"-i", "1", "-u", user>>, {"-u"})
    BY DEF WellFormed, Pairs
  <2>4. Value(<<"-i", "1", "-u", user>>, "-u", Blank) = user
    <3>1. \A f, v : f # "-u" => Value(<<f, v, "-u", user>>, "-u", Blank) = user
      BY ValueOfFlag
    <3>2. "-i" # "-u"
      OBVIOUS
    <3> QED BY <3>1, <3>2
  <2> QED
    BY <1>1, <1>5, <2>1, <2>2, <2>3, <2>4
       DEF Understood, ParseCloudLine, CreateCloudInit, CreateCloudStop, Parsed
<1> QED
  BY <1>3, <1>4, <1>5

-----------------------------------------------------------------------------
(* Connections and claims.                                                 *)

\* Connections are registered under their own key, and no two have the same sid.
WellRegistered ==
  /\ \A k \in Keys : Registered(k) => connections[k].ideKey = k
  /\ \A k \in Keys : Registered(k) => connections[k].sid < nextSid
  /\ \A j, k \in Keys : (Registered(j) /\ Registered(k)
                            /\ connections[j].sid = connections[k].sid) => j = k

\* What was taken out stays out; what has not been made is not claimed.
WellRemoved ==
  /\ \A l \in Links : link[l] = "notifying" =>
       /\ removed[l] \in Connection
       /\ removed[l].sid < nextSid
       /\ \A k \in Keys : Registered(k) => connections[k].sid # removed[l].sid
  /\ \A l \in Links : needsRemoving[l] => own[l] \in Connection
  /\ \A s \in Sessions : session[s] \in {"active", "told"} => holds[s] \in Connection
  /\ \A i \in 0..MaxSid : claimed[i] => i < nextSid

IInv == TypeOK /\ WellRegistered /\ WellRemoved /\ NoStuckClaim

\* No connection has been made yet.
LEMMA InitClaims == Init => IInv
<1> SUFFICES ASSUME Init PROVE IInv
  OBVIOUS
<1>1. TypeOK
  <2>1. ListTypeOK
    BY DEF Init, ListInit, ListTypeOK
  <2>2. nextSid \in 0..MaxSid /\ claimed \in [0..MaxSid -> BOOLEAN]
    BY LinksAssumption DEF Init
  <2>3. /\ link \in [Links -> {"idle", "open", "notifying", "done"}]
        /\ own \in [Links -> Connection \cup {NoConnection}]
        /\ needsRemoving \in [Links -> BOOLEAN]
        /\ removed \in [Links -> Connection \cup {NoConnection}]
    BY DEF Init
  <2>4. /\ session \in [Sessions -> {"idle", "active", "told", "done"}]
        /\ holds \in [Sessions -> Connection \cup {NoConnection}]
    BY DEF Init
  <2> QED BY <2>1, <2>2, <2>3, <2>4 DEF TypeOK
<1>2. \A k \in Keys : ~ Registered(k)
  BY DEF Init, ListInit, Registered
<1>3. WellRegistered /\ NoStuckClaim
  BY <1>2 DEF WellRegistered, NoStuckClaim
<1>4. WellRemoved
  BY <1>2 DEF Init, WellRemoved
<1> QED
  BY <1>1, <1>3, <1>4 DEF IInv

\* A registration that is deleted is gone and the others stay as they are.
LEMMA Deleted ==
  ASSUME ListTypeOK, NEW k \in Keys,
         connections' = [connections EXCEPT ![k] = NoConnection]
  PROVE  /\ ListTypeOK'
         /\ ~ Registered(k)'
         /\ \A m \in Keys : Registered(m)' => m # k /\ Registered(m)
                                              /\ connections'[m] = connections[m]
BY DEF ListTypeOK, Registered

\* What FindByKey finds is a Connection.
LEMMA FoundTypes ==
  ASSUME ListTypeOK, NEW k \in Keys
  PROVE  /\ Registered(k) <=> connections[k] \in Connection
         /\ FindByKey(k) = connections[k]
BY NoConnectionAssumption DEF ListTypeOK, Registered, FindByKey

\* cloudinit registers a connection with a sid that nothing has had before.
LEMMA CloudInitStep ==
  ASSUME IInv, NEW l \in Links, NEW user \in Keys, CloudInit(l, user)
  PROVE  IInv'
<1> DEFINE c == [ideKey |-> user, sid |-> nextSid]
<1>t. /\ TypeOK /\ WellRegistered /\ WellRemoved /\ NoStuckClaim /\ ListTypeOK
      /\ MaxSid \in Nat /\ nextSid \in 0..MaxSid
  BY LinksAssumption DEF IInv, TypeOK
<1>1. Understood(CloudInitLine(user)).key = user
  BY UserUnderstood DEF CloudInit
<1>2. PICK ok \in BOOLEAN :
        /\ Add(c, ok)
        /\ needsRemoving' = [needsRemoving EXCEPT ![l] = ok]
        /\ own' = [own EXCEPT ![l] = c]
  BY <1>1 DEF CloudInit
<1>3. /\ nextSid' = nextSid + 1 /\ nextSid < MaxSid
      /\ link' = [link EXCEPT ![l] = "open"]
      /\ UNCHANGED <<claimed, removed, session, holds>>
  BY DEF CloudInit, sessionVars
<1>4. c \in Connection /\ c.ideKey = user /\ c.sid = nextSid
  BY <1>t DEF Connection
<1>5. /\ ListTypeOK'
      /\ \A k \in Keys : Registered(k)' =>
           \/ k = user /\ connections'[k] = c
           \/ Registered(k) /\ connections'[k] = connections[k]
  <2> HIDE DEF c
  <2>1. CASE ~ Registered(user) /\ connections' = [connections EXCEPT ![user] = c]
    BY <1>t, <1>4, <2>1 DEF ListTypeOK, Registered
  <2>2. CASE connections' = [connections EXCEPT ![user] = NoConnection]
    BY <1>t, <2>2, Deleted
  <2>3. CASE UNCHANGED connections
    BY <1>t, <2>3 DEF ListTypeOK, Registered
  <2> QED BY <1>2, <1>4, <2>1, <2>2, <2>3 DEF Add
<1> HIDE DEF c
<1>6. TypeOK'
  <2>1. nextSid' \in 0..MaxSid
    BY <1>t, <1>3
  <2>2. own' \in [Links -> Connection \cup {NoConnection}]
    BY <1>t, <1>2, <1>4 DEF TypeOK
  <2>3. needsRemoving' \in [Links -> BOOLEAN] /\ link' \in [Links -> {"idle", "open", "notifying", "done"}]
    BY <1>t, <1>2, <1>3 DEF TypeOK
  <2> QED BY <1>t, <1>3, <1>5, <2>1, <2>2, <2>3 DEF TypeOK
<1>7. WellRegistered'
  <2>1. \A k \in Keys : Registered(k) => connections[k].sid \in Nat
    BY <1>t, FoundTypes DEF Connection
  <2>2. \A k \in Keys : Registered(k)' =>
          connections'[k].ideKey = k /\ connections'[k].sid < nextSid'
    BY <1>t, <1>3, <1>4, <1>5, <2>1 DEF WellRegistered
  <2>3. \A j, k \in Keys : (Registered(j)' /\ Registered(k)'
                               /\ connections'[j].sid = connections'[k].sid) => j = k
    BY <1>t, <1>4, <1>5, <2>1 DEF WellRegistered
  <2> QED BY <2>2, <2>3 DEF WellRegistered
<1>8. WellRemoved'
  <2>1. \A m \in Links : link'[m] = "notifying" => link[m] = "notifying" /\ removed'[m] = removed[m]
    BY <1>t, <1>3 DEF TypeOK
  <2>2. \A m \in Links : link[m] = "notifying" =>
          removed[m] \in Connection /\ removed[m].sid \in Nat /\ removed[m].sid < nextSid
    BY <1>t DEF WellRemoved, Connection
  <2>3. \A m \in Links : link'[m] = "notifying" =>
          /\ removed'[m] \in Connection
          /\ removed'[m].sid < nextSid'
          /\ \A k \in Keys : Registered(k)' => connections'[k].sid # removed'[m].sid
    BY <1>t, <1>3, <1>4, <1>5, <2>1, <2>2 DEF WellRemoved
  <2>4. \A m \in Links : needsRemoving'[m] => own'[m] \in Connection
    BY <1>t, <1>2, <1>4 DEF WellRemoved, TypeOK
  <2>5. \A i \in 0..MaxSid : claimed'[i] => i < nextSid'
    BY <1>t, <1>3 DEF WellRemoved
  <2>6. \A s \in Sessions : session'[s] \in {"active", "told"} => holds'[s] \in Connection
    BY <1>t, <1>3 DEF WellRemoved
  <2> QED BY <2>3, <2>4, <2>5, <2>6 DEF WellRemoved
<1>9. NoStuckClaim'
  <2> SUFFICES ASSUME NEW k \in Keys, Registered(k)', claimed'[FindByKey(k)'.sid]
               PROVE  \E s \in Sessions : session'[s] = "active" /\ holds'[s] = FindByKey(k)'
    BY DEF NoStuckClaim
  <2>1. CASE connections'[k] = c
    <3>1. claimed[nextSid]
      BY <1>3, <1>4, <2>1 DEF FindByKey
    <3> QED BY <1>t, <3>1 DEF WellRemoved
  <2>2. CASE Registered(k) /\ connections'[k] = connections[k]
    BY <1>t, <1>3, <2>2 DEF NoStuckClaim, FindByKey
  <2> QED BY <1>5, <2>1, <2>2
<1> QED
  BY <1>6, <1>7, <1>8, <1>9 DEF IInv

\* RemoveByKey takes a connection out, for cloudstop and for Close alike.
LEMMA TakeOutStep ==
  ASSUME IInv, NEW l \in Links, NEW user \in Keys, NEW otherwise \in {"open", "done"},
         link[l] \in {"idle", "open"}, TakeOut(l, user, otherwise),
         UNCHANGED <<nextSid, claimed, own, needsRemoving, session, holds>>
  PROVE  IInv'
<1>t. TypeOK /\ WellRegistered /\ WellRemoved /\ NoStuckClaim /\ ListTypeOK
  BY DEF IInv, TypeOK
<1>1. /\ connections' = [connections EXCEPT ![user] = NoConnection]
      /\ removed' = [removed EXCEPT ![l] = FindByKey(user)]
      /\ link' = [link EXCEPT ![l] = IF Registered(user) THEN "notifying" ELSE otherwise]
  BY DEF TakeOut, RemoveByKey
<1>2. /\ ListTypeOK' /\ ~ Registered(user)'
      /\ \A m \in Keys : Registered(m)' => m # user /\ Registered(m)
                                           /\ connections'[m] = connections[m]
  BY <1>t, <1>1, Deleted
<1>3. TypeOK'
  <2>1. FindByKey(user) \in Connection \cup {NoConnection}
    BY <1>t DEF FindByKey, ListTypeOK
  <2>2. removed' \in [Links -> Connection \cup {NoConnection}]
    BY <1>t, <1>1, <2>1 DEF TypeOK
  <2>3. link' \in [Links -> {"idle", "open", "notifying", "done"}]
    BY <1>t, <1>1 DEF TypeOK
  <2> QED BY <1>t, <1>2, <2>2, <2>3 DEF TypeOK
<1>4. WellRegistered'
  BY <1>t, <1>2 DEF WellRegistered
<1>5. WellRemoved'
  <2>1. ASSUME NEW m \in Links, link'[m] = "notifying"
        PROVE  /\ removed'[m] \in Connection
               /\ removed'[m].sid < nextSid'
               /\ \A k \in Keys : Registered(k)' => connections'[k].sid # removed'[m].sid
    <3>1. CASE m = l
      <4>1. Registered(user) /\ removed'[m] = connections[user]
        BY <1>t, <1>1, <2>1, <3>1 DEF TypeOK, FindByKey
      <4>2. connections[user] \in Connection /\ connections[user].sid < nextSid
        BY <1>t, <4>1, FoundTypes DEF WellRegistered
      <4>3. \A k \in Keys : Registered(k)' => connections'[k].sid # connections[user].sid
        BY <1>t, <1>2, <4>1 DEF WellRegistered
      <4> QED BY <4>1, <4>2, <4>3
    <3>2. CASE m # l
      <4>1. link[m] = "notifying" /\ removed'[m] = removed[m]
        BY <1>t, <1>1, <2>1, <3>2 DEF TypeOK
      <4> QED BY <1>t, <1>2, <4>1 DEF WellRemoved
    <3> QED BY <3>1, <3>2
  <2>2. /\ \A m \in Links : needsRemoving'[m] => own'[m] \in Connection
        /\ \A s \in Sessions : session'[s] \in {"active", "told"} => holds'[s] \in Connection
        /\ \A i \in 0..MaxSid : claimed'[i] => i < nextSid'
    BY <1>t DEF WellRemoved
  <2> QED BY <2>1, <2>2 DEF WellRemoved
<1>6. NoStuckClaim'
  BY <1>t, <1>2 DEF NoStuckClaim, FindByKey
<1> QED
  BY <1>3, <1>4, <1>5, <1>6 DEF IInv

\* The rest of RemoveByKey reaches no session of a registered connection.
LEMMA NotifyStep ==
  ASSUME IInv, NEW l \in Links, Notify(l)
  PROVE  IInv'
<1>t. /\ TypeOK /\ WellRegistered /\ WellRemoved /\ NoStuckClaim
      /\ link[l] = "notifying"
  BY DEF IInv, Notify
<1>1. /\ link' = [link EXCEPT ![l] = IF needsRemoving[l] THEN "done" ELSE "open"]
      /\ removed' = [removed EXCEPT ![l] = NoConnection]
      /\ UNCHANGED <<connections, nextSid, claimed, own, needsRemoving, holds>>
  BY DEF Notify
<1>2. \/ UNCHANGED session
      \/ \E s \in Sessions : /\ session[s] = "active" /\ holds[s] = removed[l]
                             /\ session' = [session EXCEPT ![s] = "told"]
  BY DEF Notify
<1>3. /\ session' \in [Sessions -> {"idle", "active", "told", "done"}]
      /\ \A s \in Sessions : session'[s] \in {"active", "told"} => session[s] \in {"active", "told"}
      /\ \A s \in Sessions : session[s] = "active" =>
           session'[s] = "active" \/ holds[s] = removed[l]
  BY <1>t, <1>2 DEF TypeOK
<1>4. TypeOK'
  <2>1. link' \in [Links -> {"idle", "open", "notifying", "done"}]
    BY <1>t, <1>1 DEF TypeOK
  <2>2. removed' \in [Links -> Connection \cup {NoConnection}]
    BY <1>t, <1>1 DEF TypeOK
  <2> QED BY <1>t, <1>1, <1>3, <2>1, <2>2 DEF TypeOK, ListTypeOK
<1>5. WellRegistered'
  BY <1>t, <1>1 DEF WellRegistered, Registered
<1>6. WellRemoved'
  <2>1. \A m \in Links : link'[m] = "notifying" => link[m] = "notifying" /\ removed'[m] = removed[m]
    BY <1>t, <1>1 DEF TypeOK
  <2> QED BY <1>t, <1>1, <1>3, <2>1 DEF WellRemoved, Registered
<1>7. NoStuckClaim'
  <2> SUFFICES ASSUME NEW k \in Keys, Registered(k), claimed[connections[k].sid]
               PROVE  \E s \in Sessions : session'[s] = "active" /\ holds[s] = connections[k]
    BY <1>1 DEF NoStuckClaim, FindByKey, Registered
  <2>1. PICK s \in Sessions : session[s] = "active" /\ holds[s] = connections[k]
    BY <1>t DEF NoStuckClaim, FindByKey
  <2>2. holds[s] # removed[l]
    BY <1>t, <2>1 DEF WellRemoved
  <2> QED BY <1>3, <2>1, <2>2
<1> QED
  BY <1>4, <1>5, <1>6, <1>7 DEF IInv

\* An engine gets a registered connection to itself, or none.
LEMMA ClaimStep ==
  ASSUME IInv, NEW s \in Sessions, NEW user \in Keys, ClaimConnection(s, user)
  PROVE  IInv'
<1>t. TypeOK /\ WellRegistered /\ WellRemoved /\ NoStuckClaim /\ ListTypeOK
  BY DEF IInv, TypeOK
<1>0. UNCHANGED <<connections, nextSid, link, own, needsRemoving, removed>>
  BY DEF ClaimConnection, linkVars
<1>1. session[s] = "idle"
  BY DEF ClaimConnection
<1>2. CASE /\ Registered(user)
           /\ claimed' = [claimed EXCEPT ![FindByKey(user).sid] = TRUE]
           /\ holds' = [holds EXCEPT ![s] = FindByKey(user)]
           /\ session' = [session EXCEPT ![s] = "active"]
  <2>1. connections[user] \in Connection /\ FindByKey(user) = connections[user]
    BY <1>t, <1>2, FoundTypes
  <2>2. TypeOK'
    BY <1>t, <1>0, <1>2, <2>1 DEF TypeOK, ListTypeOK
  <2>3. WellRegistered'
    BY <1>t, <1>0 DEF WellRegistered, Registered
  <2>4. WellRemoved'
    <3>1. \A r \in Sessions : session'[r] \in {"active", "told"} => holds'[r] \in Connection
      BY <1>t, <1>2, <2>1 DEF WellRemoved, TypeOK
    <3>2. connections[user].sid < nextSid
      BY <1>t, <1>2 DEF WellRegistered
    <3>3. \A i \in 0..MaxSid : claimed'[i] => i < nextSid
      BY <1>t, <1>2, <2>1, <3>2 DEF WellRemoved, TypeOK
    <3> QED BY <1>t, <1>0, <3>1, <3>3 DEF WellRemoved, Registered
  <2>5. NoStuckClaim'
    <3> SUFFICES ASSUME NEW k \in Keys, Registered(k), claimed'[connections[k].sid]
                 PROVE  \E r \in Sessions : session'[r] = "active" /\ holds'[r] = connections[k]
      BY <1>0 DEF NoStuckClaim, FindByKey, Registered
    <3>1. CASE k = user
      BY <1>t, <1>2, <2>1, <3>1 DEF TypeOK
    <3>2. CASE k # user
      <4>1. connections[k].sid # connections[user].sid
        BY <1>t, <1>2, <3>2 DEF WellRegistered
      <4>2. claimed[connections[k].sid]
        BY <1>t, <1>2, <2>1, <4>1 DEF TypeOK
      <4>3. PICK r \in Sessions : session[r] = "active" /\ holds[r] = connections[k]
        BY <1>t, <4>2 DEF NoStuckClaim, FindByKey
      <4> QED BY <1>t, <1>1, <1>2, <4>3 DEF TypeOK
    <3> QED BY <3>1, <3>2
  <2> QED BY <2>2, <2>3, <2>4, <2>5 DEF IInv
<1>3. CASE session' = [session EXCEPT ![s] = "done"] /\ UNCHANGED <<claimed, holds>>
  <2>1. TypeOK'
    BY <1>t, <1>0, <1>3 DEF TypeOK, ListTypeOK
  <2>2. WellRegistered'
    BY <1>t, <1>0 DEF WellRegistered, Registered
  <2>3. WellRemoved'
    <3>1. \A r \in Sessions : session'[r] \in {"active", "told"} => holds'[r] \in Connection
      BY <1>t, <1>3 DEF WellRemoved, TypeOK
    <3> QED BY <1>t, <1>0, <1>3, <3>1 DEF WellRemoved, Registered
  <2>4. NoStuckClaim'
    BY <1>t, <1>0, <1>1, <1>3 DEF NoStuckClaim, FindByKey, Registered, TypeOK
  <2> QED BY <2>1, <2>2, <2>3, <2>4 DEF IInv
<1> QED
  BY <1>2, <1>3 DEF ClaimConnection

\* A claim is given back by key: whatever is registered for it is free.
LEMMA UnclaimStep ==
  ASSUME IInv, NEW s \in Sessions, UnclaimConnection(s)
  PROVE  IInv'
<1> DEFINE user == holds[s].ideKey
<1>t. TypeOK /\ WellRegistered /\ WellRemoved /\ NoStuckClaim /\ ListTypeOK
  BY DEF IInv, TypeOK
<1>0. UNCHANGED <<connections, nextSid, link, own, needsRemoving, removed, holds>>
  BY DEF UnclaimConnection, linkVars
<1>1. /\ session[s] \in {"active", "told"}
      /\ session' = [session EXCEPT ![s] = "done"]
      /\ claimed' = IF Registered(user)
                      THEN [claimed EXCEPT ![FindByKey(user).sid] = FALSE] ELSE claimed
  BY DEF UnclaimConnection
<1>2. holds[s] \in Connection /\ user \in Keys
  BY <1>t, <1>1 DEF WellRemoved, Connection
<1> HIDE DEF user
<1>3. \A i \in 0..MaxSid : claimed'[i] => claimed[i]
  BY <1>t, <1>1 DEF TypeOK
<1>4. TypeOK'
  BY <1>t, <1>0, <1>1 DEF TypeOK, ListTypeOK
<1>5. WellRegistered'
  BY <1>t, <1>0 DEF WellRegistered, Registered
<1>6. WellRemoved'
  <2>1. \A r \in Sessions : session'[r] \in {"active", "told"} => holds'[r] \in Connection
    BY <1>t, <1>0, <1>1 DEF WellRemoved, TypeOK
  <2> QED BY <1>t, <1>0, <1>3, <2>1 DEF WellRemoved, Registered
<1>7. NoStuckClaim'
  <2> SUFFICES ASSUME NEW k \in Keys, Registered(k), claimed'[connections[k].sid]
               PROVE  \E r \in Sessions : session'[r] = "active" /\ holds[r] = connections[k]
    BY <1>0 DEF NoStuckClaim, FindByKey, Registered
  <2>0. connections[k].sid \in 0..MaxSid
    <3>1. connections[k].sid \in Nat /\ connections[k].sid < nextSid
      BY <1>t, FoundTypes DEF WellRegistered, Connection
    <3> QED BY <1>t, <3>1, LinksAssumption DEF TypeOK
  <2>1. k # user
    BY <1>t, <1>1, <2>0 DEF TypeOK, FindByKey
  <2>2. PICK r \in Sessions : session[r] = "active" /\ holds[r] = connections[k]
    BY <1>t, <1>3, <2>0 DEF NoStuckClaim, FindByKey
  <2>3. r # s
    BY <1>t, <2>1, <2>2 DEF WellRegistered, user
  <2> QED BY <1>t, <1>1, <2>2, <2>3 DEF TypeOK
<1> QED
  BY <1>4, <1>5, <1>6, <1>7 DEF IInv

\* Every step of a link and of a session keeps the claims right.
LEMMA NextClaims == IInv /\ [Next]_vars => IInv'
<1> SUFFICES ASSUME IInv, [Next]_vars PROVE IInv'
  OBVIOUS
<1>1. ASSUME NEW l \in Links, NEW user \in Keys, CloudInit(l, user)
      PROVE  IInv'
  BY <1>1, CloudInitStep
<1>2. ASSUME NEW l \in Links, NEW user \in Keys, CloudStop(l, user)
      PROVE  IInv'
  <2>1. Understood(CloudStopLine(user)).key = user
    BY <1>2, UserUnderstood DEF CloudStop
  <2>2. link[l] = "idle" /\ TakeOut(l, user, "open")
    BY <1>2, <2>1 DEF CloudStop
  <2>3. UNCHANGED <<nextSid, claimed, own, needsRemoving, session, holds>>
    BY <1>2 DEF CloudStop, sessionVars
  <2> QED BY <2>2, <2>3, TakeOutStep
<1>3. ASSUME NEW l \in Links, Close(l)
      PROVE  IInv'
  <2>1. link[l] = "open" /\ UNCHANGED <<nextSid, claimed, own, needsRemoving, session, holds>>
    BY <1>3 DEF Close, sessionVars
  <2>2. CASE needsRemoving[l] /\ TakeOut(l, own[l].ideKey, "done")
    <3>1. own[l].ideKey \in Keys
      BY <2>2 DEF IInv, WellRemoved, Connection
    <3> QED BY <2>1, <2>2, <3>1, TakeOutStep
  <2>3. CASE link' = [link EXCEPT ![l] = "done"] /\ UNCHANGED <<connections, removed>>
    <3>1. TypeOK'
      BY <2>1, <2>3 DEF IInv, TypeOK, ListTypeOK
    <3>2. WellRegistered' /\ NoStuckClaim'
      BY <2>1, <2>3 DEF IInv, WellRegistered, NoStuckClaim, Registered, FindByKey
    <3>3. WellRemoved'
      <4>1. \A m \in Links : link'[m] = "notifying" => link[m] = "notifying"
        BY <2>3 DEF IInv, TypeOK
      <4> QED BY <2>1, <2>3, <4>1 DEF IInv, WellRemoved, Registered
    <3> QED BY <3>1, <3>2, <3>3 DEF IInv
  <2> QED BY <1>3, <2>2, <2>3 DEF Close
<1>4. ASSUME NEW l \in Links, Notify(l)
      PROVE  IInv'
  BY <1>4, NotifyStep
<1>5. ASSUME NEW s \in Sessions, NEW user \in Keys, ClaimConnection(s, user)
      PROVE  IInv'
  BY <1>5, ClaimStep
<1>6. ASSUME NEW s \in Sessions, UnclaimConnection(s)
      PROVE  IInv'
  BY <1>6, UnclaimStep
<1>7. CASE UNCHANGED vars
  BY <1>7 DEF vars, linkVars, sessionVars, IInv, TypeOK, ListTypeOK, WellRegistered,
              WellRemoved, NoStuckClaim, Registered, FindByKey
<1> QED
  BY <1>1, <1>2, <1>3, <1>4, <1>5, <1>6, <1>7 DEF Next

\* In every reachable state, whatever order IDEs and engines come and go in: the
\* list, the claims and every goroutine hold values of their types.
THEOREM TypesAreRight == Spec => []TypeOK
<1>1. Init => IInv
  BY InitClaims
<1>2. IInv /\ [Next]_vars => IInv'
  BY NextClaims
<1>3. IInv => TypeOK
  BY DEF IInv
<1> QED
  BY <1>1, <1>2, <1>3, PTL DEF Spec

\* In every reachable state: a registered connection that counts as claimed is in
\* the hands of a session that has still to give it back, so that no user is
\* locked out (ClaimConnection, UnclaimConnection, RemoveByKey).
THEOREM NobodyLockedOut == Spec => []NoStuckClaim
<1>1. Init => IInv
  BY InitClaims
<1>2. IInv /\ [Next]_vars => IInv'
  BY NextClaims
<1>3. IInv => NoStuckClaim
  BY DEF IInv
<1> QED
  BY <1>1, <1>2, <1>3, PTL DEF Spec

\* Nobody touches the claim of a connection that RemoveByKey has taken out: to claim
\* one, or to give one back, it is looked up by key.
LEMMA ClaimKept ==
  ASSUME IInv, Next, NEW l \in Links, link[l] = "notifying"
  PROVE  claimed'[removed[l].sid] = claimed[removed[l].sid]
<1>1. TypeOK /\ WellRegistered /\ WellRemoved /\ ListTypeOK
  BY DEF IInv, TypeOK
<1>2. \A k \in Keys : Registered(k) => connections[k].sid # removed[l].sid
  BY <1>1 DEF WellRemoved
<1>3. removed[l].sid \in 0..MaxSid
  <2>1. removed[l].sid \in Nat /\ removed[l].sid < nextSid
    BY <1>1 DEF WellRemoved, Connection
  <2> QED BY <1>1, <2>1, LinksAssumption DEF TypeOK
<1>4. ASSUME NEW k \in Keys, Registered(k), NEW value \in BOOLEAN,
             claimed' = [claimed EXCEPT ![connections[k].sid] = value]
      PROVE  claimed'[removed[l].sid] = claimed[removed[l].sid]
  BY <1>1, <1>2, <1>3, <1>4 DEF TypeOK
<1>5. ASSUME NEW s \in Sessions, NEW user \in Keys, ClaimConnection(s, user)
      PROVE  claimed'[removed[l].sid] = claimed[removed[l].sid]
  <2>1. CASE Registered(user) /\ claimed' = [claimed EXCEPT ![connections[user].sid] = TRUE]
    BY <1>4, <2>1
  <2> QED BY <1>5, <2>1 DEF ClaimConnection, FindByKey
<1>6. ASSUME NEW s \in Sessions, UnclaimConnection(s)
      PROVE  claimed'[removed[l].sid] = claimed[removed[l].sid]
  <2> DEFINE user == holds[s].ideKey
  <2>1. user \in Keys
    BY <1>1, <1>6 DEF UnclaimConnection, WellRemoved, Connection
  <2>2. claimed' = IF Registered(user) THEN [claimed EXCEPT ![connections[user].sid] = FALSE]
                                       ELSE claimed
    BY <1>6 DEF UnclaimConnection, FindByKey
  <2> HIDE DEF user
  <2> QED BY <1>4, <2>1, <2>2
<1>7. ASSUME NEW m \in Links, NEW user \in Keys, CloudInit(m, user) \/ CloudStop(m, user)
      PROVE  UNCHANGED claimed
  BY <1>7 DEF CloudInit, CloudStop
<1>8. ASSUME NEW m \in Links, Close(m) \/ Notify(m)
      PROVE  UNCHANGED claimed
  BY <1>8 DEF Close, Notify
<1> QED
  BY <1>5, <1>6, <1>7, <1>8 DEF Next

\* Between the unlock in RemoveByKey and its look at the claim, no step changes
\* that claim (RemoveByKey, ClaimConnection, UnclaimConnection).
THEOREM RemovalIsSafe == Spec => RemovalSeesClaim
<1> DEFINE Kept == \A l \in Links : (link[l] = "notifying" /\ link'[l] = "notifying") =>
                     claimed'[removed[l].sid] = claimed[removed[l].sid]
<1>1. Init => IInv
  BY InitClaims
<1>2. IInv /\ [Next]_vars => IInv'
  BY NextClaims
<1>3. IInv /\ [Next]_vars => [Kept]_vars
  BY ClaimKept
<1> QED
  BY <1>1, <1>2, <1>3, PTL DEF Spec, RemovalSeesClaim

-----------------------------------------------------------------------------
(* Whom RemoveByKey tells.                                                 *)

\* RemoveByKey can return: nobody has claimed what it took out, or the session that
\* has is there to take the message.
Hears(l) ==
  \/ ~ claimed[removed[l].sid]
  \/ \E s \in Sessions : session[s] = "active" /\ holds[s] = removed[l]

\* The message is never sent into the void but for one reason, that the session it
\* is for has ended of itself.
RemovalIsHeard ==
  \A l \in Links : link[l] = "notifying" =>
    Hears(l) \/ \E s \in Sessions : session[s] = "done" /\ holds[s] = removed[l]

\* No two links remove the same connection, so that none waits for a session that
\* another has already told.
OneRemoval ==
  \A l, m \in Links : (link[l] = "notifying" /\ link[m] = "notifying"
                         /\ removed[l].sid = removed[m].sid) => l = m

\* A session is told to close only when its connection is gone, for good.
ToldWhenGone ==
  \A s \in Sessions : session[s] = "told" =>
    /\ holds[s].sid < nextSid
    /\ \A k \in Keys : Registered(k) => connections[k].sid # holds[s].sid

HearInv == IInv /\ RemovalIsHeard /\ OneRemoval /\ ToldWhenGone

\* A step of a session keeps it: one that holds a connection may end, but only one
\* that holds none begins.
LEMMA SessionHears ==
  ASSUME HearInv, Next, NEW s \in Sessions,
         (\E user \in Keys : ClaimConnection(s, user)) \/ UnclaimConnection(s)
  PROVE  HearInv'
<1>1. /\ IInv /\ IInv' /\ RemovalIsHeard /\ OneRemoval /\ ToldWhenGone
      /\ holds \in [Sessions -> Connection \cup {NoConnection}]
      /\ session \in [Sessions -> {"idle", "active", "told", "done"}]
  BY NextClaims DEF HearInv, IInv, TypeOK
<1>2. UNCHANGED <<connections, nextSid, link, removed>>
  BY DEF ClaimConnection, UnclaimConnection, linkVars
<1>3. \/ /\ session[s] = "idle"
         /\ \E state \in {"active", "done"} : session' = [session EXCEPT ![s] = state]
         /\ \/ UNCHANGED holds
            \/ \E user \in Keys : holds' = [holds EXCEPT ![s] = FindByKey(user)]
      \/ /\ session[s] \in {"active", "told"}
         /\ session' = [session EXCEPT ![s] = "done"]
         /\ UNCHANGED holds
  BY DEF ClaimConnection, UnclaimConnection
<1>4. \A r \in Sessions : session[r] \in {"active", "done"} =>
        /\ holds'[r] = holds[r]
        /\ session'[r] \in {session[r], "done"}
  BY <1>1, <1>3
<1>5. RemovalIsHeard'
  <2> SUFFICES ASSUME NEW l \in Links, link[l] = "notifying", claimed'[removed[l].sid]
               PROVE  \E r \in Sessions : /\ session'[r] \in {"active", "done"}
                                          /\ holds'[r] = removed[l]
    BY <1>2 DEF RemovalIsHeard, Hears
  <2>1. claimed[removed[l].sid]
    BY <1>1, ClaimKept
  <2>2. PICK r \in Sessions : session[r] \in {"active", "done"} /\ holds[r] = removed[l]
    BY <1>1, <2>1 DEF RemovalIsHeard, Hears
  <2> QED BY <1>4, <2>2
<1>6. OneRemoval'
  BY <1>1, <1>2 DEF OneRemoval
<1>7. ToldWhenGone'
  <2>1. \A r \in Sessions : session'[r] = "told" => session[r] = "told" /\ holds'[r] = holds[r]
    BY <1>1, <1>3
  <2> QED BY <1>1, <1>2, <2>1 DEF ToldWhenGone, Registered
<1> QED
  BY <1>1, <1>5, <1>6, <1>7 DEF HearInv

\* RemoveByKey takes out a connection that no other link has, and whose session, if
\* it is claimed, has still to give it back.
LEMMA TakeOutHears ==
  ASSUME HearInv, IInv', NEW l \in Links, NEW user \in Keys, NEW otherwise \in {"open", "done"},
         link[l] \in {"idle", "open"}, TakeOut(l, user, otherwise),
         UNCHANGED <<nextSid, claimed, session, holds>>
  PROVE  HearInv'
<1>1. /\ IInv /\ TypeOK /\ WellRegistered /\ WellRemoved /\ NoStuckClaim /\ ListTypeOK
      /\ RemovalIsHeard /\ OneRemoval /\ ToldWhenGone
      /\ link \in [Links -> {"idle", "open", "notifying", "done"}]
      /\ removed \in [Links -> Connection \cup {NoConnection}]
  BY DEF HearInv, IInv, TypeOK
<1>2. /\ connections' = [connections EXCEPT ![user] = NoConnection]
      /\ removed' = [removed EXCEPT ![l] = FindByKey(user)]
      /\ link' = [link EXCEPT ![l] = IF Registered(user) THEN "notifying" ELSE otherwise]
  BY DEF TakeOut, RemoveByKey
<1>3. \A k \in Keys : Registered(k)' => Registered(k) /\ connections'[k] = connections[k]
  BY <1>1, <1>2, Deleted
<1>4. \A m \in Links \ {l} : link'[m] = link[m] /\ removed'[m] = removed[m]
  BY <1>1, <1>2
<1>5. link'[l] = "notifying" =>
        Registered(user) /\ removed'[l] = connections[user] /\ FindByKey(user) = connections[user]
  BY <1>1, <1>2 DEF FindByKey
<1>6. RemovalIsHeard'
  <2> SUFFICES ASSUME NEW m \in Links, link'[m] = "notifying", claimed[removed'[m].sid]
               PROVE  \E r \in Sessions : /\ session[r] \in {"active", "done"}
                                          /\ holds[r] = removed'[m]
    BY DEF RemovalIsHeard, Hears
  <2>1. CASE m = l
    BY <1>1, <1>5, <2>1 DEF NoStuckClaim
  <2>2. CASE m # l
    BY <1>1, <1>4, <2>2 DEF RemovalIsHeard, Hears
  <2> QED BY <2>1, <2>2
<1>7. OneRemoval'
  <2>1. ASSUME NEW m \in Links \ {l}, link'[m] = "notifying", link'[l] = "notifying"
        PROVE  removed'[m].sid # removed'[l].sid
    BY <1>1, <1>4, <1>5, <2>1 DEF WellRemoved
  <2> QED BY <1>1, <1>4, <2>1 DEF OneRemoval
<1>8. ToldWhenGone'
  BY <1>1, <1>3 DEF ToldWhenGone
<1> QED
  BY <1>6, <1>7, <1>8 DEF HearInv

\* A link that has told its session, or found that there is none, takes nobody else's
\* from him.
LEMMA NotifyHears ==
  ASSUME HearInv, IInv', NEW l \in Links, Notify(l)
  PROVE  HearInv'
<1>1. /\ IInv /\ TypeOK /\ WellRemoved /\ RemovalIsHeard /\ OneRemoval /\ ToldWhenGone
      /\ link \in [Links -> {"idle", "open", "notifying", "done"}]
      /\ removed \in [Links -> Connection \cup {NoConnection}]
      /\ session \in [Sessions -> {"idle", "active", "told", "done"}]
  BY DEF HearInv, IInv, TypeOK
<1>2. /\ link[l] = "notifying"
      /\ link' = [link EXCEPT ![l] = IF needsRemoving[l] THEN "done" ELSE "open"]
      /\ removed' = [removed EXCEPT ![l] = NoConnection]
      /\ UNCHANGED <<connections, nextSid, claimed, own, needsRemoving, holds>>
  BY DEF Notify
<1>3. \/ UNCHANGED session
      \/ \E s \in Sessions : /\ session[s] = "active" /\ holds[s] = removed[l]
                             /\ session' = [session EXCEPT ![s] = "told"]
  BY DEF Notify
<1>4. \A m \in Links : link'[m] = "notifying" =>
        m # l /\ link[m] = "notifying" /\ removed'[m] = removed[m]
  BY <1>1, <1>2
<1>5. \A r \in Sessions : \/ session'[r] = session[r]
                          \/ /\ session[r] = "active" /\ session'[r] = "told"
                             /\ holds[r] = removed[l]
  BY <1>1, <1>3
<1>6. RemovalIsHeard'
  <2> SUFFICES ASSUME NEW m \in Links, link'[m] = "notifying", claimed[removed[m].sid]
               PROVE  \E r \in Sessions : /\ session'[r] \in {"active", "done"}
                                          /\ holds[r] = removed[m]
    BY <1>2, <1>4 DEF RemovalIsHeard, Hears
  <2>1. PICK r \in Sessions : session[r] \in {"active", "done"} /\ holds[r] = removed[m]
    BY <1>1, <1>4 DEF RemovalIsHeard, Hears
  <2>2. holds[r] # removed[l]
    BY <1>1, <1>2, <1>4, <2>1 DEF OneRemoval
  <2> QED BY <1>5, <2>1, <2>2
<1>7. OneRemoval'
  BY <1>1, <1>4 DEF OneRemoval
<1>8. ToldWhenGone'
  BY <1>1, <1>2, <1>5 DEF ToldWhenGone, WellRemoved, Registered
<1> QED
  BY <1>6, <1>7, <1>8 DEF HearInv

\* A connection that cloudinit registers is nobody's yet.
LEMMA CloudInitHears ==
  ASSUME HearInv, IInv', NEW l \in Links, NEW user \in Keys, CloudInit(l, user)
  PROVE  HearInv'
<1> DEFINE c == [ideKey |-> user, sid |-> nextSid]
<1>1. /\ IInv /\ TypeOK /\ WellRegistered /\ WellRemoved /\ ListTypeOK
      /\ RemovalIsHeard /\ OneRemoval /\ ToldWhenGone
      /\ link \in [Links -> {"idle", "open", "notifying", "done"}]
      /\ nextSid \in Nat
  BY LinksAssumption DEF HearInv, IInv, TypeOK
<1>2. /\ nextSid' = nextSid + 1
      /\ link' = [link EXCEPT ![l] = "open"]
      /\ UNCHANGED <<claimed, removed, session, holds>>
  BY DEF CloudInit, sessionVars
<1>3. PICK ok \in BOOLEAN : Add(c, ok)
  BY UserUnderstood DEF CloudInit
<1>4. c.ideKey = user /\ c.sid = nextSid
  OBVIOUS
<1>5. \A k \in Keys : Registered(k)' =>
        \/ connections'[k] = c
        \/ Registered(k) /\ connections'[k] = connections[k]
  <2> HIDE DEF c
  <2> QED BY <1>1, <1>3, <1>4 DEF Add, ListTypeOK, Registered
<1> HIDE DEF c
<1>6. \A m \in Links : link'[m] = "notifying" => link[m] = "notifying"
  BY <1>1, <1>2
<1>7. RemovalIsHeard' /\ OneRemoval'
  BY <1>1, <1>2, <1>6 DEF RemovalIsHeard, Hears, OneRemoval
<1>8. ToldWhenGone'
  <2> SUFFICES ASSUME NEW s \in Sessions, session[s] = "told"
               PROVE  /\ holds[s].sid < nextSid + 1
                      /\ \A k \in Keys : Registered(k)' => connections'[k].sid # holds[s].sid
    BY <1>2 DEF ToldWhenGone
  <2>1. holds[s].sid \in Nat /\ holds[s].sid < nextSid
    BY <1>1 DEF ToldWhenGone, WellRemoved, Connection
  <2>2. \A k \in Keys : Registered(k)' => connections'[k].sid # holds[s].sid
    BY <1>1, <1>4, <1>5, <2>1 DEF ToldWhenGone
  <2> QED BY <1>1, <2>1, <2>2
<1> QED
  BY <1>7, <1>8 DEF HearInv

\* Every step of a link and of a session keeps it.
LEMMA NextHears == HearInv /\ [Next]_vars => HearInv'
<1> SUFFICES ASSUME HearInv, [Next]_vars PROVE HearInv'
  OBVIOUS
<1>1. IInv /\ IInv'
  BY NextClaims DEF HearInv
<1>2. CASE UNCHANGED vars
  BY <1>1, <1>2 DEF HearInv, RemovalIsHeard, Hears, OneRemoval, ToldWhenGone, Registered,
                    vars, linkVars, sessionVars
<1>3. ASSUME NEW l \in Links, NEW user \in Keys, CloudStop(l, user)
      PROVE  HearInv'
  <2>1. Understood(CloudStopLine(user)).key = user
    BY <1>3, UserUnderstood DEF CloudStop
  <2>2. link[l] = "idle" /\ TakeOut(l, user, "open") /\ UNCHANGED <<nextSid, claimed, session, holds>>
    BY <1>3, <2>1 DEF CloudStop, sessionVars
  <2> QED BY <1>1, <2>2, TakeOutHears
<1>4. ASSUME NEW l \in Links, Close(l)
      PROVE  HearInv'
  <2>1. link[l] = "open" /\ UNCHANGED <<nextSid, claimed, session, holds>>
    BY <1>4 DEF Close, sessionVars
  <2>2. CASE needsRemoving[l] /\ TakeOut(l, own[l].ideKey, "done")
    <3>1. own[l].ideKey \in Keys
      BY <1>1, <2>2 DEF IInv, WellRemoved, Connection
    <3> QED BY <1>1, <2>1, <2>2, <3>1, TakeOutHears
  <2>3. CASE link' = [link EXCEPT ![l] = "done"] /\ UNCHANGED <<connections, removed>>
    <3>1. \A m \in Links : link'[m] = "notifying" => link[m] = "notifying"
      BY <1>1, <2>3 DEF IInv, TypeOK
    <3> QED
      BY <1>1, <2>1, <2>3, <3>1
         DEF HearInv, RemovalIsHeard, Hears, OneRemoval, ToldWhenGone, Registered
  <2> QED BY <1>4, <2>2, <2>3 DEF Close
<1> QED
  BY <1>1, <1>2, <1>3, <1>4, CloudInitHears, NotifyHears, SessionHears DEF Next

\* There is nobody to tell at first.
LEMMA InitHears == Init => HearInv
<1> SUFFICES ASSUME Init PROVE HearInv
  OBVIOUS
<1>1. IInv
  BY InitClaims
<1>2. RemovalIsHeard /\ OneRemoval /\ ToldWhenGone
  BY DEF Init, RemovalIsHeard, OneRemoval, ToldWhenGone
<1> QED
  BY <1>1, <1>2 DEF HearInv

\* RemoveByKey can send its message, or has nobody to send it to, for any number of
\* links and sessions, unless the session ended of itself between the unlock and
\* the send: what RemovalHeeded says without fairness.
THEOREM RemovalsAreHeard == Spec => []RemovalIsHeard
<1>1. HearInv => RemovalIsHeard
  BY DEF HearInv
<1> QED BY <1>1, InitHears, NextHears, PTL DEF Spec

\* No connection is removed twice: the link that CloudStop serves and the one that
\* Close serves cannot both be telling the same session, of which one would wait for
\* ever (RemoveByKey's lookup and deletion under one lock).
THEOREM RemovedOnce == Spec => []OneRemoval
<1>1. HearInv => OneRemoval
  BY DEF HearInv
<1> QED BY <1>1, InitHears, NextHears, PTL DEF Spec

\* A session is never told to close while its IDE is still registered, nor after the
\* same connection came back (RemoveByKey deletes before it tells).
THEOREM ToldNotTooSoon == Spec => []ToldWhenGone
<1>1. HearInv => ToldWhenGone
  BY DEF HearInv
<1> QED BY <1>1, InitHears, NextHears, PTL DEF Spec

=============================================================================
