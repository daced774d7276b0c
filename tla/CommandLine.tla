----------------------------- MODULE CommandLine -----------------------------
(***************************************************************************)
(* The commands of the protocol as they travel: built and numbered by      *)
(* dbgpClient (lib/protocol/dbgp-client.go, dbgpClient/proxy.go), split    *)
(* and understood by DbgpServer (lib/protocol/dbgp-server.go, lib/command).*)
(* A line is the sequence of its tokens: what strings.Split makes of it    *)
(* between spaces, so that two spaces in a row have an empty token between *)
(* them.                                                                   *)
(***************************************************************************)
EXTENDS Naturals, Sequences, SequencesExt

CONSTANT Numerals  \* the tokens strconv.Atoi accepts

ASSUME NumeralsAssumption == {"1", "9003"} \subseteq Numerals

\* The token between two spaces.
Blank == ""

-----------------------------------------------------------------------------
(* The sending side.                                                       *)

\* strings.TrimSpace, then strings.Split.
Trimmed(line) ==
  LET full == {i \in DOMAIN line : line[i] # Blank}
  IN IF full = {} THEN <<Blank>>
     ELSE SubSeq(line, CHOOSE i \in full : \A j \in full : i <= j,
                       CHOOSE i \in full : \A j \in full : i >= j)

\* Variant of InjectIIfNeeded that puts the flag in front.
InjectIInFront(parts, counter) == <<"-i", counter>> \o parts

\* Adds a transaction id, unless the line has one, or anything that looks so.
InjectIIfNeeded(parts, counter) ==
  IF Contains(parts, "-i") THEN parts
  ELSE <<Head(parts), "-i", counter>> \o Tail(parts)

\* What SendCommand writes for a line.
ProcessLine(line, counter) == InjectIIfNeeded(Trimmed(line), counter)

\* The command of registerWithProxy; a key with spaces in it is several tokens.
RegisterLine(key, port, ssl) ==
  <<"proxyinit", "-m", "1", "-k">> \o key \o <<"-p", port>>
    \o (IF ssl THEN <<"-s", "1">> ELSE <<>>)

\* The command of unregisterWithProxy.
UnregisterLine(key) == <<"proxystop", "-k">> \o key

\* The commands with which a user is connected to and taken off the Cloud.
CloudInitLine(user) == <<"cloudinit", "-u", user>>
CloudStopLine(user) == <<"cloudstop", "-u", user>>

-----------------------------------------------------------------------------
(***************************************************************************)
(* The receiving side.  The four parsers have the same loop, which takes   *)
(* the tokens two by two: a flag and its value.                            *)
(***************************************************************************)
Pairs(arguments) ==
  [i \in 1..(Len(arguments) \div 2) |->
     [flag |-> arguments[2 * i - 1], value |-> arguments[2 * i]]]

\* The value of the last pair with a flag.
Value(arguments, flag, default) ==
  LET pairs == Pairs(arguments)
      given == {i \in DOMAIN pairs : pairs[i].flag = flag}
  IN IF given = {} THEN default
     ELSE pairs[CHOOSE i \in given : \A j \in given : i >= j].value

\* The loop ends without an error and no flag is left without a value.
WellFormed(arguments, flags) ==
  /\ Len(arguments) % 2 = 0
  /\ \A i \in DOMAIN Pairs(arguments) :
       LET pair == Pairs(arguments)[i]
       IN /\ pair.flag \in flags \cup {"-i"}
          /\ pair.flag \in {"-p", "-s"} => pair.value \in Numerals

\* The command a parser makes, or an error if there is no key.
Parsed(name, arguments, flags, keyFlag) ==
  LET key == Value(arguments, keyFlag, Blank)
  IN [ok |-> WellFormed(arguments, flags) /\ key # Blank,
      name |-> name,
      key |-> key,
      port |-> Value(arguments, "-p", "9003"),
      ssl |-> Value(arguments, "-s", "0") = "1"]

\* The value of -m is recorded and never used.
CreateProxyInit(arguments) ==
  Parsed("proxyinit", arguments, {"-k", "-p", "-m", "-s"}, "-k")

CreateProxyStop(arguments) == Parsed("proxystop", arguments, {"-k"}, "-k")

CreateCloudInit(arguments) == Parsed("cloudinit", arguments, {"-u"}, "-u")

CreateCloudStop(arguments) == Parsed("cloudstop", arguments, {"-u"}, "-u")

NotUnderstood == [ok |-> FALSE]

ParseLine(parts) ==
  IF Head(parts) = "proxyinit" THEN CreateProxyInit(Tail(parts))
  ELSE IF Head(parts) = "proxystop" THEN CreateProxyStop(Tail(parts))
  ELSE NotUnderstood

ParseCloudLine(parts) ==
  IF Head(parts) = "cloudinit" THEN CreateCloudInit(Tail(parts))
  ELSE IF Head(parts) = "cloudstop" THEN CreateCloudStop(Tail(parts))
  ELSE NotUnderstood

=============================================================================
