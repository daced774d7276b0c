------------------------------ MODULE XdebugCtl ------------------------------
(***************************************************************************)
(* xdebugctl (xdebugctl/main.go): finds the control sockets of running PHP *)
(* scripts and sends them a command.  `ps' asks all of them at once, each  *)
(* from a goroutine of its own that hands its result to main over an       *)
(* unbuffered channel; `pause' goes to one script.                         *)
(***************************************************************************)
EXTENDS Naturals, FiniteSets

CONSTANTS
  Scripts,  \* scripts, by process id
  AnyPid    \* no -p option: pid is 0

ASSUME ScriptsAssumption == IsFiniteSet(Scripts) /\ AnyPid \notin Scripts

VARIABLES
  platform,  \* which findFiles has been built in
  options,   \* the options -h and -v, and whether there is one argument
  command,   \* the command argument
  pid,       \* the -p option
  files,     \* the scripts whose control sockets findFiles has found
  main,      \* where main is
  exitCode,  \* the exit status of the process
  worker,    \* where the sendCmd for a script is
  spawned,   \* goroutines started by main
  received   \* results main has taken from the channel

arguments == <<platform, options, command, pid>>
vars == <<arguments, files, main, exitCode, worker, spawned, received>>

Options == [version : BOOLEAN, help : BOOLEAN, oneArgument : BOOLEAN]

Running == main # "exited"

Init ==
  /\ platform \in {"linux", "windows"}
  /\ options \in Options
  /\ command \in {"ps", "pause", "other"}
  /\ pid \in Scripts \cup {AnyPid}
  /\ files = {}
  /\ main = "arguments"
  /\ exitCode = 0
  /\ worker = [s \in Scripts |-> "none"]
  /\ spawned = 0
  /\ received = 0

Exit(code) == main' = "exited" /\ exitCode' = code

\* The scripts that ps asks.
Selected == {s \in files : pid \in {AnyPid, s}}

\* Several scripts and no -p: ps only.
Ambiguous == Cardinality(files) > 1 /\ pid = AnyPid /\ command # "ps"

-----------------------------------------------------------------------------
(* Before any script is asked.                                             *)

HandleArguments ==
  /\ main = "arguments"
  /\ \/ options.version /\ Exit(0)
     \/ ~ options.version /\ (options.help \/ ~ options.oneArgument) /\ Exit(1)
     \/ /\ ~ options.version /\ ~ options.help /\ options.oneArgument
        /\ main' = "files"
        /\ UNCHANGED exitCode
  /\ UNCHANGED <<arguments, files, worker, spawned, received>>

\* The sockets that have the name of a control socket, by process id: those of the
\* scripts that run at that moment.
FindFiles ==
  /\ main = "files"
  /\ files' \in SUBSET Scripts
  /\ main' = "start"
  /\ UNCHANGED <<arguments, exitCode, worker, spawned, received>>

\* On Windows the named pipes cannot be opened, or the listing breaks off halfway.
FindFilesFails ==
  /\ main = "files"
  /\ platform = "windows"
  /\ files' \in SUBSET Scripts
  /\ Exit(1)
  /\ UNCHANGED <<arguments, worker, spawned, received>>

-----------------------------------------------------------------------------
(* ps.                                                                     *)

StartPs ==
  /\ main = "start"
  /\ command = "ps"
  /\ main' = "spawn"
  /\ UNCHANGED <<arguments, files, exitCode, worker, spawned, received>>

\* Variant of Spawn that counts the goroutines of all scripts beforehand.
SpawnCountsFiles(s) ==
  /\ main = "spawn"
  /\ s \in Selected
  /\ worker[s] = "none"
  /\ spawned' = Cardinality(files)
  /\ worker' = [worker EXCEPT ![s] = "asking"]
  /\ UNCHANGED <<arguments, files, main, exitCode, received>>

\* One round of the loop that starts goroutines.
Spawn(s) ==
  /\ main = "spawn"
  /\ s \in Selected
  /\ worker[s] = "none"
  /\ spawned' = spawned + 1
  /\ worker' = [worker EXCEPT ![s] = "asking"]
  /\ UNCHANGED <<arguments, files, main, exitCode, received>>

Spawned ==
  /\ main = "spawn"
  /\ \A s \in Selected : worker[s] # "none"
  /\ main' = "collect"
  /\ UNCHANGED <<arguments, files, exitCode, worker, spawned, received>>

\* The result of a sendCmd is printed.  That of an answer that is no XML is empty.
PrintResult(s) ==
  /\ worker[s] \in {"answered", "garbled"}
  /\ worker' = [worker EXCEPT ![s] = IF @ = "answered" THEN "shown" ELSE "dropped"]

\* The channel hands a result from a goroutine to main, which prints it.
Receive(s) ==
  /\ main = "collect"
  /\ received < spawned
  /\ PrintResult(s)
  /\ received' = received + 1
  /\ UNCHANGED <<arguments, files, main, exitCode, spawned>>

\* Variant of Collected that stops one result early.
CollectedEarly ==
  /\ main = "collect"
  /\ received + 1 >= spawned
  /\ Exit(0)
  /\ UNCHANGED <<arguments, files, worker, spawned, received>>

Collected ==
  /\ main = "collect"
  /\ received = spawned
  /\ Exit(0)
  /\ UNCHANGED <<arguments, files, worker, spawned, received>>

-----------------------------------------------------------------------------
(* The other commands.                                                     *)

Refuse ==
  /\ main = "start"
  /\ command # "ps"
  /\ \/ Ambiguous /\ Exit(1)
     \/ files = {} /\ pid = AnyPid /\ Exit(2)
     \/ files # {} /\ ~ Ambiguous /\ Selected # {} /\ command # "pause" /\ Exit(3)
     \/ pid # AnyPid /\ Selected = {} /\ Exit(4)
  /\ UNCHANGED <<arguments, files, worker, spawned, received>>

\* Variant of Pause that asks the first script it finds.
PauseAny(s) ==
  /\ main = "start"
  /\ command = "pause"
  /\ s \in files
  /\ main' = "pause"
  /\ worker' = [worker EXCEPT ![s] = "asking"]
  /\ UNCHANGED <<arguments, files, exitCode, spawned, received>>

\* main itself sends the command.
Pause(s) ==
  /\ main = "start"
  /\ command = "pause"
  /\ ~ Ambiguous
  /\ s \in Selected
  /\ main' = "pause"
  /\ worker' = [worker EXCEPT ![s] = "asking"]
  /\ UNCHANGED <<arguments, files, exitCode, spawned, received>>

Paused(s) ==
  /\ main = "pause"
  /\ PrintResult(s)
  /\ Exit(0)
  /\ UNCHANGED <<arguments, files, spawned, received>>

-----------------------------------------------------------------------------
(***************************************************************************)
(* sendCmd: whether the dial fails (the script may be gone by now), the    *)
(* answer is late or it cannot be read, there is a result.  A failing      *)
(* write, though, ends the process.                                        *)
(***************************************************************************)
SendCmd(s) ==
  /\ Running
  /\ worker[s] = "asking"
  /\ \/ /\ \E result \in {"answered", "garbled"} : worker' = [worker EXCEPT ![s] = result]
        /\ UNCHANGED <<main, exitCode>>
     \/ Exit(1) /\ UNCHANGED worker
  /\ UNCHANGED <<arguments, files, spawned, received>>

Next ==
  \/ HandleArguments \/ FindFiles \/ FindFilesFails
  \/ StartPs \/ Spawned \/ Collected \/ Refuse
  \/ \E s \in Scripts : Spawn(s) \/ Receive(s) \/ Pause(s) \/ Paused(s) \/ SendCmd(s)

Spec == Init /\ [][Next]_vars

\* Goroutines that can run do; sendCmd has a deadline for the answer.
FairSpec == Spec /\ WF_vars(Next)

-----------------------------------------------------------------------------
\* Every variable has its type.
TypeOK ==
  /\ platform \in {"linux", "windows"}
  /\ options \in Options
  /\ command \in {"ps", "pause", "other"}
  /\ pid \in Scripts \cup {AnyPid}
  /\ files \in SUBSET Scripts
  /\ main \in {"arguments", "files", "start", "spawn", "collect", "pause", "exited"}
  /\ exitCode \in 0..4
  /\ worker \in [Scripts -> {"none", "asking", "answered", "garbled", "shown", "dropped"}]
  /\ spawned \in 0..Cardinality(Selected)
  /\ received \in 0..spawned

\* When xdebugctl reports success, every script it was to ask has been asked and
\* has its line in the output, in whatever order the goroutines finished; what is
\* missing is the answers that were no XML, of which nothing is said.
SuccessIsComplete ==
  (main = "exited" /\ exitCode = 0 /\ ~ options.version) =>
    \A s \in Selected : worker[s] \in {"shown", "dropped"}

\* No command goes to a script that was not asked for: pause reaches the script
\* of -p, or the only one there is, and nobody else.
OnlyTheTarget ==
  \A s \in Scripts : worker[s] # "none" =>
    /\ s \in Selected
    /\ command = "pause" => Selected = {s}

\* Whatever the scripts do, xdebugctl comes to an end: main never waits for a
\* result that nobody sends.
Terminates == <>(main = "exited")

=============================================================================
