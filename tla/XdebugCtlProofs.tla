---------------------------- MODULE XdebugCtlProofs ----------------------------
(***************************************************************************)
(* xdebugctl takes as many results as it has started goroutines, for any   *)
(* number of scripts, and asks no script it was not to ask.                *)
(***************************************************************************)
EXTENDS XdebugCtl, FiniteSetTheorems, TLAPS

\* The scripts a sendCmd has been started for, and those whose result is printed.
Started == {s \in Scripts : worker[s] # "none"}
Finished == {s \in Scripts : worker[s] \in {"shown", "dropped"}}

\* The counters of main count goroutines if there are any.
Counts ==
  /\ spawned = IF command = "ps" THEN Cardinality(Started) ELSE 0
  /\ received = IF command = "ps" THEN Cardinality(Finished) ELSE 0

\* Where main is tells which goroutines there may be.
MainIsRight ==
  /\ main \in {"arguments", "files", "start"} => Started = {}
  /\ main \in {"spawn", "collect"} => command = "ps"
  /\ main = "collect" => Selected \subseteq Started
  /\ main = "pause" => command = "pause" /\ Started # Finished
  /\ main # "exited" => exitCode = 0

Types ==
  /\ platform \in {"linux", "windows"}
  /\ options \in Options
  /\ command \in {"ps", "pause", "other"}
  /\ pid \in Scripts \cup {AnyPid}
  /\ files \in SUBSET Scripts
  /\ main \in {"arguments", "files", "start", "spawn", "collect", "pause", "exited"}
  /\ exitCode \in 0..4
  /\ worker \in [Scripts -> {"none", "asking", "answered", "garbled", "shown", "dropped"}]

IInv == Types /\ Counts /\ MainIsRight /\ SuccessIsComplete /\ OnlyTheTarget

-----------------------------------------------------------------------------
\* The counted scripts are finite sets within each other.
LEMMA CountedFinite ==
  ASSUME Types, OnlyTheTarget
  PROVE  /\ IsFiniteSet(Selected) /\ Cardinality(Selected) \in Nat
         /\ IsFiniteSet(Started) /\ Cardinality(Started) \in Nat
         /\ IsFiniteSet(Finished) /\ Cardinality(Finished) \in Nat
         /\ Started \subseteq Selected /\ Finished \subseteq Started
<1>1. Selected \in SUBSET Scripts /\ Started \in SUBSET Scripts /\ Finished \in SUBSET Scripts
  BY DEF Types, Selected, Started, Finished
<1>2. Started \subseteq Selected /\ Finished \subseteq Started
  BY DEF OnlyTheTarget, Started, Finished
<1>3. IsFiniteSet(Selected) /\ IsFiniteSet(Started) /\ IsFiniteSet(Finished)
  BY <1>1, ScriptsAssumption, FS_Subset
<1> QED
  BY <1>2, <1>3, FS_CardinalityType

\* What main has counted is within the bounds that the types give.
LEMMA InvTypes == IInv => TypeOK
<1> SUFFICES ASSUME IInv PROVE TypeOK
  OBVIOUS
<1>1. /\ IsFiniteSet(Selected) /\ Cardinality(Selected) \in Nat
      /\ IsFiniteSet(Started) /\ Cardinality(Started) \in Nat
      /\ Cardinality(Finished) \in Nat
      /\ Started \in SUBSET Selected /\ Finished \in SUBSET Started
  BY CountedFinite DEF IInv
<1>2. Cardinality(Started) <= Cardinality(Selected) /\ Cardinality(Finished) <= Cardinality(Started)
  BY <1>1, FS_Subset
<1>3. spawned \in 0..Cardinality(Selected) /\ received \in 0..spawned
  BY <1>1, <1>2 DEF IInv, Counts
<1> QED
  BY <1>3 DEF IInv, Types, TypeOK

\* A step that starts, asks and prints nothing keeps the counters right.
LEMMA SameWorkers ==
  ASSUME IInv, UNCHANGED <<arguments, files, worker, spawned, received>>
  PROVE  Counts' /\ OnlyTheTarget' /\ Started' = Started /\ Selected' = Selected
BY DEF IInv, Counts, OnlyTheTarget, Started, Finished, Selected, arguments

-----------------------------------------------------------------------------
\* At first nobody has been asked and nothing has been counted.
LEMMA InitInv == Init => IInv
<1> SUFFICES ASSUME Init PROVE IInv
  OBVIOUS
<1>1. Started = {} /\ Finished = {}
  BY DEF Init, Started, Finished
<1>2. Cardinality({}) = 0
  BY FS_EmptySet
<1>3. Counts /\ MainIsRight
  BY <1>1, <1>2 DEF Init, Counts, MainIsRight
<1> QED
  BY <1>3 DEF IInv, Init, Types, SuccessIsComplete, OnlyTheTarget

\* Nothing has been asked yet: a step may still choose the scripts.
LEMMA BeforeAsking ==
  ASSUME IInv, HandleArguments \/ FindFiles \/ FindFilesFails
  PROVE  IInv'
<1>1. Started = {} /\ main \in {"arguments", "files"}
  BY DEF IInv, MainIsRight, HandleArguments, FindFiles, FindFilesFails
<1>2. UNCHANGED <<arguments, worker, spawned, received>>
  BY DEF HandleArguments, FindFiles, FindFilesFails
<1>3. Types'
  BY <1>2 DEF IInv, Types, HandleArguments, FindFiles, FindFilesFails, Exit, arguments
<1>4. Started' = {} /\ OnlyTheTarget' /\ Counts'
  BY <1>1, <1>2 DEF IInv, Counts, Started, Finished, OnlyTheTarget, arguments
<1>5. MainIsRight'
  BY <1>1, <1>2, <1>4 DEF IInv, MainIsRight, HandleArguments, FindFiles, FindFilesFails, Exit
<1>6. SuccessIsComplete'
  BY <1>2 DEF SuccessIsComplete, HandleArguments, FindFiles, FindFilesFails, Exit, IInv, Types,
              arguments
<1> QED
  BY <1>3, <1>4, <1>5, <1>6 DEF IInv

\* main goes on, or gives up, without a word to a script.
LEMMA MainGoesOn ==
  ASSUME IInv, StartPs \/ Spawned \/ Refuse
  PROVE  IInv'
<1>1. UNCHANGED <<arguments, files, worker, spawned, received>>
  BY DEF StartPs, Spawned, Refuse
<1>2. Counts' /\ OnlyTheTarget' /\ Started' = Started /\ Selected' = Selected
  BY <1>1, SameWorkers
<1>3. Types'
  BY <1>1 DEF IInv, Types, StartPs, Spawned, Refuse, Exit, arguments
<1>4. MainIsRight'
  <2>1. CASE StartPs
    BY <1>1, <2>1 DEF IInv, MainIsRight, StartPs, arguments
  <2>2. CASE Spawned
    <3>1. Selected \subseteq Started /\ command = "ps"
      BY <2>2 DEF IInv, Types, MainIsRight, Spawned, Selected, Started
    <3> QED BY <1>1, <1>2, <2>2, <3>1 DEF IInv, MainIsRight, Spawned, arguments
  <2>3. CASE Refuse
    BY <2>3 DEF MainIsRight, Refuse, Exit
  <2> QED BY <2>1, <2>2, <2>3
<1>5. SuccessIsComplete'
  BY DEF SuccessIsComplete, StartPs, Spawned, Refuse, Exit
<1> QED
  BY <1>2, <1>3, <1>4, <1>5 DEF IInv

\* One more goroutine, one more counted.
LEMMA SpawnInv ==
  ASSUME IInv, NEW s \in Scripts, Spawn(s)
  PROVE  IInv'
<1>1. /\ main = "spawn" /\ command = "ps" /\ s \in Selected /\ s \notin Started
      /\ UNCHANGED <<arguments, files, main, exitCode, received>>
      /\ worker' = [worker EXCEPT ![s] = "asking"]
      /\ spawned' = spawned + 1
  BY DEF IInv, MainIsRight, Spawn, Started
<1>2. Types'
  BY <1>1 DEF IInv, Types, arguments
<1>3. Started' = Started \cup {s} /\ Finished' = Finished /\ Selected' = Selected
  BY <1>1 DEF IInv, Types, Started, Finished, Selected, arguments
<1>4. Cardinality(Started') = Cardinality(Started) + 1
  <2>1. IsFiniteSet(Started)
    BY CountedFinite DEF IInv
  <2> QED BY <1>1, <1>3, <2>1, FS_AddElement
<1>5. Counts'
  BY <1>1, <1>3, <1>4 DEF IInv, Counts, arguments
<1>6. MainIsRight' /\ SuccessIsComplete'
  BY <1>1, <1>3 DEF IInv, MainIsRight, SuccessIsComplete, arguments
<1>7. OnlyTheTarget'
  BY <1>1, <1>3 DEF IInv, Types, OnlyTheTarget, arguments
<1> QED
  BY <1>2, <1>5, <1>6, <1>7 DEF IInv

\* A result is printed: it moves from the goroutines that run to those that are done.
LEMMA Printed ==
  ASSUME IInv, NEW s \in Scripts, PrintResult(s), UNCHANGED <<arguments, files>>
  PROVE  /\ worker' \in [Scripts -> {"none", "asking", "answered", "garbled", "shown", "dropped"}]
         /\ Started' = Started /\ Selected' = Selected
         /\ Finished' = Finished \cup {s} /\ s \notin Finished
         /\ OnlyTheTarget'
<1>1. /\ worker[s] \in {"answered", "garbled"}
      /\ worker' = [worker EXCEPT ![s] = IF worker[s] = "answered" THEN "shown" ELSE "dropped"]
      /\ worker \in [Scripts -> {"none", "asking", "answered", "garbled", "shown", "dropped"}]
  BY DEF PrintResult, IInv, Types
<1>2. /\ worker' \in [Scripts -> {"none", "asking", "answered", "garbled", "shown", "dropped"}]
      /\ worker'[s] \in {"shown", "dropped"}
      /\ \A t \in Scripts \ {s} : worker'[t] = worker[t]
  BY <1>1
<1>3. Started' = Started /\ Finished' = Finished \cup {s} /\ s \notin Finished
  BY <1>1, <1>2 DEF Started, Finished
<1>4. Selected' = Selected
  BY DEF Selected, arguments
<1>5. OnlyTheTarget'
  BY <1>1, <1>2, <1>4 DEF IInv, OnlyTheTarget, arguments
<1> QED
  BY <1>2, <1>3, <1>4, <1>5

\* A result that main takes off the channel is counted once.
LEMMA ReceiveInv ==
  ASSUME IInv, NEW s \in Scripts, Receive(s)
  PROVE  IInv'
<1>1. /\ main = "collect" /\ command = "ps"
      /\ UNCHANGED <<arguments, files, main, exitCode, spawned>>
      /\ received' = received + 1
  BY DEF IInv, MainIsRight, Receive
<1>2. /\ worker' \in [Scripts -> {"none", "asking", "answered", "garbled", "shown", "dropped"}]
      /\ Started' = Started /\ Selected' = Selected
      /\ Finished' = Finished \cup {s} /\ s \notin Finished
      /\ OnlyTheTarget'
  BY <1>1, Printed DEF Receive
<1>3. Cardinality(Finished') = Cardinality(Finished) + 1
  <2>1. IsFiniteSet(Finished)
    BY CountedFinite DEF IInv
  <2> QED BY <1>2, <2>1, FS_AddElement
<1>4. Counts'
  BY <1>1, <1>2, <1>3 DEF IInv, Counts, arguments
<1>5. Types'
  BY <1>1, <1>2 DEF IInv, Types, arguments
<1>6. MainIsRight' /\ SuccessIsComplete'
  BY <1>1, <1>2 DEF IInv, MainIsRight, SuccessIsComplete, arguments
<1> QED
  BY <1>2, <1>4, <1>5, <1>6 DEF IInv

\* As many results taken as goroutines started: all of them are done.
LEMMA CollectedInv ==
  ASSUME IInv, Collected
  PROVE  IInv'
<1>1. /\ main = "collect" /\ command = "ps" /\ received = spawned /\ Selected \subseteq Started
      /\ main' = "exited" /\ exitCode' = 0
      /\ UNCHANGED <<arguments, files, worker, spawned, received>>
  BY DEF IInv, MainIsRight, Collected, Exit
<1>2. Finished = Started
  <2>1. Cardinality(Started) = Cardinality(Finished)
    BY <1>1 DEF IInv, Counts
  <2>2. IsFiniteSet(Started) /\ Finished \in SUBSET Started
    BY CountedFinite DEF IInv
  <2> QED BY <2>1, <2>2, FS_Subset
<1>3. Counts' /\ OnlyTheTarget' /\ Started' = Started /\ Selected' = Selected
  BY <1>1, SameWorkers
<1>4. SuccessIsComplete'
  BY <1>1, <1>2, <1>3 DEF SuccessIsComplete, Finished
<1>5. Types' /\ MainIsRight'
  BY <1>1 DEF IInv, Types, MainIsRight, arguments
<1> QED
  BY <1>3, <1>4, <1>5 DEF IInv

\* pause goes to the script of -p, or to the only one there is.
LEMMA PauseInv ==
  ASSUME IInv, NEW s \in Scripts, Pause(s)
  PROVE  IInv'
<1>1. /\ main = "start" /\ command = "pause" /\ ~ Ambiguous /\ s \in Selected /\ Started = {}
      /\ main' = "pause"
      /\ worker' = [worker EXCEPT ![s] = "asking"]
      /\ UNCHANGED <<arguments, files, exitCode, spawned, received>>
  BY DEF IInv, MainIsRight, Pause
<1>2. Selected = {s}
  <2>1. CASE pid = AnyPid
    <3>1. IsFiniteSet(files) /\ Selected = files /\ {s} \in SUBSET files
      BY <1>1, <2>1, ScriptsAssumption, FS_Subset DEF IInv, Types, Selected
    <3>2. Cardinality(files) \in Nat /\ Cardinality(files) <= 1
      BY <1>1, <2>1, <3>1, FS_CardinalityType DEF Ambiguous
    <3>3. Cardinality({s}) = 1 /\ Cardinality({s}) <= Cardinality(files)
      BY <3>1, FS_Singleton, FS_Subset
    <3> QED BY <3>1, <3>2, <3>3, FS_Subset
  <2>2. CASE pid # AnyPid
    BY <1>1, <2>2 DEF Selected
  <2> QED BY <2>1, <2>2
<1>3. Selected' = Selected
  BY <1>1 DEF Selected, arguments
<1>4. Types'
  BY <1>1 DEF IInv, Types, arguments
<1>5. OnlyTheTarget'
  BY <1>1, <1>2, <1>3, <1>4 DEF OnlyTheTarget, Started, IInv, Types, arguments
<1>6. Counts'
  BY <1>1 DEF IInv, Counts, arguments
<1>7. MainIsRight' /\ SuccessIsComplete'
  <2>1. exitCode = 0
    BY <1>1 DEF IInv, MainIsRight
  <2>2. s \in Started' /\ s \notin Finished'
    BY <1>1 DEF Started, Finished, IInv, Types
  <2> QED BY <1>1, <2>1, <2>2 DEF MainIsRight, SuccessIsComplete, arguments
<1> QED
  BY <1>4, <1>5, <1>6, <1>7 DEF IInv

\* The result of pause ends the program with success.
LEMMA PausedInv ==
  ASSUME IInv, NEW s \in Scripts, Paused(s)
  PROVE  IInv'
<1>1. /\ main = "pause" /\ command = "pause" /\ main' = "exited" /\ exitCode' = 0
      /\ UNCHANGED <<arguments, files, spawned, received>>
  BY DEF IInv, MainIsRight, Paused, Exit
<1>2. /\ worker' \in [Scripts -> {"none", "asking", "answered", "garbled", "shown", "dropped"}]
      /\ Started' = Started /\ Selected' = Selected
      /\ Finished' = Finished \cup {s} /\ OnlyTheTarget'
  BY <1>1, Printed DEF Paused
<1>3. Selected = {s}
  BY <1>1 DEF IInv, OnlyTheTarget, Paused, PrintResult
<1>4. SuccessIsComplete'
  BY <1>2, <1>3 DEF SuccessIsComplete, Finished
<1>5. Counts' /\ Types' /\ MainIsRight'
  BY <1>1, <1>2 DEF IInv, Counts, Types, MainIsRight, arguments
<1> QED
  BY <1>2, <1>4, <1>5 DEF IInv

\* An answer, or the end of the process.
LEMMA SendCmdInv ==
  ASSUME IInv, NEW s \in Scripts, SendCmd(s)
  PROVE  IInv'
<1>0. /\ worker[s] = "asking" /\ main # "exited"
      /\ UNCHANGED <<arguments, files, spawned, received>>
  BY DEF SendCmd, Running
<1>1. ASSUME NEW result \in {"answered", "garbled"}, worker' = [worker EXCEPT ![s] = result],
             UNCHANGED <<main, exitCode>>
      PROVE  IInv'
  <2>1. Types'
    BY <1>0, <1>1 DEF IInv, Types, arguments
  <2>2. Started' = Started /\ Finished' = Finished /\ Selected' = Selected
    BY <1>0, <1>1 DEF IInv, Types, Started, Finished, Selected, arguments
  <2>3. Counts' /\ MainIsRight' /\ SuccessIsComplete'
    BY <1>0, <1>1, <2>2 DEF IInv, Counts, MainIsRight, SuccessIsComplete, arguments
  <2>4. OnlyTheTarget'
    BY <1>0, <1>1, <2>2 DEF IInv, Types, OnlyTheTarget, arguments
  <2> QED BY <2>1, <2>3, <2>4 DEF IInv
<1>2. CASE Exit(1) /\ UNCHANGED worker
  <2>1. Counts' /\ OnlyTheTarget'
    BY <1>0, <1>2, SameWorkers
  <2>2. Types' /\ MainIsRight' /\ SuccessIsComplete'
    BY <1>0, <1>2 DEF IInv, Types, MainIsRight, SuccessIsComplete, Exit, arguments
  <2> QED BY <2>1, <2>2 DEF IInv
<1> QED
  BY <1>1, <1>2 DEF SendCmd

\* Every step of main and of a sendCmd preserves the invariant.
LEMMA NextInv == IInv /\ [Next]_vars => IInv'
<1> SUFFICES ASSUME IInv, [Next]_vars PROVE IInv'
  OBVIOUS
<1>1. ASSUME UNCHANGED vars PROVE IInv'
  <2>1. Counts' /\ OnlyTheTarget' /\ Started' = Started /\ Selected' = Selected
    BY <1>1, SameWorkers DEF vars
  <2>2. Finished' = Finished
    BY <1>1 DEF vars, Finished
  <2> QED BY <1>1, <2>1, <2>2 DEF vars, IInv, Types, MainIsRight, SuccessIsComplete, arguments
<1>2. ASSUME NEW s \in Scripts, Spawn(s) \/ Receive(s) \/ Pause(s) \/ Paused(s) \/ SendCmd(s)
      PROVE  IInv'
  BY <1>2, SpawnInv, ReceiveInv, PauseInv, PausedInv, SendCmdInv
<1> QED
  BY <1>1, <1>2, BeforeAsking, MainGoesOn, CollectedInv DEF Next

-----------------------------------------------------------------------------
(***************************************************************************)
(* xdebugctl comes to an end: each step leaves fewer to take, and as long  *)
(* as the process runs there is one.                                       *)
(***************************************************************************)

\* The scripts whose sendCmd has not been started, has no result, and has a result
\* that is not printed yet.
Unasked == {s \in Scripts : worker[s] = "none"}
Unanswered == {s \in Scripts : worker[s] \in {"none", "asking"}}
Unfinished == Scripts \ Finished

\* How far main has to go.
Ahead ==
  IF main = "arguments" THEN 5
  ELSE IF main = "files" THEN 4
  ELSE IF main = "start" THEN 3
  ELSE IF main = "spawn" THEN 2
  ELSE IF main \in {"collect", "pause"} THEN 1
  ELSE 0

\* What is left to do, by main and by every sendCmd.
Work ==
  Ahead + Cardinality(Unasked) + Cardinality(Unanswered) + Cardinality(Unfinished)

\* The condition under which some step is possible: that of each branch of main in
\* turn, and that of a sendCmd which main waits for.
CanGoOn ==
  \/ main \in {"arguments", "files", "spawn"}
  \/ main = "start" /\ command = "ps"
  \/ main = "start" /\ command # "ps" /\ Ambiguous
  \/ main = "start" /\ command # "ps" /\ files = {} /\ pid = AnyPid
  \/ main = "start" /\ command # "ps" /\ ~ Ambiguous /\ Selected # {}
  \/ main = "start" /\ command # "ps" /\ pid # AnyPid /\ Selected = {}
  \/ main = "collect" /\ received = spawned
  \/ main = "collect" /\ received < spawned
       /\ \E s \in Scripts : worker[s] \in {"asking", "answered", "garbled"}
  \/ main = "pause" /\ \E s \in Scripts : worker[s] \in {"asking", "answered", "garbled"}

\* What is left is a number.
LEMMA WorkIsFinite ==
  ASSUME IInv
  PROVE  /\ IsFiniteSet(Unasked) /\ Cardinality(Unasked) \in Nat
         /\ IsFiniteSet(Unanswered) /\ Cardinality(Unanswered) \in Nat
         /\ IsFiniteSet(Unfinished) /\ Cardinality(Unfinished) \in Nat
         /\ Ahead \in Nat /\ Work \in Nat
<1>1. Unasked \in SUBSET Scripts /\ Unanswered \in SUBSET Scripts /\ Unfinished \in SUBSET Scripts
  BY DEF Unasked, Unanswered, Unfinished
<1>2. IsFiniteSet(Unasked) /\ IsFiniteSet(Unanswered) /\ IsFiniteSet(Unfinished)
  BY <1>1, ScriptsAssumption, FS_Subset
<1>3. /\ Cardinality(Unasked) \in Nat /\ Cardinality(Unanswered) \in Nat
      /\ Cardinality(Unfinished) \in Nat
  BY <1>2, FS_CardinalityType
<1>4. Ahead \in Nat
  BY DEF Ahead
<1> QED
  BY <1>2, <1>3, <1>4 DEF Work

\* A step of main alone leaves less of main.
LEMMA MainCounts ==
  ASSUME IInv, worker' = worker, Ahead' < Ahead, Ahead' \in Nat
  PROVE  Work' < Work
<1>1. Unasked' = Unasked /\ Unanswered' = Unanswered /\ Unfinished' = Unfinished
  BY DEF Unasked, Unanswered, Unfinished, Finished
<1> QED
  BY <1>1, WorkIsFinite DEF Work

\* A step of a sendCmd takes it out of one of the three sets, or of several.
LEMMA WorkerCounts ==
  ASSUME IInv, NEW s \in Scripts,
         \A t \in Scripts \ {s} : worker'[t] = worker[t],
         \/ worker[s] = "none" /\ worker'[s] = "asking"
         \/ worker[s] = "asking" /\ worker'[s] \in {"answered", "garbled"}
         \/ worker[s] \in {"answered", "garbled"} /\ worker'[s] \in {"shown", "dropped"},
         Ahead' <= Ahead, Ahead' \in Nat
  PROVE  Work' < Work
<1>1. /\ Cardinality(Unasked \ {s}) =
           IF s \in Unasked THEN Cardinality(Unasked) - 1 ELSE Cardinality(Unasked)
      /\ Cardinality(Unanswered \ {s}) =
           IF s \in Unanswered THEN Cardinality(Unanswered) - 1 ELSE Cardinality(Unanswered)
      /\ Cardinality(Unfinished \ {s}) =
           IF s \in Unfinished THEN Cardinality(Unfinished) - 1 ELSE Cardinality(Unfinished)
  BY WorkIsFinite, FS_RemoveElement
<1>2. CASE worker[s] = "none" /\ worker'[s] = "asking"
  <2>1. /\ s \in Unasked /\ Unasked' = Unasked \ {s}
        /\ Unanswered' = Unanswered /\ Unfinished' = Unfinished
    BY <1>2 DEF Unasked, Unanswered, Unfinished, Finished
  <2> QED BY <1>1, <2>1, WorkIsFinite DEF Work
<1>3. CASE worker[s] = "asking" /\ worker'[s] \in {"answered", "garbled"}
  <2>1. /\ s \in Unanswered /\ Unanswered' = Unanswered \ {s}
        /\ Unasked' = Unasked /\ Unfinished' = Unfinished
    BY <1>3 DEF Unasked, Unanswered, Unfinished, Finished
  <2> QED BY <1>1, <2>1, WorkIsFinite DEF Work
<1>4. CASE worker[s] \in {"answered", "garbled"} /\ worker'[s] \in {"shown", "dropped"}
  <2>1. /\ s \in Unfinished /\ Unfinished' = Unfinished \ {s}
        /\ Unasked' = Unasked /\ Unanswered' = Unanswered
    BY <1>4 DEF Unasked, Unanswered, Unfinished, Finished
  <2> QED BY <1>1, <2>1, WorkIsFinite DEF Work
<1> QED
  BY <1>2, <1>3, <1>4

\* Every step leaves less to do.
LEMMA StepCounts ==
  ASSUME IInv, Next
  PROVE  Work' < Work
<1>t. worker \in [Scripts -> {"none", "asking", "answered", "garbled", "shown", "dropped"}]
  BY DEF IInv, Types
<1>1. CASE HandleArguments \/ FindFiles \/ FindFilesFails
  BY <1>1, MainCounts DEF HandleArguments, FindFiles, FindFilesFails, Exit, Ahead
<1>2. CASE StartPs \/ Spawned \/ Collected \/ Refuse
  BY <1>2, MainCounts DEF StartPs, Spawned, Collected, Refuse, Exit, Ahead
<1>3. ASSUME NEW s \in Scripts, Spawn(s) \/ Pause(s)
      PROVE  Work' < Work
  <2>1. worker[s] = "none" /\ worker' = [worker EXCEPT ![s] = "asking"]
    BY <1>3, <1>t DEF Spawn, Pause, IInv, MainIsRight, Started
  <2>2. Ahead' <= Ahead /\ Ahead' \in Nat
    BY <1>3 DEF Spawn, Pause, Ahead
  <2> QED BY <1>t, <2>1, <2>2, WorkerCounts
<1>4. ASSUME NEW s \in Scripts, Receive(s) \/ Paused(s)
      PROVE  Work' < Work
  <2>1. /\ worker[s] \in {"answered", "garbled"} /\ worker'[s] \in {"shown", "dropped"}
        /\ \A t \in Scripts \ {s} : worker'[t] = worker[t]
    BY <1>4, <1>t DEF Receive, Paused, PrintResult
  <2>2. Ahead' <= Ahead /\ Ahead' \in Nat
    BY <1>4 DEF Receive, Paused, Exit, Ahead
  <2> QED BY <2>1, <2>2, WorkerCounts
<1>5. ASSUME NEW s \in Scripts, SendCmd(s)
      PROVE  Work' < Work
  <2>1. CASE Exit(1) /\ UNCHANGED worker
    <3>1. main \in {"arguments", "files", "start", "spawn", "collect", "pause"} /\ main' = "exited"
      BY <1>5, <2>1 DEF SendCmd, Running, Exit, IInv, Types
    <3>2. Ahead' < Ahead /\ Ahead' \in Nat
      BY <3>1 DEF Ahead
    <3> QED BY <2>1, <3>2, MainCounts
  <2>2. ASSUME NEW result \in {"answered", "garbled"},
               worker' = [worker EXCEPT ![s] = result], main' = main
        PROVE  Work' < Work
    <3>1. Ahead' <= Ahead /\ Ahead' \in Nat
      BY <2>2 DEF Ahead
    <3>2. worker[s] = "asking"
      BY <1>5 DEF SendCmd
    <3> QED BY <1>t, <2>2, <3>1, <3>2, WorkerCounts
  <2> QED BY <1>5, <2>1, <2>2 DEF SendCmd
<1> QED
  BY <1>1, <1>2, <1>3, <1>4, <1>5 DEF Next

\* Main waits for a result only while a sendCmd has one to give, or is at it.
LEMMA SomebodyCanGoOn ==
  ASSUME IInv, Running
  PROVE  CanGoOn
<1>1. CASE main \in {"arguments", "files", "spawn"}
  BY <1>1 DEF CanGoOn
<1>2. CASE main = "start"
  BY <1>2 DEF CanGoOn, Selected, IInv, Types
<1>3. CASE main = "collect"
  <2>1. /\ spawned = Cardinality(Started) /\ received = Cardinality(Finished)
        /\ Cardinality(Started) \in Nat /\ Cardinality(Finished) \in Nat
        /\ Finished \in SUBSET Started /\ IsFiniteSet(Started)
    BY <1>3, CountedFinite DEF IInv, Counts, MainIsRight
  <2>2. received <= spawned
    BY <2>1, FS_Subset
  <2>3. CASE received = spawned
    BY <1>3, <2>3 DEF CanGoOn
  <2>4. CASE received < spawned
    <3>1. PICK s \in Started : s \notin Finished
      BY <2>1, <2>4
    <3>2. s \in Scripts /\ worker[s] \in {"asking", "answered", "garbled"}
      BY <3>1 DEF IInv, Types, Started, Finished
    <3> QED BY <1>3, <2>4, <3>2 DEF CanGoOn
  <2> QED BY <2>1, <2>2, <2>3, <2>4
<1>4. CASE main = "pause"
  <2>1. Started # Finished /\ Finished \subseteq Started
    BY <1>4, CountedFinite DEF IInv, MainIsRight
  <2>2. PICK s \in Started : s \notin Finished
    BY <2>1
  <2>3. s \in Scripts /\ worker[s] \in {"asking", "answered", "garbled"}
    BY <2>2 DEF IInv, Types, Started, Finished
  <2> QED BY <1>4, <2>3 DEF CanGoOn
<1> QED
  BY <1>1, <1>2, <1>3, <1>4 DEF IInv, Types, Running

-----------------------------------------------------------------------------
\* In every reachable state of every run of xdebugctl: main never counts more
\* goroutines than scripts to ask, nor more results than goroutines (main).
THEOREM TypesAreRight == Spec => []TypeOK
<1> QED
  BY InitInv, NextInv, InvTypes, PTL DEF Spec

\* For any number of scripts, in whatever order their answers come: exit status 0
\* means that every script to be asked has been asked and its result printed (the
\* two loops of main over the channel).
THEOREM SuccessCoversAll == Spec => []SuccessIsComplete
<1>1. IInv => SuccessIsComplete
  BY DEF IInv
<1> QED
  BY <1>1, InitInv, NextInv, PTL DEF Spec

\* No script is sent a command it was not chosen for; pause reaches exactly the one
\* of -p or the only one there is (main, sendCmd).
THEOREM NobodyElseIsAsked == Spec => []OnlyTheTarget
<1>1. IInv => OnlyTheTarget
  BY DEF IInv
<1> QED
  BY <1>1, InitInv, NextInv, PTL DEF Spec

\* Every step of every run leaves less to do, so that none goes on for ever: a run
\* has at most as many steps as there is work at its beginning (main, sendCmd).
THEOREM EveryStepCounts == Spec => [][Work' < Work /\ Work \in Nat]_vars
<1>1. IInv /\ [Next]_vars => [Work' < Work /\ Work \in Nat]_vars
  BY StepCounts, WorkIsFinite
<1> QED
  BY <1>1, InitInv, NextInv, PTL DEF Spec

\* A process that has not ended can go on: no combination of options, arguments and
\* scripts falls between the branches of main, and main waits for no result that
\* nobody sends (main, sendCmd).  With EveryStepCounts: every run ends.
THEOREM NeverStuck == Spec => [](Running => CanGoOn)
<1>1. IInv => (Running => CanGoOn)
  BY SomebodyCanGoOn
<1> QED
  BY <1>1, InitInv, NextInv, PTL DEF Spec

=============================================================================
