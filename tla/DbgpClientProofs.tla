--------------------------- MODULE DbgpClientProofs ---------------------------
(***************************************************************************)
(* The conversation of dbgpClient with an engine stays in step, however    *)
(* long it is: the documents that have not been read yet are output and    *)
(* notifications, then at most one reply, then, in the Cloud, at most the  *)
(* init of the next session; and if a command has not been answered yet    *)
(* there is only the output.                                               *)
(***************************************************************************)
EXTENDS DbgpClient, SequenceTheorems, TLAPS

\* What a read could still return: at the start of handleConnection the buffer is
\* that of the last reader and will be dropped.
Pending == IF pc = "handle" THEN wire ELSE buffer \o wire

\* handleConnection is at work, or about to be.
Connected == pc \in {"handle", "read", "prompt"}

Closes(doc) == doc.root = "response" /\ doc.command \in {"detach", "stop"}

\* A document has the contents that its kind has.
WellMade(doc) ==
  /\ doc.root = "response" =>
       /\ doc.command = "break" => ~ doc.success
       /\ doc.command # "source" => doc.first = 1
  /\ doc.root # "response" => doc.command = "none" /\ doc.first = 1
  /\ doc.root # "cloudstop"

\* The order of what is still to be read.
InOrder ==
  \A i \in 1..Len(Pending) :
    /\ WellMade(Pending[i])
    /\ Pending[i].root = "response" =>
         \/ i = Len(Pending)
         \/ Closes(Pending[i]) /\ i + 1 = Len(Pending) /\ Pending[i + 1].root = "init"
    /\ Pending[i].root = "init" => i = Len(Pending)

\* A command that has not been answered comes after everything else.
OneAtATime ==
  /\ Len(inbox) <= 1
  /\ inbox # <<>> =>
       \A i \in 1..Len(Pending) : Pending[i].root \notin {"response", "init"}
  /\ \A i \in 1..Len(inbox) :
       inbox[i].verb # "cloudstop" /\ (inbox[i].verb = "cloudinit" => cloud)

\* An engine that is ready has no session: it was told to end the last one.
ReadyIsFree ==
  engine = "ready" =>
    /\ \A i \in 1..Len(Pending) :
         /\ Pending[i].root = "response" => Closes(Pending[i])
         /\ Pending[i].root # "init"
    /\ \A i \in 1..Len(inbox) : inbox[i].verb = "cloudinit"
    /\ pc # "prompt"

\* What a user is asked about has been read, and so has all before it.
PromptIsQuiet == pc = "prompt" => inbox = <<>> /\ Pending = <<>>

\* A session that is not being asked for a command has something to say.
EngineSpeaks ==
  (~ cloud /\ pc \in {"handle", "read"} /\ engine = "debugging") =>
    \/ inbox # <<>>
    \/ \E i \in 1..Len(Pending) : Pending[i].root \in {"response", "init"}

\* A new reader finds no text of a file.
Numbers ==
  /\ pc = "handle" =>
       /\ \A i \in 1..Len(inbox) : FirstLine(inbox[i]) = 1 /\ inbox[i].verb # "source"
       /\ \A i \in 1..Len(Pending) : Pending[i].command # "source"
  /\ pc = "read" =>
       /\ \A i \in 1..Len(inbox) : FirstLine(inbox[i]) = begin
       /\ \A i \in 1..Len(Pending) :
            Pending[i].command = "source" => Pending[i].first = begin

\* What handleConnection may be told in answer to: the command that it keeps as the
\* last one, or, when the Cloud client has given none to this session, what was
\* sent before it.
Fitting(verb) ==
  \/ pc = "read" /\ verb = lastCommand.verb
  \/ cloud /\ verb \in {"cloudinit", "detach"} /\ (pc = "read" => lastCommand = Empty)

\* No reply is expected, or on its way, but to such a command.
OwnReplies ==
  /\ \A i \in 1..Len(inbox) : Fitting(inbox[i].verb)
  /\ \A i \in 1..Len(Pending) : Pending[i].root = "response" => Fitting(Pending[i].command)

Conversation ==
  Connected =>
    /\ open
    /\ InOrder /\ OneAtATime /\ ReadyIsFree /\ PromptIsQuiet /\ EngineSpeaks /\ Numbers
    /\ OwnReplies

\* Nothing happens before the Cloud has been dialled.
Fresh == pc = "connect" => cloud /\ engine = "none" /\ wire = <<>>

IInv == TypeOK /\ Conversation /\ Fresh

-----------------------------------------------------------------------------
(* Sequences of documents and of commands.                                 *)

\* What a user can type is a command, and only source carries line numbers.
LEMMA LineFacts ==
  /\ Lines \subseteq Commands
  /\ Empty \in Lines
  /\ \A c \in Lines :
       /\ c.verb \in {"run", "source", "stop", "detach", "break", "none"}
       /\ c.b \in {0, 2}
       /\ c.b > 0 => c.verb = "source"
  /\ \A c \in Commands : c \in Lines \/ c = Command("cloudinit") \/ c = Command("cloudstop")
  /\ \A verb \in {"detach", "cloudinit", "cloudstop"} :
       /\ Command(verb) \in Commands
       /\ Command(verb).verb = verb
       /\ Command(verb).b = 0
BY DEF Lines, Commands, Empty, Command

\* Doc makes a document with the fields it is given.
LEMMA DocFacts ==
  ASSUME NEW root \in {"response", "init", "notify", "stream", "cloudinit", "cloudstop", "other"},
         NEW command \in {"none", "run", "source", "break", "detach", "stop"},
         NEW success \in BOOLEAN, NEW first \in 1..2
  PROVE  /\ Doc(root, command, success, first) \in Docs
         /\ Doc(root, command, success, first).root = root
         /\ Doc(root, command, success, first).command = command
         /\ Doc(root, command, success, first).success = success
         /\ Doc(root, command, success, first).first = first
BY DEF Doc, Docs

\* The inbox holds one command at most: then it is its head.
LEMMA InboxFacts ==
  ASSUME NEW S, NEW box \in Seq(S), Len(box) <= 1, box # <<>>
  PROVE  Len(box) = 1 /\ Head(box) = box[1] /\ Head(box) \in S /\ Tail(box) = <<>>
<1>1. Len(box) = 1
  <2>1. \A seq \in Seq(S) : seq # <<>> => Len(seq) \in Nat \ {0}
    BY EmptySeq
  <2>2. Len(box) \in Nat \ {0}
    BY <2>1
  <2> QED BY <2>2
<1>2. /\ Tail(box) \in Seq(S) /\ Len(Tail(box)) = 0 /\ Head(box) \in S
  BY <1>1, HeadTailProperties
<1>3. Tail(box) = <<>>
  BY <1>2, EmptySeq
<1>4. Head(box) = box[1]
  BY <1>1
<1> QED
  BY <1>1, <1>2, <1>3, <1>4

\* A command alone in the inbox.
LEMMA AloneFacts ==
  ASSUME NEW c \in Commands
  PROVE  /\ Append(<<>>, c) \in Seq(Commands) /\ Len(Append(<<>>, c)) = 1
         /\ Append(<<>>, c)[1] = c /\ Append(<<>>, c) # <<>>
<1>1. <<>> \in Seq(Commands) /\ Len(<<>>) = 0
  BY EmptySeq
<1> QED
  BY <1>1, AppendProperties

\* What is on its way to the client is a sequence of documents.
LEMMA PendingType ==
  ASSUME TypeOK
  PROVE  /\ Pending \in Seq(Docs) /\ Len(Pending) \in Nat
         /\ \A i \in 1..Len(Pending) : Pending[i] \in Docs
<1>1. Pending \in Seq(Docs)
  BY ConcatProperties DEF TypeOK, Pending
<1> QED
  BY <1>1, LenProperties, ElementOfSeq

\* A document on its way comes after all that is still to be read.
LEMMA AppendPending ==
  ASSUME TypeOK, NEW doc \in Docs, UNCHANGED <<pc, buffer>>, wire' = Append(wire, doc)
  PROVE  /\ Len(Pending') = Len(Pending) + 1
         /\ Pending'[Len(Pending) + 1] = doc
         /\ \A i \in 1..Len(Pending) : Pending'[i] = Pending[i]
<1>1. wire \in Seq(Docs) /\ buffer \in Seq(Docs) /\ wire' \in Seq(Docs)
  BY AppendProperties DEF TypeOK
<1>2. CASE pc = "handle"
  BY <1>1, <1>2, AppendProperties DEF Pending
<1>3. CASE pc # "handle"
  <2>1. Pending = buffer \o wire /\ Pending' = buffer \o Append(wire, doc)
    BY <1>3 DEF Pending
  <2>2. /\ Len(wire) \in Nat /\ Len(buffer) \in Nat
        /\ Len(Append(wire, doc)) = Len(wire) + 1
        /\ Append(wire, doc)[Len(wire) + 1] = doc
        /\ \A i \in 1..Len(wire) : Append(wire, doc)[i] = wire[i]
        /\ Append(wire, doc) \in Seq(Docs)
    BY <1>1, AppendProperties, LenProperties
  <2>3. /\ Len(buffer \o wire) = Len(buffer) + Len(wire)
        /\ \A i \in 1..(Len(buffer) + Len(wire)) :
             (buffer \o wire)[i] = IF i <= Len(buffer) THEN buffer[i] ELSE wire[i - Len(buffer)]
    BY <1>1, ConcatProperties
  <2>4. /\ Len(buffer \o Append(wire, doc)) = Len(buffer) + Len(wire) + 1
        /\ \A i \in 1..(Len(buffer) + Len(wire) + 1) :
             (buffer \o Append(wire, doc))[i] =
               IF i <= Len(buffer) THEN buffer[i] ELSE Append(wire, doc)[i - Len(buffer)]
    <3> DEFINE more == Append(wire, doc)
    <3>1. more \in Seq(Docs) /\ Len(more) = Len(wire) + 1
      BY <2>2
    <3> HIDE DEF more
    <3>2. /\ Len(buffer \o more) = Len(buffer) + Len(more)
          /\ \A i \in 1..(Len(buffer) + Len(more)) :
               (buffer \o more)[i] = IF i <= Len(buffer) THEN buffer[i] ELSE more[i - Len(buffer)]
      BY <1>1, <3>1, ConcatProperties
    <3>3. Len(buffer) + Len(more) = Len(buffer) + Len(wire) + 1
      BY <2>2, <3>1
    <3> QED BY <3>2, <3>3 DEF more
  <2>5. (buffer \o Append(wire, doc))[Len(buffer) + Len(wire) + 1] = doc
    BY <2>2, <2>4
  <2>6. ASSUME NEW i \in 1..(Len(buffer) + Len(wire))
        PROVE  (buffer \o Append(wire, doc))[i] = (buffer \o wire)[i]
    <3>1. CASE i <= Len(buffer)
      BY <2>2, <2>3, <2>4, <3>1
    <3>2. CASE i > Len(buffer)
      <4>1. i - Len(buffer) \in 1..Len(wire)
        BY <2>2, <3>2
      <4> QED BY <2>2, <2>3, <2>4, <3>2, <4>1
    <3> QED BY <2>2, <3>1, <3>2
  <2> QED BY <2>1, <2>2, <2>3, <2>4, <2>5, <2>6
<1> QED
  BY <1>2, <1>3

\* What is left of a sequence of documents when the first one has been read.
LEMMA FirstRead ==
  ASSUME NEW d \in Seq(Docs), NEW r \in Seq(Docs), d # <<>>
  PROVE  /\ Head(d) \in Docs /\ Tail(d) \in Seq(Docs)
         /\ Len(d \o r) \in Nat \ {0} /\ Head(d) = (d \o r)[1]
         /\ Len(Tail(d) \o r) = Len(d \o r) - 1
         /\ \A i \in 1..Len(Tail(d) \o r) : (Tail(d) \o r)[i] = (d \o r)[i + 1]
         /\ Len(d) \in Nat \ {0}
         /\ Len(r) = Len(d \o r) - Len(d)
         /\ \A i \in 1..Len(r) : r[i] = (d \o r)[i + Len(d)]
<1>1. Len(d) \in Nat \ {0} /\ Len(r) \in Nat
  <2>1. \A seq \in Seq(Docs) : seq # <<>> => Len(seq) \in Nat \ {0}
    BY EmptySeq
  <2> QED BY <2>1, LenProperties
<1> DEFINE tail == Tail(d)
<1>2. /\ Head(d) \in Docs /\ tail \in Seq(Docs) /\ Len(tail) = Len(d) - 1
      /\ \A i \in 1..(Len(d) - 1) : tail[i] = d[i + 1]
  BY HeadTailProperties
<1>3. Head(d) = d[1]
  OBVIOUS
<1> HIDE DEF tail
<1>4. /\ Len(d \o r) = Len(d) + Len(r)
      /\ \A i \in 1..(Len(d) + Len(r)) : (d \o r)[i] = IF i <= Len(d) THEN d[i] ELSE r[i - Len(d)]
  BY ConcatProperties
<1>5. /\ Len(tail \o r) = Len(tail) + Len(r)
      /\ \A i \in 1..(Len(tail) + Len(r)) :
           (tail \o r)[i] = IF i <= Len(tail) THEN tail[i] ELSE r[i - Len(tail)]
  BY <1>2, ConcatProperties
<1>6. Len(tail) + Len(r) = Len(d \o r) - 1
  BY <1>1, <1>2, <1>4
<1>7. ASSUME NEW i \in 1..(Len(tail) + Len(r))
      PROVE  (tail \o r)[i] = (d \o r)[i + 1]
  <2>1. i + 1 \in 1..(Len(d) + Len(r))
    BY <1>1, <1>2
  <2>2. CASE i <= Len(tail)
    <3>1. i \in 1..(Len(d) - 1) /\ i + 1 <= Len(d)
      BY <1>1, <1>2, <2>2
    <3> QED BY <1>2, <1>4, <1>5, <2>1, <2>2, <3>1
  <2>3. CASE ~ (i <= Len(tail))
    <3>1. ~ (i + 1 <= Len(d)) /\ i - Len(tail) = i + 1 - Len(d)
      BY <1>1, <1>2, <2>3
    <3> QED BY <1>4, <1>5, <2>1, <2>3, <3>1
  <2> QED BY <2>2, <2>3
<1>8. ASSUME NEW i \in 1..Len(r)
      PROVE  r[i] = (d \o r)[i + Len(d)]
  <2>1. /\ i + Len(d) \in 1..(Len(d) + Len(r)) /\ ~ (i + Len(d) <= Len(d))
        /\ i + Len(d) - Len(d) = i
    BY <1>1
  <2> QED BY <1>4, <2>1
<1>9. 1 \in 1..(Len(d) + Len(r)) /\ 1 <= Len(d)
  BY <1>1
<1>10. (d \o r)[1] = d[1] /\ Len(d \o r) \in Nat \ {0} /\ Len(r) = Len(d \o r) - Len(d)
  BY <1>1, <1>4, <1>9
<1> QED
  BY <1>1, <1>2, <1>3, <1>5, <1>6, <1>7, <1>8, <1>10 DEF tail

\* Where the buffer ends and the wire begins does not matter to the whole.
LEMMA Associative ==
  ASSUME NEW s \in Seq(Docs), NEW t \in Seq(Docs), NEW u \in Seq(Docs)
  PROVE  (s \o t) \o u = s \o (t \o u)
BY ConcatAssociative

\* A read that finds nothing in the buffer fetches documents from the wire.
LEMMA Fetched ==
  ASSUME NEW b \in Seq(Docs), NEW w \in Seq(Docs), NEW n \in 0..Len(w), b # <<>> \/ n > 0
  PROVE  /\ b \o SubSeq(w, 1, n) \in Seq(Docs) /\ b \o SubSeq(w, 1, n) # <<>>
         /\ SubSeq(w, n + 1, Len(w)) \in Seq(Docs)
         /\ (b \o SubSeq(w, 1, n)) \o SubSeq(w, n + 1, Len(w)) = b \o w
<1>1. Len(w) \in Nat /\ \A i \in 1..Len(w) : w[i] \in Docs
  BY LenProperties, ElementOfSeq
<1>2. /\ SubSeq(w, 1, n) \in Seq(Docs) /\ Len(SubSeq(w, 1, n)) = n
      /\ SubSeq(w, n + 1, Len(w)) \in Seq(Docs)
  BY <1>1, SubSeqProperties
<1>3. SubSeq(w, 1, n) \o SubSeq(w, n + 1, Len(w)) = w
  <2>1. 1 \in 1..(Len(w) + 1) /\ n \in (1 - 1)..Len(w) /\ Len(w) \in n..Len(w)
    BY <1>1
  <2>2. SubSeq(w, 1, n) \o SubSeq(w, n + 1, Len(w)) = SubSeq(w, 1, Len(w))
    BY <2>1, ConcatAdjacentSubSeq
  <2> QED BY <2>2, SubSeqFull
<1>4. (b \o SubSeq(w, 1, n)) \o SubSeq(w, n + 1, Len(w)) = b \o w
  <2> DEFINE first == SubSeq(w, 1, n)
             rest == SubSeq(w, n + 1, Len(w))
  <2>1. first \in Seq(Docs) /\ rest \in Seq(Docs) /\ first \o rest = w
    BY <1>2, <1>3
  <2> HIDE DEF first, rest
  <2>2. (b \o first) \o rest = b \o (first \o rest)
    BY <2>1, Associative
  <2> QED BY <2>1, <2>2 DEF first, rest
<1>5. b \o SubSeq(w, 1, n) \in Seq(Docs)
  BY <1>2, ConcatProperties
<1>6. b \o SubSeq(w, 1, n) # <<>>
  <2>1. n > 0 => SubSeq(w, 1, n) # <<>>
    <3>1. Len(<<>>) = 0
      BY EmptySeq
    <3>2. n > 0 => Len(SubSeq(w, 1, n)) # 0
      BY <1>2
    <3> QED BY <3>1, <3>2
  <2>2. \A s, t \in Seq(Docs) : s \o t = <<>> => s = <<>> /\ t = <<>>
    BY ConcatEqualIffEmpty
  <2> QED BY <1>2, <2>1, <2>2
<1> QED
  BY <1>2, <1>4, <1>5, <1>6

-----------------------------------------------------------------------------
(* What the steps do to a conversation.                                    *)

\* The types of the variables that a conversation is about.
LEMMA TypesOfParts ==
  ASSUME TypeOK
  PROVE  /\ buffer \in Seq(Docs) /\ wire \in Seq(Docs) /\ inbox \in Seq(Commands)
         /\ lastCommand \in Lines /\ begin \in 1..2 /\ cloud \in BOOLEAN
         /\ engine \in {"none", "ready", "debugging", "closed"}
BY DEF TypeOK

\* A caller of handleConnection that does not come back to it leaves nothing to
\* be kept in step; a Cloud client that does has nothing in its inbox, or detach.
LEMMA LeaveFacts ==
  ASSUME TypeOK, NEW result \in {"over", "error", "interrupted", "abort"}, Return(result)
  PROVE  /\ handling' = FALSE
         /\ pc' \in {"listen", "stopped", "handle", "aborting"}
         /\ open' \in BOOLEAN
         /\ inbox' \in Seq(Commands)
         /\ pc' = "handle" =>
              /\ cloud /\ open' = open
              /\ \/ result = "over" /\ inbox' = inbox
                 \/ result = "interrupted" /\ engine = "closed" /\ inbox' = inbox
                 \/ /\ result = "interrupted" /\ engine # "closed"
                    /\ inbox' = Append(inbox, Command("detach"))
<1>1. inbox \in Seq(Commands) /\ open \in BOOLEAN /\ cloud \in BOOLEAN
  BY DEF TypeOK
<1>2. /\ Append(inbox, Command("detach")) \in Seq(Commands)
      /\ Append(inbox, Command("cloudstop")) \in Seq(Commands)
  BY <1>1, LineFacts, AppendProperties
<1>3. /\ handling' = FALSE
      /\ pc' \in {"listen", "stopped", "handle", "aborting"}
      /\ open' \in BOOLEAN
      /\ inbox' \in Seq(Commands)
  BY <1>1, <1>2 DEF Return, Leave, LeaveTo
<1>4. ASSUME pc' = "handle"
      PROVE  /\ cloud /\ open' = open
             /\ \/ result = "over" /\ inbox' = inbox
                \/ result = "interrupted" /\ engine = "closed" /\ inbox' = inbox
                \/ /\ result = "interrupted" /\ engine # "closed"
                   /\ inbox' = Append(inbox, Command("detach"))
  BY <1>1, <1>4 DEF Return, Leave, LeaveTo
<1> QED
  BY <1>3, <1>4

\* The end of a conversation.
LEMMA LeftInv ==
  ASSUME TypeOK', pc' \in {"listen", "stopped", "aborting"}
  PROVE  IInv'
BY DEF IInv, Conversation, Connected, Fresh

\* A step that leaves client and engine as they are to each other.
LEMMA SameConversation ==
  ASSUME IInv, TypeOK',
         UNCHANGED <<cloud, pc, lastCommand, begin, buffer, open, engine, inbox, wire>>
  PROVE  IInv'
<1>1. Pending' = Pending
  BY DEF Pending
<1> QED
  BY <1>1 DEF IInv, Conversation, Connected, Fresh, InOrder, OneAtATime, ReadyIsFree,
              PromptIsQuiet, EngineSpeaks, Numbers, OwnReplies, Fitting

\* The first documents have been read: what follows them is in order.
LEMMA ShiftOrder ==
  ASSUME IInv, Connected, NEW k \in Nat \ {0},
         Len(Pending') = Len(Pending) - k, Len(Pending') \in Nat,
         \A i \in 1..Len(Pending') : Pending'[i] = Pending[i + k]
  PROVE  InOrder'
<1>1. InOrder
  BY DEF IInv, Conversation
<1> SUFFICES ASSUME NEW i \in 1..Len(Pending')
             PROVE  /\ WellMade(Pending'[i])
                    /\ Pending'[i].root = "response" =>
                         \/ i = Len(Pending')
                         \/ /\ Closes(Pending'[i]) /\ i + 1 = Len(Pending')
                            /\ Pending'[i + 1].root = "init"
                    /\ Pending'[i].root = "init" => i = Len(Pending')
  BY DEF InOrder
<1>2. Len(Pending) \in Nat
  BY PendingType DEF IInv
<1>3. i + k \in 1..Len(Pending) /\ Pending'[i] = Pending[i + k]
  BY <1>2
<1>4. i + k = Len(Pending) => i = Len(Pending')
  <2> DEFINE length == Len(Pending)
             left == Len(Pending')
  <2>1. length \in Nat /\ left \in Nat /\ left = length - k
    BY <1>2
  <2> HIDE DEF length, left
  <2>2. i + k = length => i = left
    BY <2>1
  <2> QED BY <2>2 DEF length, left
<1>5. ASSUME i + k + 1 = Len(Pending)
      PROVE  i + 1 = Len(Pending') /\ Pending'[i + 1] = Pending[i + k + 1]
  <2>1. i + 1 = Len(Pending') /\ i + 1 \in 1..Len(Pending') /\ i + 1 + k = i + k + 1
    BY <1>2, <1>5
  <2>2. Pending'[i + 1] = Pending[i + 1 + k]
    BY <2>1
  <2> QED BY <2>1, <2>2
<1>6. /\ WellMade(Pending[i + k])
      /\ Pending[i + k].root = "response" =>
           \/ i + k = Len(Pending)
           \/ /\ Closes(Pending[i + k]) /\ i + k + 1 = Len(Pending)
              /\ Pending[i + k + 1].root = "init"
      /\ Pending[i + k].root = "init" => i + k = Len(Pending)
  BY <1>1, <1>3 DEF InOrder
<1> QED
  BY <1>3, <1>4, <1>5, <1>6

-----------------------------------------------------------------------------
\* Before the first connection there is no conversation to be out of step.
LEMMA InitInv == Init => IInv
<1> SUFFICES ASSUME Init PROVE IInv
  OBVIOUS
<1>1. <<>> \in Seq(Docs) /\ <<>> \in Seq(Commands)
  BY EmptySeq
<1>2. TypeOK
  <2>1. pc \in {"connect", "listen"} /\ handling = FALSE
    BY DEF Init
  <2>2. Empty \in Lines /\ sent \in 0..MaxSent /\ signals \in 0..MaxSignals
    BY LineFacts, BoundsAssumption DEF Init
  <2>3. handling <=> pc \in {"read", "prompt"}
    BY <2>1
  <2>4. buffer \in Seq(Docs) /\ wire \in Seq(Docs) /\ inbox \in Seq(Commands) /\ lastCommand \in Lines
    BY <1>1, <2>2 DEF Init
  <2>5. /\ cloud \in BOOLEAN /\ once \in BOOLEAN /\ abort \in BOOLEAN
        /\ handling \in BOOLEAN /\ open \in BOOLEAN
        /\ engine \in {"none", "ready", "debugging", "closed"}
    BY DEF Init
  <2>6. begin \in 1..2
    BY DEF Init
  <2> QED BY <2>1, <2>2, <2>3, <2>4, <2>5, <2>6 DEF TypeOK
<1> QED
  BY <1>2 DEF Init, IInv, Conversation, Connected, Fresh

\* A connection is made: nothing has been said yet.
LEMMA ConnectionInv ==
  ASSUME IInv, Accept \/ Connect
  PROVE  IInv'
<1>t. TypeOK /\ Fresh
  BY DEF IInv
<1>0. Len(<<>>) = 0 /\ <<>> \in Seq(Docs) /\ <<>> \in Seq(Commands)
  BY EmptySeq
<1>1. ASSUME pc' = "handle", open' = TRUE, engine' = "ready", wire' = <<>>,
             \/ inbox' = <<>>
             \/ inbox' = <<Command("cloudinit")>> /\ cloud' = TRUE,
             TypeOK'
      PROVE  IInv'
  <2>1. Pending' = <<>>
    BY <1>1 DEF Pending
  <2>2. /\ Len(inbox') <= 1
        /\ \A i \in 1..Len(inbox') : inbox'[i] = Command("cloudinit") /\ cloud' = TRUE
    <3>1. CASE inbox' = <<>>
      BY <1>0, <3>1
    <3>2. CASE inbox' = <<Command("cloudinit")>> /\ cloud' = TRUE
      <4>1. Len(inbox') = 1 /\ inbox'[1] = Command("cloudinit")
        BY <3>2
      <4>2. \A i \in 1..Len(inbox') : i = 1
        BY <4>1
      <4> QED BY <3>2, <4>1, <4>2
    <3> QED BY <1>1, <3>1, <3>2
  <2>3. \A i \in 1..Len(Pending') : FALSE
    BY <1>0, <2>1
  <2>4. InOrder' /\ OneAtATime' /\ ReadyIsFree' /\ PromptIsQuiet' /\ EngineSpeaks'
    BY <1>1, <2>2, <2>3, LineFacts DEF InOrder, OneAtATime, ReadyIsFree, PromptIsQuiet, EngineSpeaks
  <2>5. Numbers'
    BY <1>1, <2>2, <2>3, LineFacts DEF Numbers, FirstLine
  <2>6. OwnReplies'
    BY <1>1, <2>2, <2>3, LineFacts DEF OwnReplies, Fitting
  <2> QED BY <1>1, <2>4, <2>5, <2>6 DEF IInv, Conversation, Fresh
<1>2. CASE Accept
  <2>1. TypeOK'
    BY <1>t, <1>0, <1>2 DEF Accept, TypeOK, options, reader
  <2> QED BY <1>1, <1>2, <2>1 DEF Accept
<1>3. CASE Connect
  <2>1. /\ pc = "connect" /\ cloud = TRUE /\ wire = <<>>
        /\ UNCHANGED <<cloud, once, lastCommand, handling, abort, begin, buffer, wire, sent, signals>>
    BY <1>t, <1>3 DEF Connect, options, reader, Fresh, TypeOK
  <2>2. CASE /\ pc' = "handle" /\ open' = TRUE /\ engine' = "ready"
             /\ inbox' = <<Command("cloudinit")>>
    <3>1. inbox' \in Seq(Commands)
      BY <2>2, LineFacts
    <3>2. TypeOK'
      BY <1>t, <2>1, <2>2, <3>1 DEF TypeOK
    <3> QED BY <1>1, <2>1, <2>2, <3>2
  <2>3. CASE pc' = "stopped" /\ UNCHANGED <<open, engine, inbox>>
    <3>1. TypeOK'
      BY <1>t, <2>1, <2>3 DEF TypeOK
    <3> QED BY <2>3, <3>1, LeftInv
  <2> QED BY <1>3, <2>2, <2>3 DEF Connect
<1> QED
  BY <1>2, <1>3

\* A new reader starts with what is on the wire.
LEMMA HandleInv ==
  ASSUME IInv, Handle
  PROVE  IInv'
<1>t. TypeOK /\ Conversation /\ Connected
  BY DEF IInv, Handle, Connected
<1>0. <<>> \in Seq(Docs) /\ wire \in Seq(Docs)
  BY EmptySeq DEF IInv, TypeOK
<1>1. /\ pc = "handle" /\ pc' = "read" /\ begin' = 1 /\ lastCommand' = Empty /\ abort' = FALSE
      /\ handling' = TRUE /\ buffer' = <<>>
      /\ UNCHANGED <<cloud, once, open, engine, inbox, wire, sent, signals>>
  BY DEF Handle, options, peerVars
<1>2. TypeOK'
  <2>1. Empty \in Lines
    BY LineFacts
  <2>2. handling' <=> pc' \in {"read", "prompt"}
    BY <1>1
  <2>3. buffer' \in Seq(Docs) /\ lastCommand' \in Lines
    BY <1>0, <1>1, <2>1
  <2>4. abort' \in BOOLEAN /\ handling' \in BOOLEAN
    BY <1>1
  <2>5. begin' \in 1..2
    BY <1>1
  <2> QED BY <1>t, <1>1, <2>2, <2>3, <2>4, <2>5 DEF TypeOK
<1>3. Pending' = Pending
  <2>1. <<>> \o wire = wire
    BY <1>0, ConcatEmptySeq
  <2> QED BY <1>1, <2>1 DEF Pending
<1>4. InOrder' /\ OneAtATime' /\ ReadyIsFree' /\ PromptIsQuiet' /\ EngineSpeaks'
  BY <1>t, <1>1, <1>3 DEF Conversation, InOrder, OneAtATime, ReadyIsFree, PromptIsQuiet,
                          EngineSpeaks
<1>5. Numbers'
  BY <1>t, <1>1, <1>3 DEF Conversation, Numbers
<1>6. OwnReplies'
  BY <1>t, <1>1, <1>3 DEF Conversation, OwnReplies, Fitting
<1> QED
  BY <1>t, <1>1, <1>2, <1>4, <1>5, <1>6 DEF IInv, Conversation, Fresh

\* The client leaves without having been at the prompt.
LEMMA GiveUpInv ==
  ASSUME IInv, TimeOut \/ ReadFails \/ Aborted
  PROVE  IInv'
<1>t. TypeOK
  BY DEF IInv
<1>1. CASE TimeOut
  <2>1. Return("abort") /\ UNCHANGED <<cloud, once, lastCommand, abort, begin, buffer, engine, wire, sent, signals>>
    BY <1>1 DEF TimeOut, options, reader
  <2>2. handling' = FALSE /\ pc' \in {"listen", "stopped", "aborting"}
        /\ open' \in BOOLEAN /\ inbox' \in Seq(Commands)
    BY <1>t, <2>1, LeaveFacts
  <2>3. TypeOK'
    BY <1>t, <2>1, <2>2 DEF TypeOK
  <2> QED BY <2>2, <2>3, LeftInv
<1>2. CASE ReadFails
  <2>1. Return("error") /\ UNCHANGED <<cloud, once, lastCommand, abort, begin, buffer, engine, wire, sent, signals>>
    BY <1>2 DEF ReadFails, options, reader
  <2>2. handling' = FALSE /\ pc' \in {"listen", "stopped", "aborting"}
        /\ open' \in BOOLEAN /\ inbox' \in Seq(Commands)
    BY <1>t, <2>1, LeaveFacts
  <2>3. TypeOK'
    BY <1>t, <2>1, <2>2 DEF TypeOK
  <2> QED BY <2>2, <2>3, LeftInv
<1>3. CASE Aborted
  <2>1. /\ pc = "aborting" /\ pc' = "stopped" /\ open' \in BOOLEAN
        /\ UNCHANGED <<cloud, once, lastCommand, handling, abort, begin, buffer, engine, inbox, sent, signals>>
    BY <1>t, <1>3 DEF Aborted, LeaveTo, options, reader, TypeOK
  <2>2. wire' \in Seq(Docs)
    <3>1. wire \in Seq(Docs)
      BY <1>t DEF TypeOK
    <3> QED BY <1>3, <3>1, HeadTailProperties DEF Aborted
  <2>3. TypeOK'
    BY <1>t, <2>1, <2>2 DEF TypeOK
  <2> QED BY <2>1, <2>3, LeftInv
<1> QED
  BY <1>1, <1>2, <1>3

\* An interrupt sets a flag or ends the process, and touches no document.
LEMMA InterruptInv ==
  ASSUME IInv, Interrupt
  PROVE  IInv'
<1>t. TypeOK
  BY DEF IInv
<1>1. /\ signals' = signals + 1 /\ signals < MaxSignals
      /\ UNCHANGED <<cloud, once, lastCommand, handling, begin, buffer, engine, inbox, wire, sent>>
  BY DEF Interrupt, options, peerVars
<1>2. signals' \in 0..MaxSignals
  BY <1>t, <1>1, BoundsAssumption DEF TypeOK
<1>3. CASE handling /\ abort' = TRUE /\ UNCHANGED <<pc, open>>
  <2>1. TypeOK'
    BY <1>t, <1>1, <1>2, <1>3 DEF TypeOK
  <2> QED BY <1>1, <1>3, <2>1, SameConversation
<1>4. CASE ~ handling /\ LeaveTo("stopped") /\ UNCHANGED abort
  <2>1. pc' = "stopped" /\ open' \in BOOLEAN
    BY <1>t, <1>4 DEF LeaveTo, TypeOK
  <2>2. TypeOK'
    BY <1>t, <1>1, <1>2, <1>4, <2>1 DEF TypeOK
  <2> QED BY <2>1, <2>2, LeftInv
<1> QED
  BY <1>t, <1>3, <1>4 DEF Interrupt, TypeOK

\* What handleConnection asks of a document.
LEMMA FormatFacts ==
  ASSUME NEW doc \in Docs, WellMade(doc), Interpreted(doc)
  PROVE  /\ FormatXML(doc).more /\ FormatXML(doc).success =>
              doc.root \in {"notify", "stream", "cloudinit"}
         /\ ~ FormatXML(doc).more /\ FormatXML(doc).closes => Closes(doc)
         /\ ~ FormatXML(doc).more /\ ~ FormatXML(doc).closes =>
              doc.root = "init" \/ (doc.root = "response" /\ ~ Closes(doc))
<1>0. /\ doc.root \in {"response", "init", "notify", "stream", "cloudinit"}
      /\ doc.success \in BOOLEAN /\ doc.error \in BOOLEAN
  BY DEF Docs, WellMade, Interpreted, Roots
<1>1. CASE doc.root = "response"
  <2>1. FormatXML(doc) = ResponseXML(doc)
    BY <1>1 DEF FormatXML
  <2>2. /\ FormatXML(doc).success = (doc.success \/ doc.command = "detach")
        /\ FormatXML(doc).more = (doc.command = "break")
        /\ FormatXML(doc).closes = (doc.command \in {"detach", "stop"})
    BY <2>1 DEF ResponseXML, Methods
  <2> QED BY <1>0, <1>1, <2>2 DEF WellMade, Closes
<1>2. CASE doc.root = "init"
  <2>1. FormatXML(doc) = InitXML
    BY <1>2 DEF FormatXML
  <2>2. FormatXML(doc).more = FALSE /\ FormatXML(doc).closes = FALSE
    BY <2>1 DEF InitXML, Methods
  <2> QED BY <1>2, <2>2
<1>3. CASE doc.root = "notify"
  <2>1. FormatXML(doc) = NotifyXML
    BY <1>3 DEF FormatXML
  <2>2. FormatXML(doc).more = TRUE
    BY <2>1 DEF NotifyXML, Methods
  <2> QED BY <1>3, <2>2
<1>4. CASE doc.root = "stream"
  <2>1. FormatXML(doc) = StreamXML
    BY <1>4 DEF FormatXML
  <2>2. FormatXML(doc).more = TRUE
    BY <2>1 DEF StreamXML, Methods
  <2> QED BY <1>4, <2>2
<1>5. CASE doc.root = "cloudinit"
  <2>1. FormatXML(doc) = CloudInitXML(doc)
    BY <1>5 DEF FormatXML
  <2>2. FormatXML(doc).more = TRUE
    BY <2>1 DEF CloudInitXML, Methods
  <2> QED BY <1>5, <2>2
<1> QED
  BY <1>0, <1>1, <1>2, <1>3, <1>4, <1>5

\* A document is read: if it asks for more, what followed it is what is left; if it
\* does not, it was the last one, or the init of another session follows.
LEMMA ReadInv ==
  ASSUME IInv, Read
  PROVE  IInv'
<1>t. /\ TypeOK /\ Conversation /\ Connected
      /\ pc = "read" /\ Pending = buffer \o wire /\ handling = TRUE
  BY DEF IInv, Read, Connected, Pending, TypeOK
<1>c. /\ open /\ InOrder /\ OneAtATime /\ ReadyIsFree /\ EngineSpeaks /\ Numbers /\ OwnReplies
  BY <1>t DEF Conversation
<1>p. /\ buffer \in Seq(Docs) /\ wire \in Seq(Docs) /\ inbox \in Seq(Commands)
      /\ Pending \in Seq(Docs) /\ Len(Pending) \in Nat
      /\ \A i \in 1..Len(Pending) : Pending[i] \in Docs
  BY <1>t, PendingType, TypesOfParts
<1>u. UNCHANGED <<cloud, once, lastCommand, abort, begin, engine, sent, signals>>
  BY DEF Read, options
<1>1. PICK n \in Fetch :
        LET data == buffer \o SubSeq(wire, 1, n)
            doc == Head(data)
        IN /\ buffer' = Tail(data)
           /\ wire' = SubSeq(wire, n + 1, Len(wire))
           /\ \/ /\ ~ Interpreted(doc)
                 /\ Return("error")
              \/ /\ Interpreted(doc) /\ FormatXML(doc).more
                 /\ IF FormatXML(doc).success
                      THEN UNCHANGED <<pc, handling, open, inbox>>
                      ELSE Return("error")
              \/ /\ Interpreted(doc) /\ ~ FormatXML(doc).more
                 /\ FormatXML(doc).closes
                 /\ Return("over")
              \/ /\ Interpreted(doc) /\ ~ FormatXML(doc).more
                 /\ ~ FormatXML(doc).closes
                 /\ pc' = "prompt"
                 /\ UNCHANGED <<handling, open, inbox>>
  BY DEF Read
<1> DEFINE data == buffer \o SubSeq(wire, 1, n)
           rest == SubSeq(wire, n + 1, Len(wire))
           doc == Pending[1]
<1>2. /\ data \in Seq(Docs) /\ data # <<>> /\ rest \in Seq(Docs)
      /\ data \o rest = buffer \o wire
  <2>1. n \in 0..Len(wire) /\ (buffer # <<>> \/ n > 0)
    <3>1. Len(wire) \in Nat
      BY <1>p, LenProperties
    <3> QED BY <3>1 DEF Fetch
  <2> QED BY <1>p, <2>1, Fetched
<1>3. /\ buffer' = Tail(data) /\ wire' = rest
      /\ \/ ~ Interpreted(Head(data)) /\ Return("error")
         \/ /\ Interpreted(Head(data)) /\ FormatXML(Head(data)).more
            /\ IF FormatXML(Head(data)).success THEN UNCHANGED <<pc, handling, open, inbox>>
                                                ELSE Return("error")
         \/ /\ Interpreted(Head(data)) /\ ~ FormatXML(Head(data)).more
            /\ FormatXML(Head(data)).closes /\ Return("over")
         \/ /\ Interpreted(Head(data)) /\ ~ FormatXML(Head(data)).more
            /\ ~ FormatXML(Head(data)).closes
            /\ pc' = "prompt" /\ UNCHANGED <<handling, open, inbox>>
  BY <1>1
<1> HIDE DEF data, rest
<1>4. /\ Tail(data) \in Seq(Docs)
      /\ Len(Pending) \in Nat \ {0} /\ Head(data) = Pending[1]
      /\ Len(buffer' \o wire') = Len(Pending) - 1
      /\ \A i \in 1..Len(buffer' \o wire') : (buffer' \o wire')[i] = Pending[i + 1]
      /\ Len(data) \in Nat \ {0}
      /\ Len(wire') = Len(Pending) - Len(data)
      /\ \A i \in 1..Len(wire') : wire'[i] = Pending[i + Len(data)]
  <2>1. /\ Tail(data) \in Seq(Docs)
        /\ Len(data \o rest) \in Nat \ {0} /\ Head(data) = (data \o rest)[1]
        /\ Len(Tail(data) \o rest) = Len(data \o rest) - 1
        /\ \A i \in 1..Len(Tail(data) \o rest) :
             (Tail(data) \o rest)[i] = (data \o rest)[i + 1]
        /\ Len(data) \in Nat \ {0}
        /\ Len(rest) = Len(data \o rest) - Len(data)
        /\ \A i \in 1..Len(rest) : rest[i] = (data \o rest)[i + Len(data)]
    BY <1>2, FirstRead
  <2>2. data \o rest = Pending
    BY <1>2, <1>t
  <2> QED BY <1>3, <2>1, <2>2
<1>5. /\ 1 \in 1..Len(Pending) /\ doc \in Docs /\ WellMade(doc)
      /\ doc.root = "response" =>
           \/ 1 = Len(Pending)
           \/ Closes(doc) /\ 1 + 1 = Len(Pending) /\ Pending[1 + 1].root = "init"
      /\ doc.root = "init" => 1 = Len(Pending)
  <2>1. 1 \in 1..Len(Pending)
    BY <1>4
  <2> QED BY <1>c, <1>p, <2>1 DEF InOrder
<1>6. buffer' \in Seq(Docs) /\ wire' \in Seq(Docs)
  BY <1>2, <1>3, <1>4
<1>7. ASSUME Return("error") PROVE IInv'
  <2>1. handling' = FALSE /\ pc' \in {"listen", "stopped", "aborting"}
        /\ open' \in BOOLEAN /\ inbox' \in Seq(Commands)
    BY <1>t, <1>7, LeaveFacts
  <2>2. TypeOK'
    BY <1>t, <1>u, <1>6, <2>1 DEF TypeOK
  <2> QED BY <2>1, <2>2, LeftInv
<1>8. ASSUME Interpreted(doc), FormatXML(doc).more, FormatXML(doc).success,
             UNCHANGED <<pc, handling, open, inbox>>
      PROVE  IInv'
  <2>1. doc.root \in {"notify", "stream", "cloudinit"}
    BY <1>5, <1>8, FormatFacts
  <2>2. TypeOK'
    BY <1>t, <1>u, <1>6, <1>8 DEF TypeOK
  <2>3. Pending' = buffer' \o wire'
    BY <1>t, <1>8 DEF Pending
  <2>4. /\ Len(Pending') = Len(Pending) - 1 /\ Len(Pending') \in Nat
        /\ \A i \in 1..Len(Pending') : i + 1 \in 1..Len(Pending) /\ Pending'[i] = Pending[i + 1]
    BY <1>4, <2>3
  <2>5. InOrder'
    <3>1. 1 \in Nat \ {0}
      OBVIOUS
    <3> QED BY <1>t, <2>4, <3>1, ShiftOrder
  <2>6. OneAtATime' /\ ReadyIsFree' /\ PromptIsQuiet'
    BY <1>t, <1>c, <1>u, <1>8, <2>4 DEF OneAtATime, ReadyIsFree, PromptIsQuiet
  <2>7. EngineSpeaks'
    <3> SUFFICES ASSUME ~ cloud, engine = "debugging", inbox = <<>>
                 PROVE  \E i \in 1..Len(Pending') : Pending'[i].root \in {"response", "init"}
      BY <1>u, <1>8 DEF EngineSpeaks
    <3>1. PICK j \in 1..Len(Pending) : Pending[j].root \in {"response", "init"}
      BY <1>t, <1>c DEF EngineSpeaks
    <3>2. j # 1
      BY <2>1, <3>1
    <3>3. j - 1 \in 1..Len(Pending') /\ j - 1 + 1 = j
      BY <1>4, <2>4, <3>2
    <3> QED BY <2>4, <3>1, <3>3
  <2>8. Numbers'
    BY <1>t, <1>c, <1>u, <1>8, <2>4 DEF Numbers
  <2>9. OwnReplies'
    BY <1>t, <1>c, <1>u, <1>8, <2>4 DEF OwnReplies, Fitting
  <2> QED BY <1>t, <1>c, <1>8, <2>2, <2>5, <2>6, <2>7, <2>8, <2>9 DEF IInv, Conversation, Fresh
<1>9. ASSUME Interpreted(doc), ~ FormatXML(doc).more, FormatXML(doc).closes, Return("over")
      PROVE  IInv'
  <2>1. Closes(doc)
    BY <1>5, <1>9, FormatFacts
  <2>2. /\ handling' = FALSE /\ open' \in BOOLEAN /\ inbox' \in Seq(Commands)
        /\ pc' \in {"listen", "stopped", "handle", "aborting"}
        /\ pc' = "handle" => cloud /\ open' = open /\ inbox' = inbox
    BY <1>t, <1>9, LeaveFacts
  <2>3. TypeOK'
    BY <1>t, <1>u, <1>6, <2>2 DEF TypeOK
  <2>4. CASE pc' = "handle"
    <3>1. inbox = <<>> /\ inbox' = <<>> /\ open' /\ cloud'
      BY <1>c, <1>u, <1>5, <2>1, <2>2, <2>4 DEF OneAtATime, Closes
    <3>2. Pending' = wire'
      BY <2>4 DEF Pending
    <3>3. /\ Len(Pending') = Len(Pending) - Len(data)
          /\ \A i \in 1..Len(Pending') : Pending'[i] = Pending[i + Len(data)]
      BY <1>4, <3>2
    <3>4. Len(Pending') \in Nat
      BY <1>6, <3>2, LenProperties
    <3>5. InOrder'
      BY <1>t, <1>4, <3>3, <3>4, ShiftOrder
    <3>6. \A i \in 1..Len(Pending') :
            /\ i + Len(data) \in 1..Len(Pending) /\ i + Len(data) = 1 + 1
            /\ Pending'[i].root = "init" /\ Pending'[i].command = "none"
      <4> TAKE i \in 1..Len(Pending')
      <4>1. i + Len(data) \in 1..Len(Pending) /\ i + Len(data) # 1
        BY <1>4, <3>3, <3>4
      <4>2. 1 + 1 = Len(Pending) /\ Pending[1 + 1].root = "init"
        BY <1>4, <1>5, <2>1, <4>1 DEF Closes
      <4>3. i + Len(data) = 1 + 1
        <5> DEFINE length == Len(data)
                   all == Len(Pending)
        <5>a. length \in Nat \ {0}
          BY <1>4
        <5>b. i + length \in 1..all
          BY <4>1
        <5>c. all = 1 + 1
          BY <4>2
        <5>d. i \in Nat \ {0}
          BY <3>4
        <5> HIDE DEF length, all
        <5>1. length \in Nat \ {0} /\ i + length \in 1..all /\ all = 2 /\ i \in Nat \ {0}
          BY <5>a, <5>b, <5>c, <5>d
        <5>2. i + length = 2
          BY <5>1
        <5> QED BY <5>2 DEF length
      <4>4. Pending'[i] = Pending[1 + 1] /\ 1 + 1 \in 1..Len(Pending)
        BY <3>3, <4>1, <4>3
      <4>5. Pending[1 + 1].command = "none"
        BY <1>c, <4>2, <4>4 DEF InOrder, WellMade
      <4> QED BY <4>1, <4>2, <4>3, <4>4, <4>5
    <3>7. Len(<<>>) = 0
      BY EmptySeq
    <3>8. OneAtATime' /\ PromptIsQuiet' /\ EngineSpeaks'
      BY <2>4, <3>1, <3>7 DEF OneAtATime, PromptIsQuiet, EngineSpeaks
    <3>9. ReadyIsFree'
      <4>1. ASSUME engine' = "ready" PROVE \A i \in 1..Len(Pending') : FALSE
        BY <1>c, <1>u, <3>3, <3>6, <4>1 DEF ReadyIsFree
      <4> QED BY <2>4, <3>1, <3>7, <4>1 DEF ReadyIsFree
    <3>10. Numbers'
      BY <2>4, <3>1, <3>6, <3>7 DEF Numbers
    <3>11. OwnReplies'
      BY <3>1, <3>6, <3>7 DEF OwnReplies
    <3> QED BY <2>3, <2>4, <3>1, <3>5, <3>8, <3>9, <3>10, <3>11 DEF IInv, Conversation, Fresh
  <2> QED BY <2>2, <2>3, <2>4, LeftInv
<1>10. ASSUME Interpreted(doc), ~ FormatXML(doc).more, ~ FormatXML(doc).closes,
              pc' = "prompt", UNCHANGED <<handling, open, inbox>>
       PROVE  IInv'
  <2>1. doc.root = "init" \/ (doc.root = "response" /\ ~ Closes(doc))
    BY <1>5, <1>10, FormatFacts
  <2>2. TypeOK'
    BY <1>t, <1>u, <1>6, <1>10 DEF TypeOK
  <2>3. Len(Pending) = 1
    BY <1>5, <2>1
  <2>4. Pending' = <<>>
    <3>1. Pending' = buffer' \o wire'
      BY <1>10 DEF Pending
    <3>2. Pending' \in Seq(Docs) /\ Len(Pending') = 0
      BY <1>4, <1>6, <2>3, <3>1, ConcatProperties
    <3>3. \A seq \in Seq(Docs) : seq # <<>> => Len(seq) \in Nat \ {0}
      BY EmptySeq
    <3> QED BY <3>2, <3>3
  <2>5. inbox' = <<>>
    BY <1>c, <1>5, <1>10, <2>1 DEF OneAtATime
  <2>6. engine' # "ready"
    BY <1>c, <1>u, <1>5, <2>1 DEF ReadyIsFree
  <2>7. Len(<<>>) = 0
    BY EmptySeq
  <2>8. InOrder' /\ OneAtATime' /\ ReadyIsFree' /\ PromptIsQuiet' /\ EngineSpeaks' /\ Numbers'
    BY <1>10, <2>4, <2>5, <2>6, <2>7 DEF InOrder, OneAtATime, ReadyIsFree, PromptIsQuiet,
                                          EngineSpeaks, Numbers
  <2>9. OwnReplies'
    BY <2>4, <2>5, <2>7 DEF OwnReplies
  <2> QED BY <1>c, <1>10, <2>2, <2>8, <2>9 DEF IInv, Conversation, Fresh
<1> QED
  BY <1>3, <1>4, <1>7, <1>8, <1>9, <1>10

\* At the prompt everything has been read, and there is an engine with a session.
LEMMA AtPrompt ==
  ASSUME IInv, pc = "prompt"
  PROVE  /\ TypeOK /\ open /\ handling /\ inbox = <<>> /\ Pending = <<>> /\ wire = <<>>
         /\ buffer = <<>> /\ engine # "ready"
<1>1. /\ TypeOK /\ open /\ inbox = <<>> /\ Pending = <<>> /\ engine # "ready"
      /\ buffer \in Seq(Docs) /\ wire \in Seq(Docs) /\ handling
  BY DEF IInv, Conversation, Connected, PromptIsQuiet, ReadyIsFree, TypeOK
<1>2. buffer \o wire = <<>>
  BY <1>1 DEF Pending
<1>3. \A s, t \in Seq(Docs) : s \o t = <<>> => s = <<>> /\ t = <<>>
  BY ConcatEqualIffEmpty
<1> QED
  BY <1>1, <1>2, <1>3

\* A command goes to an engine that has nothing else to do.
LEMMA TypeInv ==
  ASSUME IInv, Type
  PROVE  IInv'
<1>t. /\ pc = "prompt" /\ TypeOK /\ open /\ handling /\ inbox = <<>> /\ Pending = <<>>
      /\ wire = <<>> /\ buffer = <<>> /\ engine # "ready" /\ lastCommand \in Lines
  BY AtPrompt DEF Type, TypeOK
<1>1. /\ UNCHANGED <<cloud, once, abort, buffer, engine, wire, sent, signals>>
      /\ \E line \in Lines :
           /\ StoreSourceBegin(Meant(line))
           /\ \/ /\ pc' = "read"
                 /\ lastCommand' = Meant(line)
                 /\ inbox' = IF engine = "closed" THEN inbox ELSE Append(inbox, Meant(line))
                 /\ UNCHANGED <<handling, open>>
              \/ /\ engine = "closed"
                 /\ Return("error")
                 /\ UNCHANGED lastCommand
  BY DEF Type, options
<1>2. PICK command \in Lines :
        /\ StoreSourceBegin(command)
        /\ \/ /\ pc' = "read"
              /\ lastCommand' = command
              /\ inbox' = IF engine = "closed" THEN inbox ELSE Append(inbox, command)
              /\ UNCHANGED <<handling, open>>
           \/ /\ Return("error")
              /\ UNCHANGED lastCommand
  <2>1. \A line \in Lines : Meant(line) \in Lines
    BY <1>t DEF Meant
  <2> QED BY <1>1, <2>1
<1>3. command \in Commands /\ command.b \in {0, 2} /\ command.verb \notin {"cloudinit", "cloudstop"}
  BY LineFacts
<1>4. begin' = FirstLine(command) /\ begin' \in 1..2
  BY <1>2, <1>3 DEF StoreSourceBegin, FirstLine
<1>5. CASE Return("error") /\ UNCHANGED lastCommand
  <2>1. /\ handling' = FALSE /\ pc' \in {"listen", "stopped", "aborting"}
        /\ open' \in BOOLEAN /\ inbox' \in Seq(Commands)
    BY <1>t, <1>5, LeaveFacts
  <2>2. TypeOK'
    BY <1>t, <1>1, <1>4, <1>5, <2>1 DEF TypeOK
  <2> QED BY <2>1, <2>2, LeftInv
<1>6. CASE /\ pc' = "read" /\ lastCommand' = command
           /\ inbox' = IF engine = "closed" THEN inbox ELSE Append(inbox, command)
           /\ UNCHANGED <<handling, open>>
  <2>1. /\ Append(<<>>, command) \in Seq(Commands) /\ Len(Append(<<>>, command)) = 1
        /\ Append(<<>>, command)[1] = command /\ Append(<<>>, command) # <<>>
    BY <1>3, AloneFacts
  <2>2. inbox' = IF engine = "closed" THEN <<>> ELSE Append(<<>>, command)
    BY <1>t, <1>6
  <2>3. <<>> \in Seq(Commands) /\ Len(<<>>) = 0 /\ <<>> \in Seq(Docs)
    BY EmptySeq
  <2>4. /\ inbox' \in Seq(Commands) /\ Len(inbox') <= 1
        /\ \A i \in 1..Len(inbox') : inbox'[i] = command
        /\ engine # "closed" => inbox' # <<>>
    <3>1. CASE engine = "closed"
      BY <2>2, <2>3, <3>1
    <3>2. CASE engine # "closed"
      <4>1. inbox' = Append(<<>>, command)
        BY <2>2, <3>2
      <4>2. Len(inbox') = 1 /\ inbox'[1] = command
        BY <2>1, <4>1
      <4>3. \A i \in 1..Len(inbox') : i = 1
        BY <4>2
      <4> QED BY <2>1, <4>1, <4>2, <4>3
    <3> QED BY <3>1, <3>2
  <2>5. TypeOK'
    BY <1>t, <1>1, <1>4, <1>6, <2>4 DEF TypeOK
  <2>6. Pending' = <<>>
    <3>1. \A seq \in Seq(Docs) : <<>> \o seq = seq
      BY ConcatEmptySeq
    <3>2. buffer' = <<>> /\ wire' = <<>>
      BY <1>t, <1>1
    <3>3. Pending' = buffer' \o wire'
      BY <1>6 DEF Pending
    <3>4. <<>> \o <<>> = <<>>
      BY <2>3, <3>1
    <3> QED BY <3>2, <3>3, <3>4
  <2>7. \A i \in 1..Len(Pending') : FALSE
    BY <2>3, <2>6
  <2>8. InOrder' /\ OneAtATime' /\ ReadyIsFree' /\ PromptIsQuiet' /\ EngineSpeaks'
    BY <1>t, <1>1, <1>3, <1>6, <2>4, <2>7 DEF InOrder, OneAtATime, ReadyIsFree, PromptIsQuiet,
                                               EngineSpeaks
  <2>9. Numbers'
    BY <1>4, <1>6, <2>4, <2>7 DEF Numbers
  <2>10. OwnReplies'
    BY <1>6, <2>4, <2>7 DEF OwnReplies, Fitting
  <2> QED BY <1>t, <1>6, <2>5, <2>8, <2>9, <2>10 DEF IInv, Conversation, Fresh
<1> QED
  BY <1>2, <1>5, <1>6

\* A Cloud client that leaves the prompt has the session detached and waits for
\* the next one.
LEMMA LeavePromptInv ==
  ASSUME IInv, LeavePrompt
  PROVE  IInv'
<1>t. /\ pc = "prompt" /\ TypeOK /\ open /\ inbox = <<>> /\ wire = <<>> /\ engine # "ready"
  BY AtPrompt DEF LeavePrompt
<1>1. UNCHANGED <<cloud, once, lastCommand, abort, begin, buffer, engine, wire, sent, signals>>
  BY DEF LeavePrompt, options, reader
<1>2. PICK result \in {"interrupted", "error"} : Return(result)
  BY DEF LeavePrompt
<1>3. /\ handling' = FALSE /\ open' \in BOOLEAN /\ inbox' \in Seq(Commands)
      /\ pc' \in {"listen", "stopped", "handle", "aborting"}
      /\ pc' = "handle" =>
           /\ cloud /\ open' = open
           /\ \/ inbox' = inbox
              \/ inbox' = Append(inbox, Command("detach"))
  BY <1>t, <1>2, LeaveFacts
<1>4. TypeOK'
  BY <1>t, <1>1, <1>3 DEF TypeOK
<1>5. CASE pc' = "handle"
  <2> DEFINE detach == Command("detach")
  <2>1. detach \in Commands /\ detach.verb = "detach" /\ detach.b = 0
    BY LineFacts
  <2> HIDE DEF detach
  <2>2. /\ Len(Append(<<>>, detach)) = 1 /\ Append(<<>>, detach)[1] = detach
    BY <2>1, AloneFacts
  <2>3. Len(<<>>) = 0
    BY EmptySeq
  <2>4. Len(inbox') <= 1 /\ \A i \in 1..Len(inbox') : inbox'[i] = detach
    <3>1. CASE inbox' = <<>>
      BY <2>3, <3>1
    <3>2. CASE inbox' = Append(<<>>, detach)
      <4>1. Len(inbox') = 1 /\ inbox'[1] = detach
        BY <2>2, <3>2
      <4>2. \A i \in 1..Len(inbox') : i = 1
        BY <4>1
      <4> QED BY <4>1, <4>2
    <3> QED BY <1>t, <1>3, <1>5, <3>1, <3>2 DEF detach
  <2>5. Pending' = <<>>
    BY <1>t, <1>1, <1>5 DEF Pending
  <2>6. \A i \in 1..Len(Pending') : FALSE
    BY <2>3, <2>5
  <2>7. InOrder' /\ OneAtATime' /\ ReadyIsFree' /\ PromptIsQuiet' /\ EngineSpeaks'
    BY <1>t, <1>1, <1>3, <1>5, <2>1, <2>4, <2>6 DEF InOrder, OneAtATime, ReadyIsFree,
                                                     PromptIsQuiet, EngineSpeaks
  <2>8. Numbers'
    BY <1>5, <2>1, <2>4, <2>6 DEF Numbers, FirstLine
  <2>9. OwnReplies'
    BY <1>1, <1>3, <1>5, <2>1, <2>4, <2>6 DEF OwnReplies, Fitting
  <2> QED BY <1>t, <1>3, <1>4, <1>5, <2>7, <2>8, <2>9 DEF IInv, Conversation, Fresh
<1> QED
  BY <1>3, <1>4, <1>5, LeftInv

-----------------------------------------------------------------------------
(* The engine.                                                             *)

\* What a document that an engine sends does to what is still to be read.
LEMMA SentFacts ==
  ASSUME IInv, NEW doc \in Docs, Send(doc), UNCHANGED <<pc, buffer>>
  PROVE  /\ wire' \in Seq(Docs) /\ sent' \in 0..MaxSent
         /\ Connected =>
              /\ Len(Pending) \in Nat
              /\ Len(Pending') = Len(Pending) + 1
              /\ Pending'[Len(Pending) + 1] = doc
              /\ \A i \in 1..Len(Pending) : Pending'[i] = Pending[i]
              /\ \A i \in 1..Len(Pending') : i = Len(Pending) + 1 \/ i \in 1..Len(Pending)
<1>1. wire \in Seq(Docs) /\ sent \in 0..MaxSent /\ TypeOK
  BY DEF IInv, TypeOK
<1>2. sent' \in 0..MaxSent
  BY <1>1, BoundsAssumption DEF Send
<1>3. wire' \in Seq(Docs)
  BY <1>1, AppendProperties DEF Send
<1>4. ASSUME Connected
      PROVE  /\ Len(Pending) \in Nat
             /\ Len(Pending') = Len(Pending) + 1
             /\ Pending'[Len(Pending) + 1] = doc
             /\ \A i \in 1..Len(Pending) : Pending'[i] = Pending[i]
  <2>1. wire' = Append(wire, doc)
    BY <1>4 DEF IInv, Conversation, Send
  <2> QED BY <1>1, <2>1, AppendPending, PendingType
<1>5. ASSUME Connected
      PROVE  \A i \in 1..Len(Pending') : i = Len(Pending) + 1 \/ i \in 1..Len(Pending)
  <2> DEFINE length == Len(Pending)
             longer == Len(Pending')
  <2>1. length \in Nat /\ longer = length + 1
    BY <1>4, <1>5
  <2> HIDE DEF length, longer
  <2>2. \A i \in 1..longer : i = length + 1 \/ i \in 1..length
    BY <2>1
  <2> QED BY <2>2 DEF length, longer
<1> QED
  BY <1>2, <1>3, <1>4, <1>5

\* The init of a session: no session is going on, no reply is on its way that
\* does not end the last one.
LEMMA EngineInitInv ==
  ASSUME IInv, EngineInit
  PROVE  IInv'
<1> DEFINE doc == Doc("init", "none", TRUE, 1)
<1>t. TypeOK /\ Fresh
  BY DEF IInv
<1>d. doc \in Docs /\ doc.root = "init" /\ doc.command = "none" /\ doc.first = 1
  <2>1. 1 \in 1..2
    OBVIOUS
  <2> QED BY <2>1 DEF Doc, Docs
<1>1. /\ engine = "ready" /\ engine' = "debugging" /\ inbox = <<>> /\ Send(doc)
      /\ UNCHANGED <<cloud, once, pc, lastCommand, handling, abort, begin, buffer, open, inbox,
                     signals>>
  BY DEF EngineInit, options, reader
<1> HIDE DEF doc
<1>2. /\ wire' \in Seq(Docs) /\ sent' \in 0..MaxSent
      /\ Connected =>
           /\ Len(Pending) \in Nat
           /\ Len(Pending') = Len(Pending) + 1
           /\ Pending'[Len(Pending) + 1] = doc
           /\ \A i \in 1..Len(Pending) : Pending'[i] = Pending[i]
           /\ \A i \in 1..Len(Pending') : i = Len(Pending) + 1 \/ i \in 1..Len(Pending)
  BY <1>1, <1>d, SentFacts
<1>3. TypeOK'
  BY <1>t, <1>1, <1>2 DEF TypeOK
<1>4. Fresh'
  BY <1>t, <1>1 DEF Fresh
<1>5. ASSUME Connected'
      PROVE  /\ open' /\ InOrder' /\ OneAtATime' /\ ReadyIsFree' /\ PromptIsQuiet'
             /\ EngineSpeaks' /\ Numbers' /\ OwnReplies'
  <2>0. /\ Connected /\ open /\ InOrder /\ OneAtATime /\ ReadyIsFree /\ Numbers /\ OwnReplies
    BY <1>1, <1>5 DEF IInv, Conversation, Connected
  <2>1. \A i \in 1..Len(Pending) : Pending[i].root = "response" =>
          Closes(Pending[i]) /\ i = Len(Pending)
    BY <1>1, <2>0, PendingType, <1>t DEF InOrder, ReadyIsFree
  <2>2. \A i \in 1..Len(Pending) : Pending[i].root # "init"
    BY <1>1, <2>0 DEF ReadyIsFree
  <2>3. InOrder'
    <3> SUFFICES ASSUME NEW i \in 1..Len(Pending')
                 PROVE  /\ WellMade(Pending'[i])
                        /\ Pending'[i].root = "response" =>
                             \/ i = Len(Pending')
                             \/ /\ Closes(Pending'[i]) /\ i + 1 = Len(Pending')
                                /\ Pending'[i + 1].root = "init"
                        /\ Pending'[i].root = "init" => i = Len(Pending')
      BY DEF InOrder
    <3>1. CASE i = Len(Pending) + 1
      BY <1>d, <1>2, <2>0, <3>1 DEF WellMade
    <3>2. CASE i \in 1..Len(Pending)
      BY <1>d, <1>2, <2>0, <2>1, <2>2, <3>2 DEF InOrder
    <3> QED BY <1>2, <2>0, <3>1, <3>2
  <2>4. OneAtATime'
    BY <1>1, <2>0 DEF OneAtATime
  <2>5. ReadyIsFree' /\ PromptIsQuiet'
    BY <1>1, <2>0 DEF ReadyIsFree, PromptIsQuiet
  <2>6. EngineSpeaks'
    <3>1. Len(Pending) + 1 \in 1..Len(Pending')
      BY <1>2, <2>0
    <3> QED BY <1>d, <1>2, <2>0, <3>1 DEF EngineSpeaks
  <2>7. Numbers'
    BY <1>d, <1>1, <1>2, <2>0 DEF Numbers
  <2>8. OwnReplies'
    BY <1>d, <1>1, <1>2, <2>0 DEF OwnReplies, Fitting
  <2> QED BY <1>1, <2>0, <2>3, <2>4, <2>5, <2>6, <2>7, <2>8
<1> QED
  BY <1>3, <1>4, <1>5 DEF IInv, Conversation

\* Output and notifications come before the reply.
LEMMA StreamInv ==
  ASSUME IInv, Stream
  PROVE  IInv'
<1>t. TypeOK /\ Fresh
  BY DEF IInv
<1>1. /\ engine = "debugging" /\ inbox # <<>>
      /\ \E root \in {"stream", "notify", "other"} : Send(Doc(root, "none", TRUE, 1))
      /\ UNCHANGED <<cloud, once, pc, lastCommand, handling, abort, begin, buffer, open, engine,
                     inbox, signals>>
  BY DEF Stream, options, reader
<1>d. PICK doc \in Docs : /\ doc.root \in {"stream", "notify", "other"} /\ doc.command = "none"
                          /\ doc.first = 1 /\ Send(doc)
  <2>1. 1 \in 1..2
    OBVIOUS
  <2>2. \A root \in {"stream", "notify", "other"} :
          /\ Doc(root, "none", TRUE, 1) \in Docs /\ Doc(root, "none", TRUE, 1).root = root
          /\ Doc(root, "none", TRUE, 1).command = "none" /\ Doc(root, "none", TRUE, 1).first = 1
    BY <2>1 DEF Doc, Docs
  <2> QED BY <1>1, <2>2
<1>2. /\ wire' \in Seq(Docs) /\ sent' \in 0..MaxSent
      /\ Connected =>
           /\ Len(Pending) \in Nat
           /\ Len(Pending') = Len(Pending) + 1
           /\ Pending'[Len(Pending) + 1] = doc
           /\ \A i \in 1..Len(Pending) : Pending'[i] = Pending[i]
           /\ \A i \in 1..Len(Pending') : i = Len(Pending) + 1 \/ i \in 1..Len(Pending)
  BY <1>1, <1>d, SentFacts
<1>3. TypeOK'
  BY <1>t, <1>1, <1>2 DEF TypeOK
<1>4. Fresh'
  BY <1>t, <1>1 DEF Fresh
<1>5. ASSUME Connected'
      PROVE  /\ open' /\ InOrder' /\ OneAtATime' /\ ReadyIsFree' /\ PromptIsQuiet'
             /\ EngineSpeaks' /\ Numbers' /\ OwnReplies'
  <2>0. /\ Connected /\ open /\ InOrder /\ OneAtATime /\ PromptIsQuiet /\ Numbers /\ OwnReplies
    BY <1>1, <1>5 DEF IInv, Conversation, Connected
  <2>1. \A i \in 1..Len(Pending') : /\ Pending'[i].root \notin {"response", "init"}
                                    /\ WellMade(Pending'[i])
    BY <1>1, <1>d, <1>2, <2>0 DEF OneAtATime, InOrder, WellMade
  <2>2. InOrder' /\ OneAtATime' /\ ReadyIsFree' /\ PromptIsQuiet' /\ EngineSpeaks'
    BY <1>1, <2>0, <2>1 DEF InOrder, OneAtATime, ReadyIsFree, PromptIsQuiet, EngineSpeaks
  <2>3. Numbers'
    BY <1>d, <1>1, <1>2, <2>0 DEF Numbers
  <2>4. OwnReplies'
    BY <1>1, <2>0, <2>1 DEF OwnReplies, Fitting
  <2> QED BY <1>1, <2>0, <2>2, <2>3, <2>4
<1> QED
  BY <1>3, <1>4, <1>5 DEF IInv, Conversation

\* The answer to a command: the inbox is empty again, and its reply comes last.
LEMMA AnswerInv ==
  ASSUME IInv, Answer
  PROVE  IInv'
<1> DEFINE command == Head(inbox)
           ends == engine = "debugging" /\ command.verb \in {"stop", "detach"}
<1>t. /\ TypeOK /\ Fresh /\ inbox # <<>> /\ inbox \in Seq(Commands) /\ cloud \in BOOLEAN
      /\ engine \in {"ready", "debugging"}
  BY DEF IInv, Answer, TypeOK
<1>1. UNCHANGED <<cloud, once, pc, lastCommand, handling, abort, begin, buffer, open, signals>>
  BY DEF Answer, options, reader
<1>2. /\ inbox' = Tail(inbox)
      /\ \/ /\ command.verb = "cloudinit"
            /\ \E success \in BOOLEAN : Send(Doc("cloudinit", "none", success, 1))
            /\ UNCHANGED engine
         \/ /\ command.verb = "cloudstop"
            /\ Send(Doc("cloudstop", "none", TRUE, 1))
            /\ engine' = "closed"
         \/ /\ command \in Lines
            /\ Send(Doc("response", command.verb, command.verb \notin {"break", "none"},
                        FirstLine(command)))
            /\ engine' = IF ~ ends THEN engine ELSE IF cloud THEN "ready" ELSE "closed"
  BY DEF Answer
<1>3. command \in Commands /\ inbox' \in Seq(Commands)
  BY <1>t, <1>2, HeadTailProperties
<1> HIDE DEF command, ends
<1>4. PICK doc \in Docs :
        /\ Send(doc)
        /\ \/ /\ command.verb = "cloudinit" /\ UNCHANGED engine
              /\ doc.root = "cloudinit" /\ doc.command = "none" /\ doc.first = 1
           \/ command.verb = "cloudstop" /\ engine' = "closed"
           \/ /\ command \in Lines
              /\ doc.root = "response" /\ doc.command = command.verb
              /\ doc.command = "break" => ~ doc.success
              /\ doc.first = FirstLine(command)
              /\ engine' = IF ~ ends THEN engine ELSE IF cloud THEN "ready" ELSE "closed"
  <2>0. 1 \in 1..2 /\ TRUE \in BOOLEAN
    OBVIOUS
  <2>1. CASE /\ command.verb = "cloudinit" /\ UNCHANGED engine
             /\ \E success \in BOOLEAN : Send(Doc("cloudinit", "none", success, 1))
    <3>1. PICK success \in BOOLEAN : Send(Doc("cloudinit", "none", success, 1))
      BY <2>1
    <3> DEFINE doc == Doc("cloudinit", "none", success, 1)
    <3>2. doc \in Docs /\ doc.root = "cloudinit" /\ doc.command = "none" /\ doc.first = 1
      BY <2>0 DEF Doc, Docs
    <3> HIDE DEF doc
    <3>3. Send(doc)
      BY <3>1 DEF doc
    <3> QED BY <2>1, <3>2, <3>3
  <2>2. CASE /\ command.verb = "cloudstop" /\ engine' = "closed"
             /\ Send(Doc("cloudstop", "none", TRUE, 1))
    <3> DEFINE doc == Doc("cloudstop", "none", TRUE, 1)
    <3>1. doc \in Docs
      BY <2>0 DEF Doc, Docs
    <3> HIDE DEF doc
    <3>2. Send(doc)
      BY <2>2 DEF doc
    <3> QED BY <2>2, <3>1, <3>2
  <2>3. CASE /\ command \in Lines
             /\ Send(Doc("response", command.verb, command.verb \notin {"break", "none"},
                         FirstLine(command)))
             /\ engine' = IF ~ ends THEN engine ELSE IF cloud THEN "ready" ELSE "closed"
    <3> DEFINE success == command.verb \notin {"break", "none"}
               first == FirstLine(command)
               doc == Doc("response", command.verb, success, first)
    <3>1. command.verb \in {"none", "run", "source", "break", "detach", "stop"}
      BY <2>3, LineFacts
    <3>2. first \in 1..2
      BY <2>3, LineFacts DEF FirstLine
    <3>3. success \in BOOLEAN /\ (command.verb = "break" => ~ success)
      OBVIOUS
    <3>4. Send(doc)
      BY <2>3
    <3>5. first = FirstLine(command)
      OBVIOUS
    <3> HIDE DEF success, first
    <3>6. doc \in Docs /\ doc.root = "response" /\ doc.command = command.verb
          /\ doc.success = success /\ doc.first = first
      BY <3>1, <3>2, <3>3 DEF Doc, Docs
    <3> HIDE DEF doc
    <3> QED BY <2>3, <3>3, <3>4, <3>5, <3>6
  <2> QED BY <1>2, <2>1, <2>2, <2>3
<1>5. /\ wire' \in Seq(Docs) /\ sent' \in 0..MaxSent
      /\ Connected =>
           /\ Len(Pending) \in Nat
           /\ Len(Pending') = Len(Pending) + 1
           /\ Pending'[Len(Pending) + 1] = doc
           /\ \A i \in 1..Len(Pending) : Pending'[i] = Pending[i]
           /\ \A i \in 1..Len(Pending') : i = Len(Pending) + 1 \/ i \in 1..Len(Pending)
  BY <1>1, <1>4, SentFacts
<1>6. engine' \in {"ready", "debugging", "closed"}
  BY <1>t, <1>4
<1>7. TypeOK'
  BY <1>t, <1>1, <1>3, <1>5, <1>6 DEF TypeOK
<1>8. Fresh'
  BY <1>t, <1>1 DEF Fresh
<1>9. ASSUME Connected'
      PROVE  /\ open' /\ InOrder' /\ OneAtATime' /\ ReadyIsFree' /\ PromptIsQuiet'
             /\ EngineSpeaks' /\ Numbers' /\ OwnReplies'
  <2>0. /\ Connected /\ open /\ InOrder /\ OneAtATime /\ ReadyIsFree /\ PromptIsQuiet /\ Numbers
        /\ OwnReplies
    BY <1>1, <1>9 DEF IInv, Conversation, Connected
  <2>1. /\ Len(inbox) = 1 /\ command = inbox[1] /\ inbox' = <<>>
        /\ 1 \in 1..Len(inbox)
    <3>1. Len(inbox) = 1 /\ Head(inbox) = inbox[1] /\ Tail(inbox) = <<>>
      BY <1>t, <2>0, InboxFacts DEF OneAtATime
    <3> QED BY <1>2, <3>1 DEF command
  <2>2. /\ command.verb # "cloudstop" /\ (command.verb = "cloudinit" => cloud)
        /\ engine = "ready" => command.verb = "cloudinit"
        /\ pc = "handle" => FirstLine(command) = 1 /\ command.verb # "source"
        /\ pc = "read" => FirstLine(command) = begin
        /\ pc # "prompt"
    BY <1>t, <2>0, <2>1 DEF OneAtATime, ReadyIsFree, Numbers, PromptIsQuiet
  <2>3. /\ WellMade(doc) /\ doc.root \in {"response", "cloudinit"}
        /\ pc = "handle" => doc.command # "source"
        /\ pc = "read" => (doc.command = "source" => doc.first = begin)
    <3>1. CASE doc.root = "cloudinit" /\ doc.command = "none" /\ doc.first = 1
      BY <3>1 DEF WellMade
    <3>2. CASE /\ command \in Lines /\ doc.root = "response" /\ doc.command = command.verb
               /\ doc.command = "break" => ~ doc.success
               /\ doc.first = FirstLine(command)
      <4>1. command.verb # "source" => FirstLine(command) = 1
        BY <3>2, LineFacts DEF FirstLine
      <4> QED BY <2>2, <3>2, <4>1 DEF WellMade
    <3> QED BY <1>4, <2>2, <3>1, <3>2
  <2>4. \A i \in 1..Len(Pending) : Pending[i].root \notin {"response", "init"}
    BY <1>t, <2>0 DEF OneAtATime
  <2>5. Len(<<>>) = 0
    BY EmptySeq
  <2>6. InOrder'
    <3> SUFFICES ASSUME NEW i \in 1..Len(Pending')
                 PROVE  /\ WellMade(Pending'[i])
                        /\ Pending'[i].root = "response" =>
                             \/ i = Len(Pending')
                             \/ /\ Closes(Pending'[i]) /\ i + 1 = Len(Pending')
                                /\ Pending'[i + 1].root = "init"
                        /\ Pending'[i].root = "init" => i = Len(Pending')
      BY DEF InOrder
    <3>1. CASE i = Len(Pending) + 1
      BY <1>5, <2>0, <2>3, <3>1
    <3>2. CASE i \in 1..Len(Pending)
      BY <1>5, <2>0, <2>4, <3>2 DEF InOrder
    <3> QED BY <1>5, <2>0, <3>1, <3>2
  <2>7. OneAtATime'
    BY <2>1, <2>5 DEF OneAtATime
  <2>8. ReadyIsFree'
    <3>1. ASSUME engine' = "ready", doc.root = "response" PROVE Closes(doc)
      BY <1>t, <1>4, <2>2, <3>1, LineFacts DEF Closes, ends
    <3> QED BY <1>1, <1>5, <2>0, <2>1, <2>2, <2>3, <2>4, <2>5, <3>1 DEF ReadyIsFree
  <2>9. PromptIsQuiet'
    BY <1>1, <2>2 DEF PromptIsQuiet
  <2>10. EngineSpeaks'
    <3>1. ASSUME ~ cloud' PROVE doc.root = "response"
      BY <1>1, <1>4, <2>2, <3>1
    <3>2. Len(Pending) + 1 \in 1..Len(Pending')
      BY <1>5, <2>0
    <3> QED BY <1>5, <2>0, <3>1, <3>2 DEF EngineSpeaks
  <2>11. Numbers'
    BY <1>1, <1>5, <2>0, <2>1, <2>3, <2>4, <2>5 DEF Numbers
  <2>12. OwnReplies'
    <3>1. Fitting(command.verb)
      BY <2>0, <2>1 DEF OwnReplies
    <3>2. doc.root = "response" => doc.command = command.verb
      BY <1>4, <2>2
    <3> QED BY <1>1, <1>5, <2>0, <2>1, <2>4, <2>5, <3>1, <3>2 DEF OwnReplies, Fitting
  <2> QED BY <1>1, <2>0, <2>6, <2>7, <2>8, <2>9, <2>10, <2>11, <2>12
<1> QED
  BY <1>7, <1>8, <1>9 DEF IInv, Conversation

\* An engine that dies answers nothing.
LEMMA HangupInv ==
  ASSUME IInv, Hangup
  PROVE  IInv'
<1>t. TypeOK /\ Fresh
  BY DEF IInv
<1>0. <<>> \in Seq(Commands) /\ Len(<<>>) = 0
  BY EmptySeq
<1>1. /\ engine' = "closed" /\ inbox' = <<>> /\ engine # "none"
      /\ UNCHANGED <<cloud, once, pc, lastCommand, handling, abort, begin, buffer, open, wire, sent,
                     signals>>
  BY DEF Hangup, options, reader
<1>2. TypeOK'
  BY <1>t, <1>0, <1>1 DEF TypeOK
<1>3. Pending' = Pending
  BY <1>1 DEF Pending
<1>4. Conversation'
  BY <1>0, <1>1, <1>3 DEF IInv, Conversation, Connected, InOrder, OneAtATime, ReadyIsFree,
                          PromptIsQuiet, EngineSpeaks, Numbers, OwnReplies, Fitting
<1> QED
  BY <1>t, <1>1, <1>2, <1>4 DEF IInv, Fresh

-----------------------------------------------------------------------------
\* Every step of client, user and peer preserves the invariant.
LEMMA NextInv == IInv /\ [Next]_vars => IInv'
<1> SUFFICES ASSUME IInv, [Next]_vars PROVE IInv'
  OBVIOUS
<1>1. ASSUME UNCHANGED vars PROVE IInv'
  <2>1. TypeOK'
    BY <1>1 DEF IInv, TypeOK, vars, options, reader, peerVars
  <2> QED BY <1>1, <2>1, SameConversation DEF vars, options, reader, peerVars
<1>2. CASE ClientStep
  BY <1>2, HandleInv, ReadInv, GiveUpInv DEF ClientStep
<1>3. CASE Accept \/ Connect \/ Type \/ LeavePrompt \/ Interrupt
  BY <1>3, ConnectionInv, TypeInv, LeavePromptInv, InterruptInv
<1>4. CASE EngineInit \/ Answer \/ Stream \/ Hangup
  BY <1>4, EngineInitInv, AnswerInv, StreamInv, HangupInv
<1> QED
  BY <1>1, <1>2, <1>3, <1>4 DEF Next

-----------------------------------------------------------------------------
\* In every reachable state of the debugger, however long it runs: SIGINT has a
\* handler exactly while handleConnection is at work, and every variable its type.
THEOREM TypesAreRight == Spec => []TypeOK
<1>1. IInv => TypeOK
  BY DEF IInv
<1> QED
  BY <1>1, InitInv, NextInv, PTL DEF Spec

\* Whatever engines send and users type: when the prompt comes up, no command waits
\* to be answered and no reply to be read, so that the next reply read is the reply
\* to the next command (handleConnection, ExpectMoreResponses).
THEOREM RepliesAreNotMixedUp == Spec => []OneCommandAtATime
<1>1. IInv => OneCommandAtATime
  <2> SUFFICES ASSUME IInv, pc = "prompt"
               PROVE  /\ inbox = <<>>
                      /\ \A i \in 1..Len(buffer \o wire) : (buffer \o wire)[i].root # "response"
    BY DEF OneCommandAtATime
  <2>1. inbox = <<>> /\ Pending = <<>>
    BY AtPrompt
  <2>2. buffer \o wire = <<>> /\ Len(<<>>) = 0
    BY <2>1, EmptySeq DEF Pending
  <2> QED BY <2>1, <2>2
<1> QED
  BY <1>1, InitInv, NextInv, PTL DEF Spec

\* In the midst of a session without Cloud, client and engine never both wait for
\* the other (handleConnection, for engines that answer).
THEOREM SomebodySpeaks == Spec => []NoMutualWait
<1>1. IInv => NoMutualWait
  <2> SUFFICES ASSUME IInv, ~ cloud, pc = "read", engine = "debugging", inbox = <<>>
               PROVE  buffer \o wire # <<>>
    BY DEF NoMutualWait
  <2>1. Pending = buffer \o wire /\ EngineSpeaks
    BY DEF IInv, Conversation, Connected, Pending
  <2>2. PICK i \in 1..Len(Pending) : TRUE
    BY <2>1 DEF EngineSpeaks
  <2>3. Len(<<>>) = 0
    BY EmptySeq
  <2>4. Len(Pending) # 0
    BY <2>2
  <2> QED BY <2>1, <2>3, <2>4
<1> QED
  BY <1>1, InitInv, NextInv, PTL DEF Spec

\* The number that the client puts on the first line of a text is that of the
\* command the text answers, over any number of commands and sessions
\* (storeSourceBeginIfPresent, parseResponseXML).
THEOREM LinesAreNumberedRight == Spec => []NumberedRight
<1>1. IInv => NumberedRight
  BY DEF IInv, Conversation, Connected, Numbers, Pending, NumberedRight
<1> QED
  BY <1>1, InitInv, NextInv, PTL DEF Spec

\* The reply that the client displays next is the reply to the command that it has
\* kept as the last one given; a Cloud client that has given none yet may still be
\* told of the detach of the session before.
ReplyIsForLastCommand ==
  pc = "read" =>
    \A i \in 1..Len(buffer \o wire) : (buffer \o wire)[i].root = "response" =>
      \/ (buffer \o wire)[i].command = lastCommand.verb
      \/ cloud /\ lastCommand = Empty /\ (buffer \o wire)[i].command = "detach"

\* The client displays transaction ids but compares none, and yet, over any number
\* of commands and sessions, prompts that were left and empty lines included, takes
\* no reply for that to another command (handleConnection, runAsCloudClient).
THEOREM RepliesAreForTheLastCommand == Spec => []ReplyIsForLastCommand
<1>1. IInv => ReplyIsForLastCommand
  <2> SUFFICES ASSUME IInv, pc = "read", NEW i \in 1..Len(Pending),
                      Pending[i].root = "response"
               PROVE  \/ Pending[i].command = lastCommand.verb
                      \/ cloud /\ lastCommand = Empty /\ Pending[i].command = "detach"
    BY DEF ReplyIsForLastCommand, Pending
  <2>1. OwnReplies
    BY DEF IInv, Conversation, Connected
  <2>2. Pending[i].command # "cloudinit"
    BY PendingType DEF IInv, Docs
  <2> QED BY <2>1, <2>2 DEF OwnReplies, Fitting
<1> QED
  BY <1>1, InitInv, NextInv, PTL DEF Spec

=============================================================================
