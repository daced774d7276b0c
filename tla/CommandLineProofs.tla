-------------------------- MODULE CommandLineProofs --------------------------
(***************************************************************************)
(* What becomes of a line on its way, for any tokens: it keeps its name,   *)
(* is made of its own tokens, and a parser that takes it apart finds what  *)
(* was put into it.                                                        *)
(***************************************************************************)
EXTENDS CommandLine, SequenceTheorems, WellFoundedInduction, NaturalsInduction, TLAPS

-----------------------------------------------------------------------------
\* A set of positions has a last and a first one.
LEMMA LastAndFirst ==
  ASSUME NEW n \in Nat, NEW T, T \subseteq 1..n, T # {}
  PROVE  /\ \E i \in T : \A j \in T : i <= j
         /\ \E i \in T : \A j \in T : i >= j
<1>1. \A U : (U \subseteq Nat /\ U # {}) => \E i \in U : \A j \in U : ~ (<<j, i>> \in OpToRel(<, Nat))
  BY WFMin, NatLessThanWellFounded, Zenon
<1>2. \A U : (U \subseteq Nat /\ U # {}) => \E i \in U : \A j \in U : ~ (j < i)
  <2> SUFFICES ASSUME NEW U, U \subseteq Nat, U # {}
               PROVE  \E i \in U : \A j \in U : ~ (j < i)
    OBVIOUS
  <2>1. PICK i \in U : \A j \in U : ~ (<<j, i>> \in OpToRel(<, Nat))
    BY <1>1, Zenon
  <2>2. \A j \in U : (j < i) => <<j, i>> \in OpToRel(<, Nat)
    BY Zenon DEF OpToRel
  <2> QED BY <2>1, <2>2, Zenon
<1>3. \E i \in T : \A j \in T : i <= j
  <2>1. T \subseteq Nat
    OBVIOUS
  <2>2. PICK i \in T : \A j \in T : ~ (j < i)
    BY <1>2, <2>1
  <2> QED BY <2>1, <2>2
<1>4. \E i \in T : \A j \in T : i >= j
  <2> DEFINE U == {n - i : i \in T}
  <2>1. U \subseteq Nat /\ U # {}
    <3>1. PICK i \in T : TRUE
      OBVIOUS
    <3>2. n - i \in U
      BY <3>1
    <3>3. \A j \in T : n - j \in Nat
      OBVIOUS
    <3> QED BY <3>2, <3>3
  <2>2. PICK u \in U : \A v \in U : ~ (v < u)
    <3> HIDE DEF U
    <3> QED BY <1>2, <2>1
  <2>3. PICK i \in T : u = n - i
    BY <2>2
  <2>4. \A j \in T : ~ (n - j < n - i)
    BY <2>2, <2>3
  <2> QED BY <2>3, <2>4
<1> QED
  BY <1>3, <1>4

\* A line that begins with a full token keeps it, and loses only what is empty
\* at its end (processLine).
LEMMA TrimmedLine ==
  ASSUME NEW S, NEW line \in Seq(S), Len(line) > 0, line[1] # Blank
  PROVE  /\ Trimmed(line) \in Seq(S) /\ Len(Trimmed(line)) > 0 /\ Trimmed(line)[1] = line[1]
         /\ (\A i \in 1..Len(line) : line[i] # Blank) => Trimmed(line) = line
<1> DEFINE full == {i \in DOMAIN line : line[i] # Blank}
<1> DEFINE first == CHOOSE i \in full : \A j \in full : i <= j
<1> DEFINE last == CHOOSE i \in full : \A j \in full : i >= j
<1>0. DOMAIN line = 1..Len(line) /\ Len(line) \in Nat
  OBVIOUS
<1>1. full \subseteq 1..Len(line) /\ 1 \in full
  BY <1>0
<1>2. Trimmed(line) = SubSeq(line, first, last)
  BY <1>1 DEF Trimmed
<1>3. first \in full /\ (\A j \in full : first <= j) /\ last \in full /\ (\A j \in full : last >= j)
  <2> HIDE DEF full
  <2>1. \E i \in full : \A j \in full : i <= j
    BY <1>0, <1>1, LastAndFirst
  <2>2. \E i \in full : \A j \in full : i >= j
    BY <1>0, <1>1, LastAndFirst
  <2> QED BY <2>1, <2>2
<1>6. (\A i \in 1..Len(line) : line[i] # Blank) => Len(line) \in full
  BY <1>0
<1> HIDE DEF full, first, last
<1>4. first = 1 /\ last \in 1..Len(line)
  BY <1>1, <1>3
<1>5. /\ SubSeq(line, 1, last) \in Seq(S) /\ Len(SubSeq(line, 1, last)) = last
      /\ \A i \in 1..last : SubSeq(line, 1, last)[i] = line[i]
  <2>1. \A i \in 1..last : line[i] \in S
    BY <1>4, ElementOfSeq
  <2> QED BY <1>4, <2>1, SubSeqProperties
<1>7. (\A i \in 1..Len(line) : line[i] # Blank) => last = Len(line)
  <2> SUFFICES ASSUME \A i \in 1..Len(line) : line[i] # Blank
               PROVE  last = Len(line)
    OBVIOUS
  <2>1. last >= Len(line)
    BY <1>3, <1>6
  <2>2. last \in Nat /\ Len(line) \in Nat /\ last <= Len(line)
    BY <1>0, <1>4
  <2> QED BY <2>1, <2>2
<1>8. Trimmed(line) = SubSeq(line, 1, last)
  BY <1>2, <1>4
<1>9. (\A i \in 1..Len(line) : line[i] # Blank) => Trimmed(line) = line
  BY <1>7, <1>8, SubSeqFull
<1>10. Len(Trimmed(line)) > 0 /\ Trimmed(line)[1] = line[1]
  BY <1>4, <1>5, <1>8
<1> QED
  BY <1>5, <1>8, <1>9, <1>10

\* A transaction id goes between the name of a command and its arguments, if at
\* all (injectIIfNeeded).
LEMMA NumberedLine ==
  ASSUME NEW S, NEW parts \in Seq(S), Len(parts) > 0, "-i" \in S, "1" \in S
  PROVE  /\ InjectIIfNeeded(parts, "1") \in Seq(S)
         /\ Len(InjectIIfNeeded(parts, "1")) > 0
         /\ Head(InjectIIfNeeded(parts, "1")) = parts[1]
         /\ \/ Tail(InjectIIfNeeded(parts, "1")) = Tail(parts)
            \/ Tail(InjectIIfNeeded(parts, "1")) = <<"-i", "1">> \o Tail(parts)
<1> DEFINE front == <<Head(parts), "-i", "1">>
<1> DEFINE rest == Tail(parts)
<1> DEFINE whole == front \o rest
<1> DEFINE arguments == <<"-i", "1">> \o rest
<1>1. Head(parts) = parts[1] /\ Head(parts) \in S /\ rest \in Seq(S) /\ Len(rest) \in Nat
  <2>1. parts # <<>>
    OBVIOUS
  <2> QED BY <2>1, HeadTailProperties
<1>2. CASE Contains(parts, "-i")
  BY <1>1, <1>2 DEF InjectIIfNeeded
<1>3. CASE ~ Contains(parts, "-i")
  <2>1. front \in Seq(S) /\ Len(front) = 3 /\ <<"-i", "1">> \in Seq(S) /\ Len(<<"-i", "1">>) = 2
    BY <1>1
  <2>2. front[1] = parts[1] /\ front[2] = "-i" /\ front[3] = "1"
    BY <1>1
  <2>3. InjectIIfNeeded(parts, "1") = whole
    BY <1>3 DEF InjectIIfNeeded
  <2> HIDE DEF front, rest
  <2>4. /\ whole \in Seq(S) /\ Len(whole) = 3 + Len(rest)
        /\ \A i \in 1..(3 + Len(rest)) : whole[i] = IF i <= 3 THEN front[i] ELSE rest[i - 3]
    <3>1. /\ whole \in Seq(S) /\ Len(whole) = Len(front) + Len(rest)
          /\ \A i \in 1..(Len(front) + Len(rest)) :
               whole[i] = IF i <= Len(front) THEN front[i] ELSE rest[i - Len(front)]
      BY <1>1, <2>1, ConcatProperties
    <3> HIDE DEF whole
    <3> QED BY <2>1, <3>1
  <2>5. /\ arguments \in Seq(S) /\ Len(arguments) = 2 + Len(rest)
        /\ \A i \in 1..(2 + Len(rest)) :
             arguments[i] = IF i <= 2 THEN <<"-i", "1">>[i] ELSE rest[i - 2]
    BY <1>1, <2>1, ConcatProperties
  <2> HIDE DEF whole, arguments
  <2>6. \A i \in 1..(2 + Len(rest)) : arguments[i] = whole[i + 1]
    <3> SUFFICES ASSUME NEW i \in 1..(2 + Len(rest))
                 PROVE  arguments[i] = whole[i + 1]
      OBVIOUS
    <3>1. i + 1 \in 1..(3 + Len(rest)) /\ (i + 1) - 3 = i - 2
      BY <1>1
    <3>2. CASE i \in 1..2
      BY <1>1, <2>2, <2>4, <2>5, <3>1, <3>2
    <3>3. CASE i > 2
      <4>1. arguments[i] = rest[i - 2]
        BY <2>5, <3>3
      <4>2. whole[i + 1] = rest[(i + 1) - 3]
        BY <2>4, <3>1, <3>3
      <4> QED BY <3>1, <4>1, <4>2
    <3> QED BY <1>1, <3>2, <3>3
  <2>7. /\ Tail(whole) \in Seq(S) /\ Len(Tail(whole)) = 2 + Len(rest) /\ Head(whole) = whole[1]
        /\ \A i \in 1..(2 + Len(rest)) : Tail(whole)[i] = whole[i + 1]
    <3>1. whole # <<>>
      BY <1>1, <2>4
    <3> QED BY <1>1, <2>4, <3>1, HeadTailProperties
  <2>8. Tail(whole) = arguments
    BY <2>5, <2>6, <2>7, SeqEqual
  <2>9. whole[1] = parts[1] /\ Len(whole) > 0
    BY <1>1, <2>2, <2>4
  <2> QED
    BY <2>3, <2>4, <2>7, <2>8, <2>9 DEF arguments, rest
<1> QED
  BY <1>2, <1>3

-----------------------------------------------------------------------------
\* Among the first n pairs a flag is not given, or given last in the i-th.
NotIn(arguments, flag, n) == \A i \in 1..n : arguments[2 * i - 1] # flag

LastIn(arguments, flag, n, i) ==
  /\ i \in 1..n
  /\ arguments[2 * i - 1] = flag
  /\ \A j \in 1..n : arguments[2 * j - 1] = flag => j <= i

\* The value of a flag is that of its last occurrence, at the front of a pair.
LEMMA ValueLast ==
  ASSUME NEW arguments, NEW flag, NEW default, NEW n \in Nat, n = Len(arguments) \div 2
  PROVE  /\ NotIn(arguments, flag, n) => Value(arguments, flag, default) = default
         /\ \A i : LastIn(arguments, flag, n, i) =>
              Value(arguments, flag, default) = arguments[2 * i]
<1> DEFINE pairs == Pairs(arguments)
<1> DEFINE given == {i \in DOMAIN pairs : pairs[i].flag = flag}
<1>1. /\ DOMAIN pairs = 1..n
      /\ \A i \in 1..n : pairs[i].flag = arguments[2 * i - 1] /\ pairs[i].value = arguments[2 * i]
  BY DEF Pairs
<1>2. Value(arguments, flag, default) =
        IF given = {} THEN default ELSE pairs[CHOOSE i \in given : \A j \in given : i >= j].value
  BY DEF Value
<1> HIDE DEF pairs
<1>3. given = {i \in 1..n : arguments[2 * i - 1] = flag}
  BY <1>1
<1>4. ASSUME NotIn(arguments, flag, n)
      PROVE  Value(arguments, flag, default) = default
  BY <1>2, <1>3, <1>4 DEF NotIn
<1>5. ASSUME NEW i, LastIn(arguments, flag, n, i)
      PROVE  Value(arguments, flag, default) = arguments[2 * i]
  <2>1. i \in given /\ (\A j \in given : i >= j) /\ given \subseteq 1..n /\ i \in 1..n
    BY <1>3, <1>5 DEF LastIn
  <2> HIDE DEF given
  <2>2. \A k \in given : (\A j \in given : k >= j) => k = i
    BY <2>1
  <2>3. (CHOOSE k \in given : \A j \in given : k >= j) = i
    BY <2>1, <2>2
  <2> QED BY <1>1, <1>2, <2>1, <2>3
<1> QED
  BY <1>4, <1>5

\* There is such an occurrence, or none at all.
LEMMA LastGiven ==
  ASSUME NEW arguments, NEW flag, NEW n \in Nat
  PROVE  NotIn(arguments, flag, n) \/ \E i : LastIn(arguments, flag, n, i)
<1> DEFINE given == {i \in 1..n : arguments[2 * i - 1] = flag}
<1>1. CASE given = {}
  BY <1>1 DEF NotIn
<1>2. CASE given # {}
  <2>1. given \subseteq 1..n
    OBVIOUS
  <2>2. PICK i \in given : \A j \in given : i >= j
    <3> HIDE DEF given
    <3> QED BY <1>2, <2>1, LastAndFirst
  <2> QED BY <2>1, <2>2 DEF LastIn
<1> QED
  BY <1>1, <1>2

\* A value is one of the arguments, or the default.
LEMMA ValueTypes ==
  ASSUME NEW S, NEW arguments \in Seq(S), NEW flag, NEW default \in S
  PROVE  Value(arguments, flag, default) \in S
<1>1. PICK n \in Nat : n = Len(arguments) \div 2
  OBVIOUS
<1>2. \A i \in 1..n : arguments[2 * i] \in S
  <2>1. \A i \in 1..n : 2 * i \in 1..Len(arguments)
    BY <1>1
  <2> QED BY <2>1, ElementOfSeq
<1>3. NotIn(arguments, flag, n) => Value(arguments, flag, default) = default
  BY <1>1, ValueLast, Zenon
<1>4. \A i : LastIn(arguments, flag, n, i) => Value(arguments, flag, default) = arguments[2 * i]
  BY <1>1, ValueLast, Zenon
<1>5. NotIn(arguments, flag, n) \/ \E i : LastIn(arguments, flag, n, i)
  BY LastGiven, Zenon
<1>6. \A i : LastIn(arguments, flag, n, i) => i \in 1..n
  BY DEF LastIn
<1> QED
  BY <1>2, <1>3, <1>4, <1>5, <1>6, Zenon

\* A transaction id in front changes no other flag, and spoils nothing.
LEMMA TransactionIdHarmless ==
  ASSUME NEW S, NEW rest \in Seq(S), "-i" \in S, "1" \in S
  PROVE  /\ \A flag, default : flag # "-i" =>
              Value(<<"-i", "1">> \o rest, flag, default) = Value(rest, flag, default)
         /\ \A flags : WellFormed(rest, flags) => WellFormed(<<"-i", "1">> \o rest, flags)
<1> DEFINE arguments == <<"-i", "1">> \o rest
<1>1. Len(rest) \in Nat /\ <<"-i", "1">> \in Seq(S) /\ Len(<<"-i", "1">>) = 2
  OBVIOUS
<1>2. /\ arguments \in Seq(S) /\ Len(arguments) = 2 + Len(rest)
      /\ \A i \in 1..(2 + Len(rest)) :
           arguments[i] = IF i <= 2 THEN <<"-i", "1">>[i] ELSE rest[i - 2]
  BY <1>1, ConcatProperties
<1> HIDE DEF arguments
<1>3. /\ arguments[1] = "-i" /\ arguments[2] = "1"
      /\ \A i \in 1..Len(rest) : arguments[i + 2] = rest[i]
  BY <1>1, <1>2
<1>4. PICK n \in Nat : n = Len(rest) \div 2
  BY <1>1
<1>5. n + 1 \in Nat /\ n + 1 = Len(arguments) \div 2 /\ 2 * n <= Len(rest)
  BY <1>1, <1>2, <1>4
<1>6. \A i \in 1..n : /\ arguments[2 * (i + 1) - 1] = rest[2 * i - 1]
                      /\ arguments[2 * (i + 1)] = rest[2 * i]
  <2> SUFFICES ASSUME NEW i \in 1..n
               PROVE  /\ arguments[2 * (i + 1) - 1] = rest[2 * i - 1]
                      /\ arguments[2 * (i + 1)] = rest[2 * i]
    OBVIOUS
  <2>1. /\ 2 * i - 1 \in 1..Len(rest) /\ 2 * i \in 1..Len(rest)
        /\ 2 * (i + 1) - 1 = (2 * i - 1) + 2 /\ 2 * (i + 1) = 2 * i + 2
    BY <1>1, <1>5
  <2> QED BY <1>3, <2>1
<1>7. ASSUME NEW flag, NEW default, flag # "-i"
      PROVE  Value(arguments, flag, default) = Value(rest, flag, default)
  <2>1. ASSUME NotIn(rest, flag, n)
        PROVE  NotIn(arguments, flag, n + 1)
    <3> SUFFICES ASSUME NEW i \in 1..(n + 1)
                 PROVE  arguments[2 * i - 1] # flag
      BY DEF NotIn
    <3>1. CASE i = 1
      BY <1>3, <1>7, <3>1
    <3>2. CASE i > 1
      <4>1. i - 1 \in 1..n /\ (i - 1) + 1 = i
        BY <1>4, <3>2
      <4>2. arguments[2 * i - 1] = rest[2 * (i - 1) - 1]
        BY <1>6, <4>1
      <4> QED BY <2>1, <4>1, <4>2 DEF NotIn
    <3> QED BY <3>1, <3>2
  <2>2. ASSUME NEW i, LastIn(rest, flag, n, i)
        PROVE  LastIn(arguments, flag, n + 1, i + 1) /\ arguments[2 * (i + 1)] = rest[2 * i]
    <3>1. i \in 1..n /\ rest[2 * i - 1] = flag
      BY <2>2 DEF LastIn
    <3>2. i + 1 \in 1..(n + 1) /\ arguments[2 * (i + 1) - 1] = flag
      BY <1>4, <1>6, <3>1
    <3>3. ASSUME NEW j \in 1..(n + 1), arguments[2 * j - 1] = flag
          PROVE  j <= i + 1
      <4>1. CASE j = 1
        BY <3>1, <4>1
      <4>2. CASE j > 1
        <5>1. j - 1 \in 1..n /\ (j - 1) + 1 = j
          BY <1>4, <4>2
        <5>2. arguments[2 * j - 1] = rest[2 * (j - 1) - 1]
          BY <1>6, <5>1
        <5>3. j - 1 <= i
          BY <2>2, <3>3, <5>1, <5>2 DEF LastIn
        <5> QED BY <3>1, <5>1, <5>3
      <4> QED BY <4>1, <4>2
    <3> QED BY <1>6, <3>1, <3>2, <3>3 DEF LastIn
  <2>3. NotIn(rest, flag, n) => Value(rest, flag, default) = default
    BY <1>4, ValueLast, Zenon
  <2>4. \A i : LastIn(rest, flag, n, i) => Value(rest, flag, default) = rest[2 * i]
    BY <1>4, ValueLast, Zenon
  <2>5. NotIn(arguments, flag, n + 1) => Value(arguments, flag, default) = default
    BY <1>5, ValueLast, Zenon
  <2>6. \A i : LastIn(arguments, flag, n + 1, i) =>
          Value(arguments, flag, default) = arguments[2 * i]
    BY <1>5, ValueLast, Zenon
  <2>7. NotIn(rest, flag, n) \/ \E i : LastIn(rest, flag, n, i)
    BY LastGiven, Zenon
  <2>8. CASE NotIn(rest, flag, n)
    BY <2>1, <2>3, <2>5, <2>8, Zenon
  <2>9. ASSUME NEW i, LastIn(rest, flag, n, i)
        PROVE  Value(arguments, flag, default) = Value(rest, flag, default)
    <3>1. LastIn(arguments, flag, n + 1, i + 1) /\ arguments[2 * (i + 1)] = rest[2 * i]
      BY <2>2, <2>9
    <3>2. Value(arguments, flag, default) = arguments[2 * (i + 1)]
      BY <2>6, <3>1, Zenon
    <3>3. Value(rest, flag, default) = rest[2 * i]
      BY <2>4, <2>9, Zenon
    <3> QED BY <3>1, <3>2, <3>3
  <2> QED BY <2>7, <2>8, <2>9
<1>8. ASSUME NEW flags, WellFormed(rest, flags)
      PROVE  WellFormed(arguments, flags)
  <2>1. /\ DOMAIN Pairs(rest) = 1..n
        /\ \A i \in 1..n : Pairs(rest)[i].flag = rest[2 * i - 1]
                           /\ Pairs(rest)[i].value = rest[2 * i]
    BY <1>4 DEF Pairs
  <2>2. /\ DOMAIN Pairs(arguments) = 1..(n + 1)
        /\ \A i \in 1..(n + 1) : Pairs(arguments)[i].flag = arguments[2 * i - 1]
                                 /\ Pairs(arguments)[i].value = arguments[2 * i]
    BY <1>5 DEF Pairs
  <2>3. Len(arguments) % 2 = 0
    BY <1>1, <1>2, <1>8 DEF WellFormed
  <2>4. ASSUME NEW i \in 1..(n + 1)
        PROVE  /\ arguments[2 * i - 1] \in flags \cup {"-i"}
               /\ arguments[2 * i - 1] \in {"-p", "-s"} => arguments[2 * i] \in Numerals
    <3>1. CASE i = 1
      BY <1>3, <3>1
    <3>2. CASE i > 1
      <4>1. i - 1 \in 1..n /\ (i - 1) + 1 = i
        BY <1>4, <3>2
      <4>2. arguments[2 * i - 1] = rest[2 * (i - 1) - 1] /\ arguments[2 * i] = rest[2 * (i - 1)]
        BY <1>6, <4>1
      <4>3. /\ rest[2 * (i - 1) - 1] \in flags \cup {"-i"}
            /\ rest[2 * (i - 1) - 1] \in {"-p", "-s"} => rest[2 * (i - 1)] \in Numerals
        BY <1>8, <2>1, <4>1 DEF WellFormed
      <4> QED BY <4>2, <4>3
    <3> QED BY <3>1, <3>2
  <2> QED BY <2>2, <2>3, <2>4 DEF WellFormed
<1> QED
  BY <1>7, <1>8 DEF arguments

-----------------------------------------------------------------------------
\* The tokens of a command to register (registerWithProxy).
LEMMA RegisterTokens ==
  ASSUME NEW S, NEW k \in S, NEW port \in S, NEW ssl \in BOOLEAN,
         {"proxyinit", "-m", "1", "-k", "-p", "-s"} \subseteq S
  PROVE  LET line == RegisterLine(<<k>>, port, ssl)
         IN /\ line \in Seq(S) /\ Len(line) = IF ssl THEN 9 ELSE 7
            /\ line[1] = "proxyinit" /\ line[2] = "-m" /\ line[3] = "1" /\ line[4] = "-k"
            /\ line[5] = k /\ line[6] = "-p" /\ line[7] = port
            /\ ssl => line[8] = "-s" /\ line[9] = "1"
<1> DEFINE a == <<"proxyinit", "-m", "1", "-k">>
<1> DEFINE b == <<k>>
<1> DEFINE c == <<"-p", port>>
<1> DEFINE d == IF ssl THEN <<"-s", "1">> ELSE <<>>
<1> DEFINE ab == a \o b
<1> DEFINE abc == ab \o c
<1> DEFINE abcd == abc \o d
<1>1. /\ a \in Seq(S) /\ Len(a) = 4
      /\ a[1] = "proxyinit" /\ a[2] = "-m" /\ a[3] = "1" /\ a[4] = "-k"
  OBVIOUS
<1>2. b \in Seq(S) /\ Len(b) = 1 /\ b[1] = k
  OBVIOUS
<1>3. c \in Seq(S) /\ Len(c) = 2 /\ c[1] = "-p" /\ c[2] = port
  OBVIOUS
<1>4. d \in Seq(S) /\ Len(d) = (IF ssl THEN 2 ELSE 0) /\ (ssl => d[1] = "-s" /\ d[2] = "1")
  OBVIOUS
<1>5. RegisterLine(<<k>>, port, ssl) = abcd
  BY DEF RegisterLine
<1> HIDE DEF a, b, c, d
<1>s. a \in Seq(S) /\ b \in Seq(S) /\ c \in Seq(S) /\ d \in Seq(S)
  BY <1>1, <1>2, <1>3, <1>4
<1>6. /\ ab \in Seq(S) /\ Len(ab) = Len(a) + Len(b)
      /\ \A i \in 1..(Len(a) + Len(b)) : ab[i] = IF i <= Len(a) THEN a[i] ELSE b[i - Len(a)]
  BY <1>s, ConcatProperties
<1> HIDE DEF ab
<1>t. ab \in Seq(S)
  BY <1>6
<1>7. /\ abc \in Seq(S) /\ Len(abc) = Len(ab) + Len(c)
      /\ \A i \in 1..(Len(ab) + Len(c)) : abc[i] = IF i <= Len(ab) THEN ab[i] ELSE c[i - Len(ab)]
  BY <1>s, <1>t, ConcatProperties
<1> HIDE DEF abc
<1>u. abc \in Seq(S)
  BY <1>7
<1>8. /\ abcd \in Seq(S) /\ Len(abcd) = Len(abc) + Len(d)
      /\ \A i \in 1..(Len(abc) + Len(d)) :
           abcd[i] = IF i <= Len(abc) THEN abc[i] ELSE d[i - Len(abc)]
  BY <1>s, <1>u, ConcatProperties
<1> HIDE DEF abcd
<1>9. /\ Len(ab) = 5
      /\ ab[1] = "proxyinit" /\ ab[2] = "-m" /\ ab[3] = "1" /\ ab[4] = "-k" /\ ab[5] = k
  BY <1>1, <1>2, <1>6
<1>10. /\ Len(abc) = 7
       /\ abc[1] = "proxyinit" /\ abc[2] = "-m" /\ abc[3] = "1" /\ abc[4] = "-k" /\ abc[5] = k
       /\ abc[6] = "-p" /\ abc[7] = port
  BY <1>3, <1>7, <1>9
<1>11. /\ Len(abcd) = IF ssl THEN 9 ELSE 7
       /\ abcd[1] = "proxyinit" /\ abcd[2] = "-m" /\ abcd[3] = "1" /\ abcd[4] = "-k"
       /\ abcd[5] = k /\ abcd[6] = "-p" /\ abcd[7] = port
       /\ ssl => abcd[8] = "-s" /\ abcd[9] = "1"
  BY <1>4, <1>8, <1>10
<1> QED
  BY <1>5, <1>8, <1>11

\* Any key, even one that reads like a flag, is understood as it was meant, with
\* the port and the SSL mode it came with (registerWithProxy, CreateProxyInit).
LEMMA RegisterUnderstood ==
  ASSUME NEW S, NEW k \in S, NEW port \in S \cap Numerals, NEW ssl \in BOOLEAN,
         {"proxyinit", "-i", "-m", "1", "-k", "-p", "-s"} \subseteq S, Blank \notin S
  PROVE  LET parsed == ParseLine(ProcessLine(RegisterLine(<<k>>, port, ssl), "1"))
         IN /\ parsed.ok /\ parsed.name = "proxyinit" /\ parsed.key = k
            /\ parsed.port = port /\ parsed.ssl = ssl
<1> DEFINE line == RegisterLine(<<k>>, port, ssl)
<1> DEFINE rest == Tail(line)
<1> DEFINE sent == ProcessLine(line, "1")
<1> DEFINE n == IF ssl THEN 4 ELSE 3
<1>1. /\ line \in Seq(S) /\ Len(line) = IF ssl THEN 9 ELSE 7
      /\ line[1] = "proxyinit" /\ line[2] = "-m" /\ line[3] = "1" /\ line[4] = "-k"
      /\ line[5] = k /\ line[6] = "-p" /\ line[7] = port
      /\ ssl => line[8] = "-s" /\ line[9] = "1"
  BY RegisterTokens
<1> HIDE DEF line
<1>2. Trimmed(line) = line
  <2>1. \A i \in 1..Len(line) : line[i] # Blank
    BY <1>1, ElementOfSeq
  <2>2. Len(line) > 0 /\ line[1] # Blank
    BY <1>1, <2>1
  <2> QED BY <1>1, <2>1, <2>2, TrimmedLine
<1>3. sent = InjectIIfNeeded(line, "1") /\ Len(line) > 0
  BY <1>1, <1>2 DEF ProcessLine
<1>4. /\ Head(sent) = "proxyinit"
      /\ Tail(sent) = rest \/ Tail(sent) = <<"-i", "1">> \o rest
  BY <1>1, <1>3, NumberedLine
<1>5. /\ rest \in Seq(S) /\ Len(rest) = IF ssl THEN 8 ELSE 6
      /\ rest[1] = "-m" /\ rest[2] = "1" /\ rest[3] = "-k" /\ rest[4] = k
      /\ rest[5] = "-p" /\ rest[6] = port /\ (ssl => rest[7] = "-s" /\ rest[8] = "1")
  <2>1. /\ rest \in Seq(S) /\ Len(rest) = Len(line) - 1
        /\ \A i \in 1..Len(rest) : rest[i] = line[i + 1]
    <3>1. line \in Seq(S) /\ line # <<>> /\ Len(line) \in Nat
      BY <1>1
    <3>2. Tail(line) \in Seq(S) /\ Len(Tail(line)) = Len(line) - 1
      BY <3>1, HeadTailProperties
    <3>3. \A i \in 1..Len(Tail(line)) : Tail(line)[i] = line[i + 1]
      BY <3>1, HeadTailProperties
    <3> QED BY <3>2, <3>3
  <2> HIDE DEF rest
  <2> QED BY <1>1, <2>1
<1> HIDE DEF sent, rest
<1>6. n \in Nat /\ n = Len(rest) \div 2 /\ n \in {3, 4}
  BY <1>5
<1>7. LastIn(rest, "-k", n, 2) /\ LastIn(rest, "-p", n, 3)
  BY <1>5 DEF LastIn
<1>8. (ssl => LastIn(rest, "-s", n, 4)) /\ (~ ssl => NotIn(rest, "-s", n))
  BY <1>5 DEF LastIn, NotIn
<1>9. /\ Value(rest, "-k", Blank) = k /\ Value(rest, "-p", "9003") = port
      /\ Value(rest, "-s", "0") = IF ssl THEN "1" ELSE "0"
  <2> HIDE DEF n
  <2>1. \A flag, default : /\ NotIn(rest, flag, n) => Value(rest, flag, default) = default
                           /\ \A i : LastIn(rest, flag, n, i) =>
                                Value(rest, flag, default) = rest[2 * i]
    BY <1>6, ValueLast, Zenon
  <2>2. Value(rest, "-k", Blank) = rest[2 * 2] /\ Value(rest, "-p", "9003") = rest[2 * 3]
    BY <1>7, <2>1, Zenon
  <2>3. /\ ssl => Value(rest, "-s", "0") = rest[2 * 4]
        /\ ~ ssl => Value(rest, "-s", "0") = "0"
    BY <1>8, <2>1, Zenon
  <2> QED BY <1>5, <2>2, <2>3
<1>10. WellFormed(rest, {"-k", "-p", "-m", "-s"})
  <2>1. /\ DOMAIN Pairs(rest) = 1..n
        /\ \A i \in 1..n : Pairs(rest)[i].flag = rest[2 * i - 1]
                           /\ Pairs(rest)[i].value = rest[2 * i]
    BY <1>6 DEF Pairs
  <2>2. \A i \in 1..n : /\ rest[2 * i - 1] \in {"-k", "-p", "-m", "-s"}
                        /\ rest[2 * i - 1] \in {"-p", "-s"} => rest[2 * i] \in Numerals
    BY <1>5, NumeralsAssumption
  <2>3. Len(rest) % 2 = 0
    BY <1>5
  <2> HIDE DEF n
  <2> QED BY <2>1, <2>2, <2>3 DEF WellFormed
<1>11. /\ WellFormed(Tail(sent), {"-k", "-p", "-m", "-s"})
       /\ Value(Tail(sent), "-k", Blank) = k /\ Value(Tail(sent), "-p", "9003") = port
       /\ Value(Tail(sent), "-s", "0") = IF ssl THEN "1" ELSE "0"
  <2>1. CASE Tail(sent) = rest
    BY <1>9, <1>10, <2>1
  <2>2. CASE Tail(sent) = <<"-i", "1">> \o rest
    <3>1. /\ \A flag, default : flag # "-i" =>
               Value(Tail(sent), flag, default) = Value(rest, flag, default)
          /\ \A flags : WellFormed(rest, flags) => WellFormed(Tail(sent), flags)
      BY <1>5, <2>2, TransactionIdHarmless
    <3>2. "-k" # "-i" /\ "-p" # "-i" /\ "-s" # "-i"
      OBVIOUS
    <3> QED BY <1>9, <1>10, <3>1, <3>2, Zenon
  <2> QED BY <1>4, <2>1, <2>2
<1>12. ParseLine(sent) = Parsed("proxyinit", Tail(sent), {"-k", "-p", "-m", "-s"}, "-k")
  BY <1>4 DEF ParseLine, CreateProxyInit
<1>13. k # Blank
  OBVIOUS
<1>14. /\ ParseLine(sent).ok /\ ParseLine(sent).name = "proxyinit" /\ ParseLine(sent).key = k
       /\ ParseLine(sent).port = port
       /\ ParseLine(sent).ssl = ((IF ssl THEN "1" ELSE "0") = "1")
  <2> DEFINE ok == WellFormed(Tail(sent), {"-k", "-p", "-m", "-s"})
                     /\ Value(Tail(sent), "-k", Blank) # Blank
  <2> DEFINE isSSL == Value(Tail(sent), "-s", "0") = "1"
  <2>1. ParseLine(sent) = [ok |-> ok, name |-> "proxyinit",
                           key |-> Value(Tail(sent), "-k", Blank),
                           port |-> Value(Tail(sent), "-p", "9003"), ssl |-> isSSL]
    BY <1>12 DEF Parsed
  <2>2. ok
    BY <1>11, <1>13
  <2>3. isSSL = ((IF ssl THEN "1" ELSE "0") = "1")
    BY <1>11
  <2> HIDE DEF ok, isSSL
  <2>4. /\ ParseLine(sent).ok = ok /\ ParseLine(sent).name = "proxyinit"
        /\ ParseLine(sent).key = Value(Tail(sent), "-k", Blank)
        /\ ParseLine(sent).port = Value(Tail(sent), "-p", "9003")
        /\ ParseLine(sent).ssl = isSSL
    BY <2>1
  <2> QED
    BY <1>11, <2>2, <2>3, <2>4, Zenon
<1>15. ((IF ssl THEN "1" ELSE "0") = "1") = ssl
  OBVIOUS
<1> QED
  BY <1>14, <1>15 DEF sent, line

\* So is any key to unregister (unregisterWithProxy, CreateProxyStop).
LEMMA UnregisterUnderstood ==
  ASSUME NEW S, NEW k \in S, {"proxystop", "-i", "1", "-k"} \subseteq S, Blank \notin S
  PROVE  LET parsed == ParseLine(ProcessLine(UnregisterLine(<<k>>), "1"))
         IN parsed.ok /\ parsed.name = "proxystop" /\ parsed.key = k
<1> DEFINE front == <<"proxystop", "-k">>
<1> DEFINE line == UnregisterLine(<<k>>)
<1> DEFINE rest == Tail(line)
<1> DEFINE sent == ProcessLine(line, "1")
<1>1. /\ line \in Seq(S) /\ Len(line) = 3
      /\ line[1] = "proxystop" /\ line[2] = "-k" /\ line[3] = k
  <2>1. front \in Seq(S) /\ <<k>> \in Seq(S)
    OBVIOUS
  <2>2. Len(front) = 2 /\ Len(<<k>>) = 1 /\ <<k>>[1] = k
        /\ front[1] = "proxystop" /\ front[2] = "-k"
    OBVIOUS
  <2>3. line = front \o <<k>>
    BY DEF UnregisterLine
  <2> HIDE DEF front, line
  <2>4. /\ front \o <<k>> \in Seq(S) /\ Len(front \o <<k>>) = Len(front) + Len(<<k>>)
        /\ \A i \in 1..(Len(front) + Len(<<k>>)) :
             (front \o <<k>>)[i] = IF i <= Len(front) THEN front[i] ELSE <<k>>[i - Len(front)]
    BY <2>1, ConcatProperties
  <2> QED BY <2>2, <2>3, <2>4
<1> HIDE DEF line
<1>2. Trimmed(line) = line
  <2>1. \A i \in 1..Len(line) : line[i] # Blank
    BY <1>1, ElementOfSeq
  <2>2. Len(line) > 0 /\ line[1] # Blank
    BY <1>1, <2>1
  <2> QED BY <1>1, <2>1, <2>2, TrimmedLine
<1>3. sent = InjectIIfNeeded(line, "1") /\ Len(line) > 0
  BY <1>1, <1>2 DEF ProcessLine
<1>4. /\ Head(sent) = "proxystop"
      /\ Tail(sent) = rest \/ Tail(sent) = <<"-i", "1">> \o rest
  BY <1>1, <1>3, NumberedLine
<1>5. rest \in Seq(S) /\ Len(rest) = 2 /\ rest[1] = "-k" /\ rest[2] = k
  <2>1. line \in Seq(S) /\ line # <<>> /\ Len(line) \in Nat
    BY <1>1
  <2>2. Tail(line) \in Seq(S) /\ Len(Tail(line)) = Len(line) - 1
    BY <2>1, HeadTailProperties
  <2>3. \A i \in 1..Len(Tail(line)) : Tail(line)[i] = line[i + 1]
    BY <2>1, HeadTailProperties
  <2> HIDE DEF rest
  <2>4. rest \in Seq(S) /\ Len(rest) = 2 /\ \A i \in 1..2 : rest[i] = line[i + 1]
    BY <1>1, <2>2, <2>3 DEF rest
  <2> QED BY <1>1, <2>4
<1> HIDE DEF sent, rest
<1>6. 1 \in Nat /\ 1 = Len(rest) \div 2
  BY <1>5
<1>7. LastIn(rest, "-k", 1, 1)
  BY <1>5 DEF LastIn
<1>8. Value(rest, "-k", Blank) = k
  <2>1. Value(rest, "-k", Blank) = rest[2 * 1]
    BY <1>6, <1>7, ValueLast, Zenon
  <2> QED BY <1>5, <2>1
<1>9. WellFormed(rest, {"-k"})
  BY <1>5 DEF WellFormed, Pairs
<1>10. WellFormed(Tail(sent), {"-k"}) /\ Value(Tail(sent), "-k", Blank) = k
  <2>1. CASE Tail(sent) = rest
    BY <1>8, <1>9, <2>1
  <2>2. CASE Tail(sent) = <<"-i", "1">> \o rest
    <3>1. /\ \A flag, default : flag # "-i" =>
               Value(Tail(sent), flag, default) = Value(rest, flag, default)
          /\ \A flags : WellFormed(rest, flags) => WellFormed(Tail(sent), flags)
      BY <1>5, <2>2, TransactionIdHarmless
    <3>2. "-k" # "-i"
      OBVIOUS
    <3> QED BY <1>8, <1>9, <3>1, <3>2, Zenon
  <2> QED BY <1>4, <2>1, <2>2
<1>11. ParseLine(sent) = Parsed("proxystop", Tail(sent), {"-k"}, "-k")
  BY <1>4 DEF ParseLine, CreateProxyStop
<1>12. k # Blank
  OBVIOUS
<1>13. ParseLine(sent).ok /\ ParseLine(sent).name = "proxystop" /\ ParseLine(sent).key = k
  <2> DEFINE ok == WellFormed(Tail(sent), {"-k"}) /\ Value(Tail(sent), "-k", Blank) # Blank
  <2> DEFINE isSSL == Value(Tail(sent), "-s", "0") = "1"
  <2>1. ParseLine(sent) = [ok |-> ok, name |-> "proxystop",
                           key |-> Value(Tail(sent), "-k", Blank),
                           port |-> Value(Tail(sent), "-p", "9003"), ssl |-> isSSL]
    BY <1>11 DEF Parsed
  <2>2. ok
    BY <1>10, <1>12
  <2> HIDE DEF ok, isSSL
  <2>3. /\ ParseLine(sent).ok = ok /\ ParseLine(sent).name = "proxystop"
        /\ ParseLine(sent).key = Value(Tail(sent), "-k", Blank)
    BY <2>1
  <2> QED
    BY <1>10, <2>2, <2>3, Zenon
<1> QED
  BY <1>13 DEF sent, line

-----------------------------------------------------------------------------
\* The tokens that the two commands bring along.
CommandTokens == {"proxyinit", "proxystop", "-i", "-m", "1", "-k", "-p", "-s"}

\* Whatever the key is, spaces and all, what is sent is made of the tokens of the
\* command and of the key, and begins with the name of the command.
LEMMA LineTypes ==
  ASSUME NEW S, NEW key \in Seq(S), NEW port \in S, NEW ssl \in BOOLEAN,
         CommandTokens \subseteq S, Blank \notin CommandTokens
  PROVE  /\ ProcessLine(RegisterLine(key, port, ssl), "1") \in Seq(S)
         /\ Len(ProcessLine(RegisterLine(key, port, ssl), "1")) > 0
         /\ Head(ProcessLine(RegisterLine(key, port, ssl), "1")) = "proxyinit"
         /\ ProcessLine(UnregisterLine(key), "1") \in Seq(S)
         /\ Len(ProcessLine(UnregisterLine(key), "1")) > 0
         /\ Head(ProcessLine(UnregisterLine(key), "1")) = "proxystop"
<1> USE DEF CommandTokens
<1>1. ASSUME NEW front \in Seq(S), NEW rest \in Seq(S), NEW line, Len(front) > 0, front[1] # Blank,
             line = front \o rest
      PROVE  line \in Seq(S) /\ Len(line) > 0 /\ line[1] = front[1]
  <2>1. /\ front \o rest \in Seq(S) /\ Len(front \o rest) = Len(front) + Len(rest)
        /\ \A i \in 1..(Len(front) + Len(rest)) :
             (front \o rest)[i] = IF i <= Len(front) THEN front[i] ELSE rest[i - Len(front)]
    BY ConcatProperties
  <2>2. Len(front) \in Nat /\ Len(rest) \in Nat
    OBVIOUS
  <2> QED BY <1>1, <2>1, <2>2
<1>2. ASSUME NEW line \in Seq(S), Len(line) > 0, line[1] # Blank
      PROVE  /\ ProcessLine(line, "1") \in Seq(S) /\ Len(ProcessLine(line, "1")) > 0
             /\ Head(ProcessLine(line, "1")) = line[1]
  <2>1. /\ Trimmed(line) \in Seq(S) /\ Len(Trimmed(line)) > 0 /\ Trimmed(line)[1] = line[1]
    BY <1>2, TrimmedLine
  <2>2. /\ InjectIIfNeeded(Trimmed(line), "1") \in Seq(S)
        /\ Len(InjectIIfNeeded(Trimmed(line), "1")) > 0
        /\ Head(InjectIIfNeeded(Trimmed(line), "1")) = Trimmed(line)[1]
    BY <2>1, NumberedLine
  <2> QED BY <2>1, <2>2 DEF ProcessLine
<1>3. /\ RegisterLine(key, port, ssl) \in Seq(S) /\ Len(RegisterLine(key, port, ssl)) > 0
      /\ RegisterLine(key, port, ssl)[1] = "proxyinit"
  <2> DEFINE a == <<"proxyinit", "-m", "1", "-k">>
  <2> DEFINE c == <<"-p", port>>
  <2> DEFINE d == IF ssl THEN <<"-s", "1">> ELSE <<>>
  <2>1. a \in Seq(S) /\ Len(a) > 0 /\ a[1] = "proxyinit" /\ c \in Seq(S) /\ d \in Seq(S)
    OBVIOUS
  <2>2. RegisterLine(key, port, ssl) = ((a \o key) \o c) \o d
    BY DEF RegisterLine
  <2> HIDE DEF a, c, d
  <2>3. a \o key \in Seq(S) /\ Len(a \o key) > 0 /\ (a \o key)[1] = "proxyinit"
    BY <1>1, <2>1
  <2>4. /\ (a \o key) \o c \in Seq(S) /\ Len((a \o key) \o c) > 0
        /\ ((a \o key) \o c)[1] = "proxyinit"
    BY <1>1, <2>1, <2>3
  <2> QED BY <1>1, <2>1, <2>2, <2>4
<1>4. /\ UnregisterLine(key) \in Seq(S) /\ Len(UnregisterLine(key)) > 0
      /\ UnregisterLine(key)[1] = "proxystop"
  <2>1. LET a == <<"proxystop", "-k">> IN a \in Seq(S) /\ Len(a) > 0 /\ a[1] = "proxystop"
    OBVIOUS
  <2> QED BY <1>1, <2>1 DEF UnregisterLine
<1> QED
  BY <1>2, <1>3, <1>4

\* A command that is understood has the name of its line, and one of its tokens
\* that is not empty for a key.
LEMMA ParsedTypes ==
  ASSUME NEW S, NEW parts \in Seq(S), Len(parts) > 0, Blank \in S, ParseLine(parts).ok
  PROVE  ParseLine(parts).name = Head(parts) /\ ParseLine(parts).key \in S \ {Blank}
<1>1. Tail(parts) \in Seq(S)
  <2>1. parts # <<>>
    OBVIOUS
  <2> QED BY <2>1, HeadTailProperties
<1>2. Value(Tail(parts), "-k", Blank) \in S
  BY <1>1, ValueTypes
<1>3. ASSUME NEW name, NEW flags, ParseLine(parts) = Parsed(name, Tail(parts), flags, "-k")
      PROVE  ParseLine(parts).name = name /\ ParseLine(parts).key \in S \ {Blank}
  <2>1. Parsed(name, Tail(parts), flags, "-k").ok =>
          Value(Tail(parts), "-k", Blank) # Blank
    BY DEF Parsed
  <2>2. /\ Parsed(name, Tail(parts), flags, "-k").name = name
        /\ Parsed(name, Tail(parts), flags, "-k").key = Value(Tail(parts), "-k", Blank)
    BY DEF Parsed
  <2> QED BY <1>2, <1>3, <2>1, <2>2
<1>4. CASE Head(parts) = "proxyinit"
  BY <1>3, <1>4 DEF ParseLine, CreateProxyInit
<1>5. CASE Head(parts) = "proxystop"
  BY <1>3, <1>5 DEF ParseLine, CreateProxyStop
<1>6. CASE Head(parts) \notin {"proxyinit", "proxystop"}
  BY <1>6 DEF ParseLine, NotUnderstood
<1> QED
  BY <1>4, <1>5, <1>6

=============================================================================
