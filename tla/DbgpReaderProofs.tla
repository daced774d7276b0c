--------------------------- MODULE DbgpReaderProofs ---------------------------
(***************************************************************************)
(* Packets are framed for any number of packets: the reader always knows   *)
(* whether the next NUL ends a length or the data.                         *)
(***************************************************************************)
EXTENDS DbgpReader, TLAPS

\* Where the reader is in the stream, by what it has returned: it is reading
\* the length of the next packet, of which it may have dropped the digits, or it
\* has read that length and nothing more.  An engine in lock-step is at most one
\* packet ahead, of which an idle reader has no more than the digits.
Positioned ==
  LET start == 4 * Len(returned)
  IN /\ stage \in {"idle", "length"} => consumed \in {start, start + 1}
     /\ stage = "data" => consumed = start + 2
     /\ lockStep => sent <= start + 4
     /\ (lockStep /\ stage = "idle") => fetched <= start + 1

IInv == TypeOK /\ Positioned /\ Framed

-----------------------------------------------------------------------------
\* The next NUL of a reader that has taken a whole number of packets, or the
\* digits that follow, ends a length; after a length it ends the data.
LEMMA NextNULPosition ==
  ASSUME NEW n \in Nat, consumed \in Nat
  PROVE  /\ consumed \in {4 * n, 4 * n + 1} => NextNUL = 4 * n + 2
         /\ consumed = 4 * n + 2 => NextNUL = 4 * n + 4
<1>1. CASE consumed = 4 * n
  BY <1>1 DEF NextNUL
<1>2. CASE consumed = 4 * n + 1
  BY <1>2 DEF NextNUL
<1>3. CASE consumed = 4 * n + 2
  BY <1>3 DEF NextNUL
<1> QED
  BY <1>1, <1>2, <1>3

\* Nothing has been sent, read or returned.
LEMMA InitPositioned == Init => IInv
<1> SUFFICES ASSUME Init
             PROVE  IInv
  OBVIOUS
<1>1. TypeOK
  <2>1. sent \in 0..(4 * MaxPackets)
    BY PacketsAssumption DEF Init
  <2>2. returned \in Seq([from : Nat, to : Nat])
    BY DEF Init
  <2>3. fetched \in 0..sent /\ consumed \in 0..fetched
    BY DEF Init
  <2>4. stage \in {"idle", "length", "data"} /\ status \in {"reading", "failed", "eof"}
    BY DEF Init
  <2>5. lockStep \in BOOLEAN /\ closed \in BOOLEAN /\ expired \in BOOLEAN
    BY DEF Init
  <2> QED
    BY <2>1, <2>2, <2>3, <2>4, <2>5 DEF TypeOK
<1>2. Len(returned) = 0
  BY DEF Init
<1>3. Positioned
  BY <1>2 DEF Init, Positioned
<1>4. Framed
  BY <1>2 DEF Framed
<1> QED
  BY <1>1, <1>3, <1>4 DEF IInv

\* A step that returns no packet keeps what was framed.
LEMMA StillFramed ==
  ASSUME Framed, UNCHANGED returned
  PROVE  Framed'
BY DEF Framed

\* Every step of the engine and of the reader keeps the reader positioned.
LEMMA NextPositioned == IInv /\ [Next]_vars => IInv'
<1> SUFFICES ASSUME IInv, [Next]_vars
             PROVE  IInv'
  OBVIOUS
<1> DEFINE n == Len(returned)
<1>t. TypeOK /\ Positioned /\ Framed
  BY DEF IInv
<1>n. n \in Nat
  BY <1>t DEF TypeOK
<1>p. /\ consumed \in {4 * n, 4 * n + 1} => NextNUL = 4 * n + 2
      /\ consumed = 4 * n + 2 => NextNUL = 4 * n + 4
  BY <1>n, <1>t, NextNULPosition DEF TypeOK
<1>k. SUFFICES /\ TypeOK'
               /\ Positioned'
               /\ Framed'
  BY DEF IInv
<1>1. CASE PeerSends
  <2>1. UNCHANGED returned
    BY <1>1 DEF PeerSends, peerVars
  <2>2. TypeOK'
    BY <1>1, <1>t, PacketsAssumption DEF PeerSends, peerVars, TypeOK
  <2>3. Positioned'
    BY <1>1, <1>t, <1>n, <2>1 DEF PeerSends, peerVars, TypeOK, Positioned
  <2> QED
    BY <2>1, <2>2, <2>3, <1>t, StillFramed
<1>2. CASE PeerCloses
  <2>1. UNCHANGED returned
    BY <1>2 DEF PeerCloses, peerVars
  <2>2. TypeOK'
    BY <1>2, <1>t DEF PeerCloses, peerVars, TypeOK
  <2>3. Positioned'
    BY <1>2, <1>t, <1>n, <2>1 DEF PeerCloses, peerVars, TypeOK, Positioned
  <2> QED
    BY <2>1, <2>2, <2>3, <1>t, StillFramed
<1>3. CASE Call
  <2>1. UNCHANGED returned
    BY <1>3 DEF Call, peerVars
  <2>2. TypeOK'
    BY <1>3, <1>t DEF Call, peerVars, TypeOK
  <2>3. Positioned'
    BY <1>3, <1>t, <1>n, <2>1 DEF Call, peerVars, TypeOK, Positioned
  <2> QED
    BY <2>1, <2>2, <2>3, <1>t, StillFramed
<1>4. CASE Fetch
  <2>1. UNCHANGED returned
    BY <1>4 DEF Fetch, peerVars
  <2>2. TypeOK'
    BY <1>4, <1>t DEF Fetch, peerVars, TypeOK
  <2>3. Positioned'
    BY <1>4, <1>t, <1>n, <2>1 DEF Fetch, peerVars, TypeOK, Positioned
  <2> QED
    BY <2>1, <2>2, <2>3, <1>t, StillFramed
<1>5. CASE TakeLength
  <2>1. UNCHANGED <<lockStep, sent, closed, fetched, expired, returned, status>>
    BY <1>5 DEF TakeLength, peerVars
  <2>2. consumed' = 4 * n + 2 /\ consumed' <= fetched /\ stage' = "data"
    BY <1>5, <1>p, <1>t DEF TakeLength, HasNUL, Positioned
  <2>3. TypeOK'
    BY <2>1, <2>2, <1>n, <1>t DEF TypeOK
  <2>4. Positioned'
    BY <2>1, <2>2, <1>n, <1>t DEF Positioned
  <2> QED
    BY <2>1, <2>3, <2>4, <1>t, StillFramed
<1>6. CASE TakeData
  <2>1. consumed = 4 * n + 2 /\ NextNUL = 4 * n + 4
    BY <1>6, <1>p, <1>t DEF TakeData, Positioned
  <2>2. /\ returned' = Append(returned, [from |-> 4 * n + 3, to |-> 4 * n + 4])
        /\ consumed' = 4 * n + 4
        /\ 4 * n + 4 <= fetched
        /\ stage' = "idle"
        /\ UNCHANGED <<lockStep, sent, closed, fetched, expired, status>>
    BY <1>6, <1>n, <2>1 DEF TakeData, HasNUL, peerVars
  <2>3. Len(returned') = n + 1
    BY <2>2, <1>t DEF TypeOK
  <2>4. TypeOK'
    BY <2>2, <1>n, <1>t DEF TypeOK
  <2>5. Positioned'
    BY <2>2, <2>3, <1>n, <1>t DEF Positioned, TypeOK
  <2>6. Framed'
    <3> SUFFICES ASSUME NEW i \in 1..(n + 1)
                 PROVE  returned'[i] = [from |-> 4 * i - 1, to |-> 4 * i]
      BY <2>3 DEF Framed
    <3>1. CASE i = n + 1
      BY <3>1, <2>2, <1>n, <1>t DEF TypeOK
    <3>2. CASE i \in 1..n
      <4>1. returned'[i] = returned[i]
        BY <3>2, <2>2, <1>t DEF TypeOK
      <4> QED
        BY <3>2, <4>1, <1>t DEF Framed
    <3> QED
      BY <3>1, <3>2, <1>n
  <2> QED
    BY <2>4, <2>5, <2>6
<1>7. CASE Expire
  <2>1. UNCHANGED returned
    BY <1>7 DEF Expire, peerVars
  <2>2. TypeOK'
    BY <1>7, <1>t DEF Expire, peerVars, TypeOK
  <2>3. Positioned'
    BY <1>7, <1>t, <1>n, <2>1 DEF Expire, peerVars, TypeOK, Positioned
  <2> QED
    BY <2>1, <2>2, <2>3, <1>t, StillFramed
<1>8. CASE TimeOutInLength
  <2>1. UNCHANGED returned
    BY <1>8 DEF TimeOutInLength, peerVars
  <2>2. TypeOK'
    BY <1>8, <1>t, <1>p DEF TimeOutInLength, HasNUL, peerVars, TypeOK
  <2>3. Positioned'
    BY <1>8, <1>t, <1>n, <2>1, <1>p DEF TimeOutInLength, HasNUL, peerVars, TypeOK, Positioned
  <2> QED
    BY <2>1, <2>2, <2>3, <1>t, StillFramed
<1>9. CASE TimeOutInData
  <2>1. UNCHANGED returned
    BY <1>9 DEF TimeOutInData, peerVars
  <2>2. TypeOK'
    BY <1>9, <1>t DEF TimeOutInData, peerVars, TypeOK
  <2>3. Positioned'
    BY <1>9, <1>t, <1>n, <2>1 DEF TimeOutInData, peerVars, TypeOK, Positioned
  <2> QED
    BY <2>1, <2>2, <2>3, <1>t, StillFramed
<1>10. CASE EndOfFile
  <2>1. UNCHANGED returned
    BY <1>10 DEF EndOfFile, peerVars
  <2>2. TypeOK'
    BY <1>10, <1>t DEF EndOfFile, peerVars, TypeOK
  <2>3. Positioned'
    BY <1>10, <1>t, <1>n, <2>1 DEF EndOfFile, peerVars, TypeOK, Positioned
  <2> QED
    BY <2>1, <2>2, <2>3, <1>t, StillFramed
<1>11. CASE NewReader
  <2>1. UNCHANGED returned
    BY <1>11 DEF NewReader, peerVars
  <2>2. TypeOK'
    BY <1>11, <1>t DEF NewReader, peerVars, TypeOK
  <2>3. Positioned'
    BY <1>11, <1>t, <1>n, <2>1 DEF NewReader, peerVars, TypeOK, Positioned
  <2> QED
    BY <2>1, <2>2, <2>3, <1>t, StillFramed
<1>12. CASE UNCHANGED vars
  BY <1>12, <1>t DEF vars, TypeOK, Positioned, Framed
<1> QED
  BY <1>1, <1>2, <1>3, <1>4, <1>5, <1>6, <1>7, <1>8, <1>9, <1>10, <1>11, <1>12
     DEF Next

\* For any number of packets the variables keep their types and what readResponse
\* returns is the data of the packets, whole, in order and without a gap.
THEOREM PacketsAreFramed == Spec => [](TypeOK /\ Framed)
<1>1. Init => IInv
  BY InitPositioned
<1>2. IInv /\ [Next]_vars => IInv'
  BY NextPositioned
<1>3. IInv => TypeOK /\ Framed
  BY DEF IInv
<1> QED
  BY <1>1, <1>2, <1>3, PTL DEF Spec

\* The types and the framing by themselves.
THEOREM TypesAreRight == Spec => []TypeOK
<1>1. Spec => [](TypeOK /\ Framed)
  BY PacketsAreFramed
<1> QED
  BY <1>1, PTL

-----------------------------------------------------------------------------
(* The reader implements the channel.                                      *)

\* What was handed over, by number: the expression that Channel puts for received.
Received == [i \in 1..Len(returned) |-> Packet(returned[i])]

\* Further parts complete no packet, or some that are still to come.
LEMMA FurtherPackets ==
  ASSUME NEW a \in Nat, NEW b \in Nat, NEW m \in Nat, a < b, b <= 4 * m
  PROVE  b \div 4 = a \div 4 \/ b \div 4 \in (a \div 4 + 1)..m
<1>1. PICK q \in Nat : q = a \div 4
  OBVIOUS
<1>2. PICK r \in Nat : r = b \div 4
  OBVIOUS
<1>3. 4 * q <= a /\ a < 4 * q + 4
  BY <1>1
<1>4. 4 * r <= b /\ b < 4 * r + 4
  BY <1>2
<1>5. r = q \/ r \in (q + 1)..m
  BY <1>3, <1>4
<1> QED
  BY <1>1, <1>2, <1>5

\* The data of packet i is recognised as packet i.
LEMMA PacketNumber ==
  ASSUME NEW i \in Nat
  PROVE  Packet([from |-> 4 * i - 1, to |-> 4 * i]) = i
BY DEF Packet

\* What was framed is numbered from 1 on.
LEMMA ReceivedInOrder ==
  ASSUME TypeOK, Framed
  PROVE  Received = [i \in 1..Len(returned) |-> i]
<1>1. ASSUME NEW i \in 1..Len(returned)
      PROVE  Packet(returned[i]) = i
  <2>1. returned[i] = [from |-> 4 * i - 1, to |-> 4 * i] /\ i \in Nat
    BY DEF Framed
  <2> QED
    BY <2>1, PacketNumber
<1> QED
  BY <1>1 DEF Received

\* A step that returns nothing leaves what was received as it is.
LEMMA StillReceived ==
  ASSUME UNCHANGED returned
  PROVE  UNCHANGED Received
BY DEF Received

\* Every step of the reader is a step of the channel, or none.
LEMMA StepOfChannel ==
  ASSUME IInv, [Next]_vars, IInv'
  PROVE  [Channel!Next]_<<sent \div 4, Received, status>>
<1> DEFINE n == Len(returned)
<1>t. TypeOK /\ Positioned /\ Framed /\ TypeOK' /\ Framed'
  BY DEF IInv
<1>n. n \in Nat /\ sent \in Nat
  BY <1>t DEF TypeOK
<1>p. /\ consumed \in {4 * n, 4 * n + 1} => NextNUL = 4 * n + 2
      /\ consumed = 4 * n + 2 => NextNUL = 4 * n + 4
  BY <1>n, <1>t, NextNULPosition DEF TypeOK
<1>r. Received = [i \in 1..n |-> i]
  BY <1>t, ReceivedInOrder
<1>l. Received \in Seq(Nat) /\ Len(Received) = n
  BY <1>r, <1>n
<1>1. CASE PeerSends
  <2>1. UNCHANGED <<Received, status>>
    BY <1>1, StillReceived DEF PeerSends
  <2>2. sent < sent' /\ sent' \in 0..(4 * MaxPackets)
    BY <1>1, <1>n, PacketsAssumption DEF PeerSends
  <2>3. sent' \div 4 = sent \div 4 \/ sent' \div 4 \in (sent \div 4 + 1)..MaxPackets
    <3>1. sent' \in Nat /\ sent' <= 4 * MaxPackets
      BY <2>2, PacketsAssumption
    <3> QED
      BY <3>1, <2>2, <1>n, FurtherPackets, PacketsAssumption
  <2> QED
    BY <2>1, <2>3 DEF Channel!Next, Channel!Send, Received, Channel!vars
<1>2. CASE TakeData
  <2>1. /\ UNCHANGED <<sent, status>>
        /\ status = "reading"
        /\ Len(returned') = n + 1
        /\ NextNUL = 4 * n + 4
        /\ 4 * n + 4 <= sent
    BY <1>2, <1>p, <1>t DEF TakeData, HasNUL, peerVars, Positioned, TypeOK
  <2>2. Received' = [i \in 1..(n + 1) |-> i]
    <3>1. ASSUME NEW i \in 1..(n + 1)
          PROVE  Packet(returned'[i]) = i
      <4>1. returned'[i] = [from |-> 4 * i - 1, to |-> 4 * i] /\ i \in Nat
        BY <2>1, <1>t DEF Framed
      <4> QED
        BY <4>1, PacketNumber
    <3> QED
      BY <3>1, <2>1 DEF Received
  <2>3. Received' = Append(Received, Len(Received) + 1)
    BY <2>2, <1>r, <1>l, <1>n
  <2>4. n < sent \div 4
    BY <2>1, <1>n
  <2>5. UNCHANGED <<sent \div 4, status>>
    BY <2>1
  <2> QED
    BY <2>3, <2>4, <2>1, <2>5, <1>l DEF Channel!Next, Channel!Receive, Received
<1>3. CASE TimeOutInData
  <2>1. UNCHANGED <<sent, Received>> /\ status = "reading" /\ status' = "failed"
    BY <1>3, StillReceived DEF TimeOutInData, peerVars
  <2> QED
    BY <2>1 DEF Channel!Next, Channel!Fail, Received
<1>4. CASE EndOfFile
  <2>1. UNCHANGED <<sent, Received>> /\ status = "reading" /\ status' = "eof"
    BY <1>4, StillReceived DEF EndOfFile, peerVars
  <2>2. 4 * n <= sent /\ sent < 4 * n + 4
    BY <1>4, <1>p, <1>t, <1>n DEF EndOfFile, HasNUL, Positioned, TypeOK
  <2>3. n = sent \div 4
    BY <2>2, <1>n
  <2> QED
    BY <2>1, <2>3, <1>l DEF Channel!Next, Channel!End, Received
<1>5. CASE \/ PeerCloses \/ Call \/ Fetch \/ TakeLength
           \/ Expire \/ TimeOutInLength \/ NewReader
  <2>1. UNCHANGED <<sent, returned, status>>
    BY <1>5 DEF PeerCloses, Call, Fetch, TakeLength, Expire, TimeOutInLength,
                NewReader, peerVars
  <2> QED
    BY <2>1, StillReceived
<1>6. CASE UNCHANGED vars
  BY <1>6, StillReceived DEF vars
<1> QED
  BY <1>1, <1>2, <1>3, <1>4, <1>5, <1>6 DEF Next

\* For any number of packets the reader implements the channel.
THEOREM ReaderImplementsChannel == Spec => ImplementsChannel
<1>1. Init => IInv
  BY InitPositioned
<1>2. IInv /\ [Next]_vars => IInv'
  BY NextPositioned
<1>3. Init => Channel!Init
  BY DEF Init, Channel!Init
<1>4. IInv /\ IInv' /\ [Next]_vars => [Channel!Next]_Channel!vars
  BY StepOfChannel DEF Channel!vars, Received
<1> QED
  BY <1>1, <1>2, <1>3, <1>4, PTL DEF Spec, Channel!Spec, ImplementsChannel

-----------------------------------------------------------------------------
(* What Delivered hangs on.  That a packet is delivered in the end rests on *)
(* fairness; that it can be, in every state and after every retry, does not. *)

\* The engine has sent all of a packet that the caller has not got yet.
PacketWaits == status = "reading" /\ sent >= 4 * (Len(returned) + 1)

\* The caller or the reader can take a step that is not to report an error.
ReaderCanStep == stage = "idle" \/ HasNUL \/ expired \/ fetched < sent

\* A packet that was sent whole is within reach of the reader: the NUL it is
\* looking for is among the bytes sent, so that it never waits for the engine to
\* send more, and the end of the stream is not what it meets (readResponse).
NoPacketIsOutOfReach == PacketWaits => NextNUL <= sent /\ ReaderCanStep

\* After a timeout in the length, which throws away what was read of it, and in a
\* new reader, which throws away the buffer of the old one, the reader looks for
\* the NUL it was looking for before (ReadResponseWithTimeout, NewDbgpClient).
AimKept == TimeOutInLength \/ NewReader => NextNUL' = NextNUL

\* The positions of IInv put the next NUL in the first packet not returned.
LEMMA WithinReach == IInv => NoPacketIsOutOfReach
<1> SUFFICES ASSUME IInv, PacketWaits
             PROVE  NextNUL <= sent /\ ReaderCanStep
  BY DEF NoPacketIsOutOfReach
<1> DEFINE n == Len(returned)
<1>1. TypeOK /\ Positioned
  BY DEF IInv
<1>2. n \in Nat /\ consumed \in Nat /\ fetched \in Nat /\ sent \in Nat
  BY <1>1, PacketsAssumption DEF TypeOK
<1>3. NextNUL = 4 * n + 2 \/ NextNUL = 4 * n + 4
  <2>1. consumed \in {4 * n, 4 * n + 1} \/ consumed = 4 * n + 2
    BY <1>1 DEF TypeOK, Positioned
  <2> QED
    BY <2>1, <1>2, NextNULPosition
<1>4. NextNUL <= sent
  BY <1>2, <1>3 DEF PacketWaits
<1>5. ReaderCanStep
  BY <1>2, <1>3, <1>4 DEF ReaderCanStep, HasNUL
<1> QED
  BY <1>4, <1>5

\* What is thrown away is at most the digits of one length.
LEMMA DropsOnlyDigits == IInv /\ [Next]_vars => [AimKept]_vars
<1> SUFFICES ASSUME IInv, TimeOutInLength \/ NewReader
             PROVE  NextNUL' = NextNUL
  BY DEF AimKept
<1> DEFINE n == Len(returned)
<1>1. TypeOK /\ Positioned
  BY DEF IInv
<1>2. n \in Nat /\ consumed \in Nat /\ fetched \in Nat /\ consumed <= fetched
  BY <1>1, PacketsAssumption DEF TypeOK
<1>3. consumed \in {4 * n, 4 * n + 1}
  BY <1>1 DEF Positioned, TimeOutInLength, NewReader
<1>4. NextNUL = 4 * n + 2
  BY <1>2, <1>3, NextNULPosition
<1>5. consumed' = fetched
  BY DEF TimeOutInLength, NewReader
<1>6. fetched \in {4 * n, 4 * n + 1}
  <2>1. CASE TimeOutInLength
    BY <2>1, <1>2, <1>3, <1>4 DEF TimeOutInLength, HasNUL
  <2>2. CASE NewReader
    BY <2>2, <1>1, <1>2, <1>3 DEF NewReader, Positioned
  <2> QED
    BY <2>1, <2>2
<1>7. CASE fetched = 4 * n
  BY <1>7, <1>2, <1>4, <1>5 DEF NextNUL
<1>8. CASE fetched = 4 * n + 1
  BY <1>8, <1>2, <1>4, <1>5 DEF NextNUL
<1> QED
  BY <1>6, <1>7, <1>8

\* For any number of packets, a packet that was sent can be read, whatever the
\* deadlines have done to the calls before.
THEOREM PacketsCanBeRead == Spec => []NoPacketIsOutOfReach
<1>1. Init => IInv
  BY InitPositioned
<1>2. IInv /\ [Next]_vars => IInv'
  BY NextPositioned
<1>3. IInv => NoPacketIsOutOfReach
  BY WithinReach
<1> QED
  BY <1>1, <1>2, <1>3, PTL DEF Spec

\* For any number of packets, neither a retry nor a new reader loses its place.
THEOREM RetriesKeepTheirPlace == Spec => [][AimKept]_vars
<1>1. Init => IInv
  BY InitPositioned
<1>2. IInv /\ [Next]_vars => IInv'
  BY NextPositioned
<1>3. IInv /\ [Next]_vars => [AimKept]_vars
  BY DropsOnlyDigits
<1> QED
  BY <1>1, <1>2, <1>3, PTL DEF Spec

=============================================================================
