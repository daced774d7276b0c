------------------------------ MODULE DbgpReader ------------------------------
(***************************************************************************)
(* How packets are cut out of the byte stream of an engine                 *)
(* (readResponse, ReadResponseWithTimeout in lib/protocol/dbgp-client.go). *)
(* A packet is a length, a NUL, the data and a NUL; the length is read     *)
(* over, so everything hangs on knowing whether the next NUL ends a length *)
(* or the data.  A call has one deadline for both; the loops of the proxy  *)
(* and of dbgpClient call again when it expires in the length.             *)
(*                                                                         *)
(* Bytes are counted in parts: packet i has part 4i-3 for the digits, 4i-2 *)
(* and 4i for the NULs and 4i-1 for the XML.  Parts may arrive one by one  *)
(* or many at a time; where exactly a part is cut makes no difference.     *)
(***************************************************************************)
EXTENDS Naturals, Sequences

CONSTANT MaxPackets  \* bound: packets the engine sends

ASSUME PacketsAssumption == MaxPackets \in Nat

VARIABLES
  lockStep,  \* the engine sends nothing while a packet of it is unread
  sent,      \* last part the engine has sent
  closed,    \* the engine has closed the connection
  fetched,   \* last part in the buffer of the bufio.Reader
  consumed,  \* last part taken out of that buffer
  stage,     \* "idle" between two calls, else what ReadBytes is reading
  expired,   \* the deadline of the call has passed
  returned,  \* what the calls have returned: the first and the last part of each
  status     \* "reading", or how the last call failed

vars == <<lockStep, sent, closed, fetched, consumed, stage, expired, returned, status>>
peerVars == <<lockStep, sent, closed>>

Init ==
  /\ lockStep \in BOOLEAN
  /\ sent = 0
  /\ closed = FALSE
  /\ fetched = 0
  /\ consumed = 0
  /\ stage = "idle"
  /\ expired = FALSE
  /\ returned = <<>>
  /\ status = "reading"

\* The NULs are the even parts.
NextNUL == IF consumed % 2 = 0 THEN consumed + 2 ELSE consumed + 1

\* Variant of HasNUL that is content with any bytes.
HasBytes == consumed < fetched

\* ReadBytes can return from the buffer.
HasNUL == NextNUL <= fetched

-----------------------------------------------------------------------------
(* The engine.                                                             *)

PeerSends ==
  /\ ~ closed
  /\ \E p \in (sent + 1)..(4 * MaxPackets) :
       /\ lockStep => p <= 4 * (Len(returned) + 1)
       /\ sent' = p
  /\ UNCHANGED <<lockStep, closed, fetched, consumed, stage, expired, returned, status>>

PeerCloses ==
  /\ ~ closed
  /\ closed' = TRUE
  /\ UNCHANGED <<lockStep, sent, fetched, consumed, stage, expired, returned, status>>

-----------------------------------------------------------------------------
(* The reader.                                                             *)

\* ReadResponseWithTimeout sets the deadline and calls readResponse.
Call ==
  /\ status = "reading"
  /\ stage = "idle"
  /\ stage' = "length"
  /\ expired' = FALSE
  /\ UNCHANGED <<peerVars, fetched, consumed, returned, status>>

\* ReadBytes finds no NUL in the buffer and reads from the socket.
Fetch ==
  /\ stage # "idle"
  /\ status = "reading"
  /\ ~ HasNUL
  /\ ~ expired
  /\ \E p \in (fetched + 1)..sent : fetched' = p
  /\ UNCHANGED <<peerVars, consumed, stage, expired, returned, status>>

\* The first ReadBytes returns, and what it read is dropped.
TakeLength ==
  /\ stage = "length"
  /\ HasNUL
  /\ consumed' = NextNUL
  /\ stage' = "data"
  /\ UNCHANGED <<peerVars, fetched, expired, returned, status>>

\* The second ReadBytes returns, and with it readResponse.
TakeData ==
  /\ stage = "data"
  /\ status = "reading"
  /\ HasNUL
  /\ returned' = Append(returned, [from |-> consumed + 1, to |-> NextNUL])
  /\ consumed' = NextNUL
  /\ stage' = "idle"
  /\ UNCHANGED <<peerVars, fetched, expired, status>>

\* Two seconds, or one, have passed.
Expire ==
  /\ stage # "idle"
  /\ status = "reading"
  /\ expired' = TRUE
  /\ UNCHANGED <<peerVars, fetched, consumed, stage, returned, status>>

\* Variant of TimeOutInLength that takes a timeout for the end of the stream.
TimeOutInLengthEnds ==
  /\ stage = "length"
  /\ expired
  /\ ~ HasNUL
  /\ status' = "eof"
  /\ UNCHANGED <<peerVars, fetched, consumed, stage, expired, returned>>

\* The first ReadBytes times out: what it has gathered is lost, the call reports
\* a timeout and the caller tries again.
TimeOutInLength ==
  /\ stage = "length"
  /\ expired
  /\ ~ HasNUL
  /\ consumed' = fetched
  /\ stage' = "idle"
  /\ UNCHANGED <<peerVars, fetched, expired, returned, status>>

\* Variant of TimeOutInData that reports a timeout as well.
TimeOutInDataRetried ==
  /\ stage = "data"
  /\ expired
  /\ ~ HasNUL
  /\ consumed' = fetched
  /\ stage' = "idle"
  /\ UNCHANGED <<peerVars, fetched, expired, returned, status>>

\* The second ReadBytes times out: an error like any other.
TimeOutInData ==
  /\ stage = "data"
  /\ status = "reading"
  /\ expired
  /\ ~ HasNUL
  /\ status' = "failed"
  /\ UNCHANGED <<peerVars, fetched, consumed, stage, expired, returned>>

\* Variant of EndOfFile that does not look at what is buffered first.
EndOfFileAtOnce ==
  /\ stage # "idle"
  /\ status = "reading"
  /\ closed
  /\ status' = "eof"
  /\ UNCHANGED <<peerVars, fetched, consumed, stage, expired, returned>>

\* Either ReadBytes meets the end of the stream; errors.Is(err, io.EOF).
EndOfFile ==
  /\ stage # "idle"
  /\ status = "reading"
  /\ ~ HasNUL
  /\ ~ expired
  /\ closed
  /\ fetched = sent
  /\ status' = "eof"
  /\ UNCHANGED <<peerVars, fetched, consumed, stage, expired, returned>>

\* NewDbgpClient on the same connection, as for each session: the old buffer is
\* gone.  Only an engine in lock-step leaves nothing in it (Framed needs that;
\* DbgpProxy shows what happens when Cloud sends ahead).
NewReader ==
  /\ lockStep
  /\ stage = "idle"
  /\ consumed' = fetched
  /\ UNCHANGED <<peerVars, fetched, stage, expired, returned, status>>

-----------------------------------------------------------------------------
Next ==
  \/ PeerSends \/ PeerCloses
  \/ Call \/ Fetch \/ TakeLength \/ TakeData
  \/ Expire \/ TimeOutInLength \/ TimeOutInData \/ EndOfFile \/ NewReader

Spec == Init /\ [][Next]_vars

\* The caller calls again, the reader takes what it has, and the deadline does
\* not always come before bytes that are already there.
FairSpec ==
  /\ Spec
  /\ WF_vars(Call \/ TakeLength \/ TakeData \/ TimeOutInLength \/ TimeOutInData)
  /\ SF_vars(Fetch)

-----------------------------------------------------------------------------
\* Every variable has its type.
TypeOK ==
  /\ lockStep \in BOOLEAN
  /\ sent \in 0..(4 * MaxPackets)
  /\ closed \in BOOLEAN
  /\ fetched \in 0..sent
  /\ consumed \in 0..fetched
  /\ stage \in {"idle", "length", "data"}
  /\ expired \in BOOLEAN
  /\ returned \in Seq([from : Nat, to : Nat])
  /\ status \in {"reading", "failed", "eof"}

\* What is returned is the data of the first packet, then of the second, and so
\* on: no length is taken for data and no packet is lost, doubled or cut, however
\* the bytes arrive, wherever deadlines expire, and if the engine is in lock-step
\* whenever the reader is replaced (readResponse, NewDbgpClient).
Framed ==
  \A i \in 1..Len(returned) : returned[i] = [from |-> 4 * i - 1, to |-> 4 * i]

\* The packet that was returned, 0 if it is none of those sent.
Packet(r) == IF r.to = r.from + 1 /\ r.to % 4 = 0 THEN r.to \div 4 ELSE 0

Channel == INSTANCE PacketChannel WITH
  sent <- sent \div 4,
  received <- [i \in 1..Len(returned) |-> Packet(returned[i])]

\* The reader implements the channel that the rest of the code takes it for:
\* packets in order and none left out, nothing after an error, and an end of file
\* that is not reported before everything was returned (ReadResponseWithTimeout).
ImplementsChannel == Channel!Spec

\* A packet that was sent is returned, unless reading has failed: a retry after
\* a timeout in the length loses nothing.
Delivered ==
  \A i \in 1..MaxPackets :
    sent >= 4 * i ~> (Len(returned) >= i \/ status = "failed")

=============================================================================
