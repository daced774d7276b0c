----------------------------- MODULE PacketChannel -----------------------------
(***************************************************************************)
(* What a connection promises those who read packets from it: the packets  *)
(* come out one by one, in the order in which they were sent and none left *)
(* out, until it breaks; it ends only when every packet is out.            *)
(***************************************************************************)
EXTENDS Naturals, Sequences

CONSTANT MaxPackets  \* bound: packets sent

VARIABLES
  sent,      \* whole packets sent
  received,  \* the packets handed over, by number
  status     \* "reading", "failed" or, in good order, "eof"

vars == <<sent, received, status>>

Init ==
  /\ sent = 0
  /\ received = <<>>
  /\ status = "reading"

Send ==
  /\ sent' \in (sent + 1)..MaxPackets
  /\ UNCHANGED <<received, status>>

Receive ==
  /\ status = "reading"
  /\ Len(received) < sent
  /\ received' = Append(received, Len(received) + 1)
  /\ UNCHANGED <<sent, status>>

Fail ==
  /\ status = "reading"
  /\ status' = "failed"
  /\ UNCHANGED <<sent, received>>

End ==
  /\ status = "reading"
  /\ Len(received) = sent
  /\ status' = "eof"
  /\ UNCHANGED <<sent, received>>

Next == Send \/ Receive \/ Fail \/ End

Spec == Init /\ [][Next]_vars

=============================================================================
