----------------------------- MODULE MCDbgpClient -----------------------------
(* Instances of DbgpClient for TLC. *)
EXTENDS DbgpClient, TLC

=============================================================================
