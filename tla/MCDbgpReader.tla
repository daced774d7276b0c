----------------------------- MODULE MCDbgpReader -----------------------------
(* Instances of DbgpReader for TLC. *)
EXTENDS DbgpReader, TLC

=============================================================================
