------------------------------ MODULE MCXdebugCtl ------------------------------
(* Instances of XdebugCtl for TLC. *)
EXTENDS XdebugCtl, TLC

CONSTANTS p1, p2, p3

=============================================================================
