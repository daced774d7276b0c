---------------------------- MODULE MCCloudRegistry ----------------------------
(* Instances of CloudRegistry for TLC. *)
EXTENDS CloudRegistry, TLC

CONSTANTS l1, l2, l3, s1, s2

=============================================================================
