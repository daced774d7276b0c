----------------------------- MODULE MCDbgpProxy -----------------------------
(* Instances of DbgpProxy for TLC. *)
EXTENDS DbgpProxy, TLC

CONSTANTS e1, e2, k1, k2

\* Every engine has the same key, so the handlers meet in one registration.
SameKey == [e \in Engines |-> k1]

\* Engines are interchangeable when they have the same key.
Symmetry == Permutations(Engines)

=============================================================================
