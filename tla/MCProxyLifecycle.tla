-------------------------- MODULE MCProxyLifecycle --------------------------
(* Instances of ProxyLifecycle for TLC. *)
EXTENDS ProxyLifecycle, TLC

CONSTANTS server, clients, clients_ssl, x1, i1, cloud1

=============================================================================
