--------------------------- MODULE MCRegistration ---------------------------
(* Instances of Registration for TLC. *)
EXTENDS Registration, TLC

CONSTANTS c1, c2, c3

Asked(register, unregister, port, ssl) ==
  [register : register, unregister : unregister, port : {port}, ssl : {ssl}]

\* Three IDEs that contend for a key that looks like a flag: one registers with
\* it or another key, and may unregister at once; one registers or unregisters;
\* and one registers with it, or unregisters a key with a space in it.
Contended ==
  c1 :> Asked({<<"-i">>, <<"A">>}, {<<>>, <<"-i">>}, "1", TRUE)
    @@ c2 :> (Asked({<<"-i">>}, {<<>>}, "1", FALSE)
                \cup Asked({<<>>}, {<<"-i">>}, "1", FALSE))
    @@ c3 :> (Asked({<<"-i">>}, {<<>>}, "9003", TRUE)
                \cup Asked({<<>>}, {<<"A", "A">>}, "9003", TRUE))

\* Two IDEs with one key.
OneKey == [c \in {c1, c2} |-> Asked({<<"A">>}, {<<>>}, "1", FALSE)]

AllKeys == {"A", "proxyinit", "proxystop", "-i", "-k", "-m", "-p", "-s", "1", "9003"}

=============================================================================
