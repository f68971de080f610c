------------------------------ MODULE MCService ------------------------------
(* Two servers with the hook of "a" first, and two requests.  Draining is     *)
(* shorter than the time for shutdown, or longer.                             *)
EXTENDS Service

Servers2 == {"a", "b"}
Requests2 == {1, 2}
InOrder == <<"a", "b">>

Setup(a, b, second, draining, taken, reconnect) ==
  [kind |-> [s \in Servers2 |-> IF s = "a" THEN a ELSE b],
   to |-> [r \in Requests2 |-> IF r = 1 THEN "a" ELSE second],
   draining |-> draining, taken |-> taken, reconnect |-> reconnect]

\* In the last two some port is in use.
Configs ==
  {Setup("chi", "gateway", "b", 3, {}, {1}), Setup("chi", "grpc", "a", 3, {}, {}),
   Setup("gorilla", "grpc", "b", 1, {}, {1}),
   Setup("chi", "gorilla", "a", 1, {"b"}, {1, 2}), Setup("grpc", "chi", "b", 1, {"a"}, {})}
=============================================================================
