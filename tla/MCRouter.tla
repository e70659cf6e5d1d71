------------------------------ MODULE MCRouter ------------------------------
(* Small instances of Router for TLC.                                      *)
EXTENDS Router, SequencesExt

CONSTANTS c1, c2

Ask(m, p) == [method |-> m, path |-> p, internal |-> FALSE]

\* What the TUI (tui/src/api_client.c) and the SSH gate send; an admin's price,
\* which needs a wildcard; requests that no verb, no route or no socket fits; and
\* one with empty parts.
MixedRequests ==
  {Ask("GET", <<"stock">>), Ask("PATCH", <<"stock", "5">>), Ask("DELETE", <<"balance">>),
   Ask("POST", <<"orders">>), Ask("PATCH", <<"items", "5">>),
   [Ask("POST", <<"users", "lookup">>) EXCEPT !.internal = TRUE],
   Ask("GET", <<"stock", "5">>), Ask("PATCH", <<"stock", "5", "6">>),
   Ask("GET", <<"debug">>), Ask("POST", <<"users", "lookup">>),
   Ask("GET", <<"", "stock", "">>)}

MCParts == {"", "5", "6", "stock", "balance", "orders", "items", "users", "lookup", "debug"}
=============================================================================
