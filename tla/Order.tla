-------------------------------- MODULE Order --------------------------------
(***************************************************************************)
(* ORDER BY slot_id, which the SELECT of products_list ends with.          *)
(***************************************************************************)
EXTENDS Integers, FiniteSets

\* How many members of S come up to s: the place of s among them.
Rank(S, s) == Cardinality({t \in S : t <= s})

\* The finite set S as the sequence of its members in ascending order.
OrderBy(S) == [k \in 1..Cardinality(S) |-> CHOOSE s \in S : Rank(S, s) = k]
=============================================================================
