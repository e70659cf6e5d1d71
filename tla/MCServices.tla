----------------------------- MODULE MCServices -----------------------------
(* Small instances of Services for TLC.                                    *)
EXTENDS Services, TLC

CONSTANTS w1, w2, w3, cola, chips, k1, k2

MCItemOf    == 11 :> cola @@ 12 :> chips
MCInitPrice == cola :> 1 @@ chips :> 2
MCInitQty   == 11 :> 1 @@ 12 :> 0
MCInitLog   == cola :> 1 @@ chips :> 0

\* A well-formed request of user u (0 in an admin's), with the fields that its
\* operation does not use at a fixed value.
Plain(op, u) == [op |-> op, role |-> IF u = 0 THEN "admin" ELSE "user",
                 user |-> u, ok |-> TRUE, n |-> 0,
                 slot |-> Absent, item |-> Absent, key |-> k1]

Buy(u, s)     == [Plain("purchase", u) EXCEPT !.slot = s]
Pay(u, a)     == [Plain("deposit", u) EXCEPT !.n = a]
Back(u)       == Plain("reset", u)
See(u)        == Plain("balance", u)
Fill(s, q)    == [Plain("restock", 0) EXCEPT !.slot = s, !.n = q]
Label(i, p)   == [Plain("price", 0) EXCEPT !.item = i, !.n = p]
Who(f)        == [Plain("lookup", 1) EXCEPT !.role = "none", !.key = f]

\* Money: two customers and an admin around one bottle of cola.
MoneyRequests ==
  {Buy(1, 11), Buy(1, Absent), Buy(2, 11), Pay(1, 2), Pay(2, 1), Back(1),
   See(1), Label(cola, 2), Label(cola, 0)}

\* Goods and accounts: restocking, an empty slot, a slot that does not exist;
\* keys, users without a key, an admin's own account 0.
StoreRequests ==
  {Pay(1, 2), Buy(1, 11), Buy(1, 12), Fill(12, 1), Fill(11, 2), Fill(Absent, 1),
   Label(Absent, 1), Who(k1), Who(k2), Pay(3, 1), Pay(0, 1)}

\* Requests that a handler or a service turns away before any SQL.
RefusedRequests ==
  {[Buy(1, 11) EXCEPT !.role = "none"], [Pay(1, 1) EXCEPT !.ok = FALSE],
   [Fill(11, 1) EXCEPT !.role = "user"], Label(cola, 0)}

\* One of each kind that writes.
MixedRequests ==
  RefusedRequests \cup
  {Pay(1, 1), Buy(1, 11), Back(1), Fill(11, 1), Label(cola, 2), Who(k1)}

\* Workers are interchangeable in every action and property.
Symmetry == Permutations(Workers)
=============================================================================
