------------------------------ MODULE Machine ------------------------------
(***************************************************************************)
(* What the server promises about its database: the committed image `m'    *)
(* changes only by whole operations, each of which moves money or goods    *)
(* together with the row that records the move.                            *)
(***************************************************************************)
EXTENDS Tables

VARIABLE m

\* The operation's result, whatever happened to the prices meanwhile: an
\* admin may set any price at any time, also while an operation is under way.
Becomes(d) == \E q \in [Items -> Amounts] : m' = [d EXCEPT !.price = q]

Purchase(u, s, p) ==
  /\ u \in m.exists /\ m.balance[u] >= p /\ m.qty[s] > 0
  /\ Becomes(LogStock(LogCash(Dispense(Debit(m, u, p), s), u, -p), s, -1))

Deposit(u, a) == Becomes(LogCash(Credit(m, u, a), u, a))

Refund(u) ==
  /\ u \in m.exists /\ m.balance[u] > 0
  /\ Becomes(LogCash(Zero(m, u), u, -m.balance[u]))

Restock(s, q) == Becomes(LogStock(Refill(m, s, q), s, q))

Lookup(f) == m.seq + 1 \in UserIds /\ Becomes(Upsert(m, f))

Reprice == Becomes(m)

Next ==
  \/ \E u \in UserIds, s \in Slots, p \in Amounts : Purchase(u, s, p)
  \/ \E u \in UserIds, a \in Amounts : Deposit(u, a)
  \/ \E u \in UserIds : Refund(u)
  \/ \E s \in Slots, q \in Amounts : Restock(s, q)
  \/ \E f \in Fingerprints : Lookup(f)
  \/ Reprice

Init == m = Seed

Spec == Init /\ [][Next]_m
=============================================================================
