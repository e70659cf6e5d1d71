------------------------------- MODULE Tables -------------------------------
(***************************************************************************)
(* The database of the vending machine: the tables of init.sql and the SQL *)
(* statements of server/src/services and server/src/db, as functions from  *)
(* one image of the database to the next.                                  *)
(*                                                                         *)
(* An image is a record of the tables, reduced to what the statements read *)
(* and write:                                                              *)
(*   exists   the user_ids that have a row in users                        *)
(*   balance  users.balance                                                *)
(*   owner    the user_id of the row with this fingerprint, or NoUser      *)
(*   seq      sqlite_sequence of users (the last id AUTOINCREMENT drew)    *)
(*   price    items.price                                                  *)
(*   qty      stock.quantity                                               *)
(*   ledger   SUM(total_amount) of a user's rows in transactions           *)
(*   slog     SUM(quantity_changed) of an item's rows in stock_logs        *)
(***************************************************************************)
EXTENDS Integers, Order

CONSTANTS
  UserIds,       \* possible values of users.user_id (a bound: 64 bits in the code)
  Fingerprints,  \* fingerprints of SSH keys
  NoUser,        \* owner of a fingerprint that no row has
  Items, Slots,  \* items.item_id and stock.slot_id of the seeded rows
  ItemOf,        \* stock.item_id
  Amounts,       \* positive sums, prices and quantities (1..INT_MAX in the code)
  InitPrice, InitQty, InitLog  \* what init.sql inserts

ASSUME TablesAssumption ==
  /\ UserIds \subseteq Int /\ NoUser \notin UserIds
  /\ Amounts \subseteq Nat \ {0}
  /\ ItemOf \in [Slots -> Items]
  /\ \A s, t \in Slots : ItemOf[s] = ItemOf[t] => s = t
  /\ InitPrice \in [Items -> Amounts] /\ InitQty \in [Slots -> Nat]
  /\ InitLog \in [Items -> Nat]
  /\ \A s \in Slots : InitLog[ItemOf[s]] = InitQty[s]

Image == [exists  : SUBSET UserIds,
          balance : [UserIds -> Nat],
          owner   : [Fingerprints -> UserIds \cup {NoUser}],
          seq     : Nat,
          price   : [Items -> Amounts],
          qty     : [Slots -> Nat],
          ledger  : [UserIds -> Int],
          slog    : [Items -> Int]]

\* The image that init.sql leaves.
Seed == [exists  |-> {},
         balance |-> [u \in UserIds |-> 0],
         owner   |-> [f \in Fingerprints |-> NoUser],
         seq     |-> 0,
         price   |-> InitPrice,
         qty     |-> InitQty,
         ledger  |-> [u \in UserIds |-> 0],
         slog    |-> InitLog]

-----------------------------------------------------------------------------
\* A row for u, inserted with its id given.
AddUser(d, u) ==
  [d EXCEPT !.exists = @ \cup {u}, !.seq = IF u > @ THEN u ELSE @]

Debit(d, u, p)    == [d EXCEPT !.balance[u] = @ - p]
Credit(d, u, a)   == [AddUser(d, u) EXCEPT !.balance[u] = @ + a]
Zero(d, u)        == [d EXCEPT !.balance[u] = 0]
Dispense(d, s)    == [d EXCEPT !.qty[s] = @ - 1]
Refill(d, s, q)   == [d EXCEPT !.qty[s] = @ + q]
LogCash(d, u, a)  == [d EXCEPT !.ledger[u] = @ + a]
LogStock(d, s, q) == [d EXCEPT !.slog[ItemOf[s]] = @ + q]
SetPrice(d, i, p) == [d EXCEPT !.price[i] = p]

\* Mutant: INSERT OR REPLACE, which gives a known key a new row.
Replace(d, f) == [AddUser(d, d.seq + 1) EXCEPT !.owner[f] = d.seq + 1]

\* INSERT .. ON CONFLICT(fingerprint) .. RETURNING user_id.  The conflict is
\* found after AUTOINCREMENT drew an id, so a known key uses one up too.
Upsert(d, f) ==
  IF d.owner[f] = NoUser
    THEN [AddUser(d, d.seq + 1) EXCEPT !.owner[f] = d.seq + 1]
    ELSE [d EXCEPT !.seq = @ + 1]
=============================================================================
