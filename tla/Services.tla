------------------------------ MODULE Services ------------------------------
(***************************************************************************)
(* The request handlers (server/src/api/router/handlers) and the services  *)
(* they call (server/src/services), run by the workers of the pool over    *)
(* ONE sqlite3 connection.  SQLite serializes the calls on the connection, *)
(* so one action is one SQL call; the transaction, however, belongs to the *)
(* connection and not to the worker that opened it: any worker's statement *)
(* runs inside it, a second BEGIN fails, and any ROLLBACK ends it.         *)
(***************************************************************************)
EXTENDS Tables

CONSTANTS
  Workers,
  Requests,     \* the requests clients may send
  Absent,       \* a slot_id or item_id that has no row
  INT_MAX,      \* largest C int
  Faults,       \* what SQLite may do to a call: see Fault and UndoFails
  MaxRequests,  \* bound: requests handled in a behaviour
  MaxCrashes    \* bound: crashes in a behaviour

\* A parsed request.  `ok' is FALSE when the handler's sscanf of the body or
\* of the path fails; n = 0 stands for every n <= 0; auth_parse leaves user_id
\* 0 in an admin's request.
Request ==
  [op   : {"purchase", "deposit", "reset", "balance", "restock", "price", "lookup"},
   role : {"none", "user", "admin"},
   user : UserIds, ok : BOOLEAN, n : Amounts \cup {0},
   slot : Slots \cup {Absent}, item : Items \cup {Absent}, key : Fingerprints]

ASSUME ServicesAssumption ==
  /\ Requests \subseteq Request /\ Requests # {}
  /\ Absent \notin Slots \cup Items
  /\ INT_MAX \in Nat /\ Amounts \subseteq 1..INT_MAX
  /\ Faults \subseteq {"error", "rollback", "undo"}
  /\ MaxRequests \in Nat /\ MaxCrashes \in Nat

VARIABLES
  db,         \* the image the connection sees, uncommitted changes included
  disk,       \* the committed image
  txn,        \* a transaction is open on the connection
  pc,         \* the next call of each worker
  req,        \* the request a worker handles
  price,      \* local `price' of orders_purchase
  val,        \* local `balance' or `user_id': the int a service has read
  status,     \* the HTTP status a worker will answer
  served, crashes,  \* counters for the bounds
  truncated,  \* history: some int read from a column lost its high bits
  posted      \* history: the price of each item last acknowledged to an admin

locals == <<req, price, val, status>>
bounds == <<served, crashes>>
vars   == <<db, disk, txn, pc, locals, bounds, truncated, posted>>

\* The calls made inside a transaction.  "undo" is the ROLLBACK of every
\* failure path.
InTxn == {"item", "funds", "debit", "dispense", "sale", "stocklog", "upsert",
          "select", "zero", "cash", "restock", "identify", "commit", "undo"}
PC == InTxn \cup {"idle", "begin", "price", "balance", "reply"}

TypeOK ==
  /\ db \in Image /\ disk \in Image
  /\ txn \in BOOLEAN
  /\ pc \in [Workers -> PC]
  /\ req \in [Workers -> Request]
  /\ price \in [Workers -> Amounts \cup {0}]
  /\ val \in [Workers -> Int]
  /\ status \in [Workers -> {200, 400, 401, 403, 404, 500}]
  /\ served \in 0..MaxRequests /\ crashes \in 0..MaxCrashes
  /\ truncated \in BOOLEAN
  /\ posted \in [Items -> Amounts]

\* sqlite3_column_int: the low 32 bits of the column, as a signed int.
ToInt(x) ==
  LET half == INT_MAX + 1 IN
  IF x \in -half..INT_MAX THEN x ELSE ((x + half) % (2 * half)) - half

\* -x of an int: the negation of INT_MIN wraps to itself.
Neg(x) == IF x = -INT_MAX - 1 THEN x ELSE -x

\* The locals of a worker between two requests.
NoRequest == CHOOSE r \in Requests : TRUE

Init ==
  /\ db = Seed /\ disk = Seed /\ txn = FALSE
  /\ pc = [w \in Workers |-> "idle"]
  /\ req = [w \in Workers |-> NoRequest]
  /\ price = [w \in Workers |-> 0]
  /\ val = [w \in Workers |-> 0]
  /\ status = [w \in Workers |-> 200]
  /\ served = 0 /\ crashes = 0
  /\ truncated = FALSE
  /\ posted = InitPrice
-----------------------------------------------------------------------------
(* The handlers: what they refuse before any SQL, and what they answer.    *)

\* The status with which a handler, or the service it calls, turns r away
\* before any SQL; 200 when it goes on.
handle_post_purchase(r) ==
  IF r.role = "none" THEN 401 ELSE IF ~r.ok THEN 400 ELSE 200

handle_get_balance(r) == IF r.role = "none" THEN 401 ELSE 200

handle_delete_balance(r) == IF r.role = "none" THEN 401 ELSE 200

handle_post_deposit(r) ==
  IF r.role = "none" THEN 401 ELSE IF ~r.ok THEN 400 ELSE IF r.n <= 0 THEN 500 ELSE 200

handle_post_restock(r) ==
  IF r.role # "admin" THEN 403 ELSE IF ~r.ok THEN 400 ELSE IF r.n <= 0 THEN 500 ELSE 200

\* Mutant: product_update_price takes any price; items.price has no CHECK.
handle_post_any_price(r) ==
  IF r.role # "admin" THEN 403 ELSE IF ~r.ok THEN 400 ELSE 200

handle_post_update_price(r) ==
  IF r.role # "admin" THEN 403 ELSE IF ~r.ok THEN 400 ELSE IF r.n <= 0 THEN 500 ELSE 200

handle_lookup_user(r) == IF ~r.ok THEN 400 ELSE 200

Admission(r) ==
  CASE r.op = "purchase" -> handle_post_purchase(r)
    [] r.op = "deposit"  -> handle_post_deposit(r)
    [] r.op = "reset"    -> handle_delete_balance(r)
    [] r.op = "balance"  -> handle_get_balance(r)
    [] r.op = "restock"  -> handle_post_restock(r)
    [] r.op = "price"    -> handle_post_update_price(r)
    [] r.op = "lookup"   -> handle_lookup_user(r)

\* Mutant: balance_reset reads and writes without BEGIN.
EntryResetBare(r) ==
  IF r.op \in {"price", "balance"} THEN r.op
  ELSE IF r.op = "reset" THEN "select" ELSE "begin"

\* The first call of an operation.
Entry(r) == IF r.op \in {"price", "balance"} THEN r.op ELSE "begin"

Handle(w, r) ==
  /\ pc[w] = "idle" /\ served < MaxRequests
  /\ served' = served + 1
  /\ req' = [req EXCEPT ![w] = r]
  /\ status' = [status EXCEPT ![w] = Admission(r)]
  /\ pc' = [pc EXCEPT ![w] = IF Admission(r) = 200 THEN Entry(r) ELSE "reply"]
  /\ UNCHANGED <<db, disk, txn, price, val, crashes, truncated, posted>>

\* The answer is sent and the worker returns to the pool.
Reply(w) ==
  /\ pc[w] = "reply"
  /\ pc' = [pc EXCEPT ![w] = "idle"]
  /\ req' = [req EXCEPT ![w] = NoRequest]
  /\ price' = [price EXCEPT ![w] = 0]
  /\ val' = [val EXCEPT ![w] = 0]
  /\ status' = [status EXCEPT ![w] = 200]
  /\ UNCHANGED <<db, disk, txn, bounds, truncated, posted>>

-----------------------------------------------------------------------------
(* One SQL call on the shared connection.                                  *)

\* A statement's changes are committed with it when no transaction is open.
Write(d) == db' = d /\ disk' = IF txn THEN disk ELSE d

\* The worker's control moves to l; code is the status it will answer.
Goto(w, l, code) ==
  /\ pc' = [pc EXCEPT ![w] = l]
  /\ status' = [status EXCEPT ![w] = code]

\* An UPDATE or INSERT at `at': it changes the image to d, or fails.
Statement(w, at, ok, d, next) ==
  /\ pc[w] = at
  /\ IF ok THEN Write(d) /\ Goto(w, next, 200)
           ELSE UNCHANGED <<db, disk>> /\ Goto(w, "undo", 500)
  /\ UNCHANGED <<txn, req, price, val, bounds, truncated, posted>>

\* A column read into val[w].
ReadInt(w, x) ==
  /\ val' = [val EXCEPT ![w] = ToInt(x)]
  /\ truncated' = (truncated \/ ToInt(x) # x)

\* BEGIN IMMEDIATE: an error when the connection is inside a transaction.
FirstCall == [purchase |-> "item", deposit |-> "upsert", reset |-> "select",
              restock |-> "restock", lookup |-> "identify"]

\* Mutant: the result of BEGIN is not looked at.
BeginUnchecked(w) ==
  /\ pc[w] = "begin"
  /\ txn' = TRUE
  /\ Goto(w, FirstCall[req[w].op], 200)
  /\ UNCHANGED <<db, disk, req, price, val, bounds, truncated, posted>>

Begin(w) ==
  /\ pc[w] = "begin"
  /\ txn' = TRUE
  /\ IF txn THEN Goto(w, "reply", 500) ELSE Goto(w, FirstCall[req[w].op], 200)
  /\ UNCHANGED <<db, disk, req, price, val, bounds, truncated, posted>>

\* Mutant: a failed COMMIT is tried again.
CommitRetried(w) ==
  /\ pc[w] = "commit"
  /\ txn' = FALSE
  /\ IF txn THEN disk' = db /\ Goto(w, "reply", 200)
            ELSE disk' = disk /\ Goto(w, "commit", 200)
  /\ UNCHANGED <<db, req, price, val, bounds, truncated, posted>>

\* COMMIT: an error when there is no transaction.
Commit(w) ==
  /\ pc[w] = "commit"
  /\ txn' = FALSE
  /\ IF txn THEN disk' = db /\ Goto(w, "reply", 200)
            ELSE disk' = disk /\ Goto(w, "undo", 500)
  /\ UNCHANGED <<db, req, price, val, bounds, truncated, posted>>

\* Mutant: an early return without ROLLBACK.
UndoForgotten(w) ==
  /\ pc[w] = "undo"
  /\ Goto(w, "reply", status[w])
  /\ UNCHANGED <<db, disk, txn, req, price, val, bounds, truncated, posted>>

\* ROLLBACK, whose result the services ignore: without a transaction it does
\* nothing, and it does not ask whose transaction it ends.
Undo(w) ==
  /\ pc[w] = "undo"
  /\ txn' = FALSE
  /\ db' = IF txn THEN disk ELSE db
  /\ Goto(w, "reply", status[w])
  /\ UNCHANGED <<disk, req, price, val, bounds, truncated, posted>>

-----------------------------------------------------------------------------
(* orders_purchase.                                                        *)

\* SELECT item_id, price, quantity: no row, or nothing left, ends it.
SelectItem(w) ==
  LET s == req[w].slot IN
  /\ pc[w] = "item"
  /\ IF s \in Slots
       THEN /\ price' = [price EXCEPT ![w] = db.price[ItemOf[s]]]
            /\ truncated' = (truncated \/ ToInt(db.qty[s]) # db.qty[s])
            /\ IF ToInt(db.qty[s]) <= 0 THEN Goto(w, "undo", 500)
                                        ELSE Goto(w, "funds", 200)
       ELSE Goto(w, "undo", 500) /\ UNCHANGED <<price, truncated>>
  /\ UNCHANGED <<db, disk, txn, req, val, bounds, posted>>

SelectFunds(w) ==
  LET u == req[w].user IN
  /\ pc[w] = "funds"
  /\ IF u \in db.exists
       THEN /\ ReadInt(w, db.balance[u])
            /\ IF val'[w] < price[w] THEN Goto(w, "undo", 500)
                                     ELSE Goto(w, "debit", 200)
       ELSE Goto(w, "undo", 500) /\ UNCHANGED <<val, truncated>>
  /\ UNCHANGED <<db, disk, txn, req, price, bounds, posted>>

\* CHECK (balance >= 0) makes the UPDATE fail.
DebitUser(w) ==
  LET u == req[w].user IN
  Statement(w, "debit", u \notin db.exists \/ db.balance[u] >= price[w],
            IF u \in db.exists THEN Debit(db, u, price[w]) ELSE db, "dispense")

\* CHECK (quantity >= 0) makes the UPDATE fail.
DispenseItem(w) ==
  LET s == req[w].slot IN
  Statement(w, "dispense", db.qty[s] > 0, Dispense(db, s), "sale")

\* The row of transactions: its user_id must exist (FOREIGN KEY).
LogSale(w) ==
  LET u == req[w].user IN
  Statement(w, "sale", u \in db.exists /\ price[w] > 0,
            LogCash(db, u, -price[w]), "stocklog")

\* Mutant: a restock is logged as one piece.
LogOnePiece(w) ==
  LET r == req[w]
      q == IF r.op = "purchase" THEN -1 ELSE 1
  IN Statement(w, "stocklog", r.slot \in Slots,
               LogStock(db, r.slot, q), "commit")

\* Mutant: a sale is logged as an addition.
LogAddition(w) ==
  LET r == req[w]
      q == IF r.op = "purchase" THEN 1 ELSE r.n
  IN Statement(w, "stocklog", r.slot \in Slots,
               LogStock(db, r.slot, q), "commit")

\* db_log_stock_change, called by orders_purchase and product_restock.  Its
\* SELECT of the immutable column item_id is merged with its INSERT.
LogStockChange(w) ==
  LET r == req[w]
      q == IF r.op = "purchase" THEN -1 ELSE r.n
  IN Statement(w, "stocklog", r.slot \in Slots,
               LogStock(db, r.slot, q), "commit")

-----------------------------------------------------------------------------
(* balance_deposit, balance_reset, balance_get.                            *)

UpsertBalance(w) ==
  Statement(w, "upsert", TRUE, Credit(db, req[w].user, req[w].n), "cash")

\* db_log_cash_transaction: its CHECK wants a deposit positive and a
\* withdrawal negative, its FOREIGN KEY wants the user.
LogCashTransaction(w) ==
  LET r == req[w]
      a == IF r.op = "deposit" THEN r.n ELSE Neg(val[w])
  IN Statement(w, "cash",
               r.user \in db.exists /\ IF r.op = "deposit" THEN a > 0 ELSE a < 0,
               LogCash(db, r.user, a), "commit")

\* The SELECT of balance_reset: no user is 404, nothing to refund is success;
\* both end the transaction with ROLLBACK.
SelectBalance(w) ==
  LET u == req[w].user IN
  /\ pc[w] = "select"
  /\ IF u \in db.exists
       THEN /\ ReadInt(w, db.balance[u])
            /\ Goto(w, IF val'[w] = 0 THEN "undo" ELSE "zero", 200)
       ELSE Goto(w, "undo", 404) /\ UNCHANGED <<val, truncated>>
  /\ UNCHANGED <<db, disk, txn, req, price, bounds, posted>>

ZeroBalance(w) == Statement(w, "zero", TRUE, Zero(db, req[w].user), "cash")

\* balance_get, a single SELECT outside any transaction of its own.
GetBalance(w) ==
  LET u == req[w].user IN
  /\ pc[w] = "balance"
  /\ IF u \in db.exists
       THEN ReadInt(w, db.balance[u]) /\ Goto(w, "reply", 200)
       ELSE Goto(w, "reply", 404) /\ UNCHANGED <<val, truncated>>
  /\ UNCHANGED <<db, disk, txn, req, price, bounds, posted>>

-----------------------------------------------------------------------------
(* product_restock, product_update_price, users_lookup.                    *)

\* An UPDATE of a slot that does not exist changes no row and succeeds.
UpdateStock(w) ==
  LET r == req[w] IN
  Statement(w, "restock", TRUE,
            IF r.slot \in Slots THEN Refill(db, r.slot, r.n) ELSE db, "stocklog")

\* The only write outside a transaction of its own.
UpdatePrice(w) ==
  LET r == req[w]
      d == IF r.item \in Items THEN SetPrice(db, r.item, r.n) ELSE db
  IN /\ pc[w] = "price"
     /\ Write(d)
     /\ posted' = IF r.item \in Items THEN [posted EXCEPT ![r.item] = r.n] ELSE posted
     /\ Goto(w, "reply", 200)
     /\ UNCHANGED <<txn, req, price, val, bounds, truncated>>

\* Mutant: SELECT MAX(user_id) in place of RETURNING user_id: a known key is
\* told the account of the newest one.
IdentifyNewest(w) ==
  LET d == Upsert(db, req[w].key)
      u == CHOOSE x \in d.exists : \A y \in d.exists : y <= x
  IN /\ pc[w] = "identify"
     /\ IF db.seq + 1 \in UserIds
          THEN Write(d) /\ ReadInt(w, u) /\ Goto(w, "commit", 200)
          ELSE Goto(w, "undo", 500) /\ UNCHANGED <<db, disk, val, truncated>>
     /\ UNCHANGED <<txn, req, price, bounds, posted>>

\* Mutant: the id is taken from sqlite_sequence, not from the row the upsert
\* returns.
IdentifyBySeq(w) ==
  LET f == req[w].key
      d == Upsert(db, f)
  IN /\ pc[w] = "identify"
     /\ IF db.seq + 1 \in UserIds
          THEN Write(d) /\ ReadInt(w, d.seq) /\ Goto(w, "commit", 200)
          ELSE Goto(w, "undo", 500) /\ UNCHANGED <<db, disk, val, truncated>>
     /\ UNCHANGED <<txn, req, price, bounds, posted>>

\* The upsert of users_lookup and the user_id it returns; it fails when
\* AUTOINCREMENT has run out of ids.
Identify(w) ==
  LET f == req[w].key
      d == Upsert(db, f)
  IN /\ pc[w] = "identify"
     /\ IF db.seq + 1 \in UserIds
          THEN Write(d) /\ ReadInt(w, d.owner[f]) /\ Goto(w, "commit", 200)
          ELSE Goto(w, "undo", 500) /\ UNCHANGED <<db, disk, val, truncated>>
     /\ UNCHANGED <<txn, req, price, bounds, posted>>

-----------------------------------------------------------------------------
(* What can go wrong around the services.                                  *)

\* SQLite rolls the open transaction back on its own, as it may after
\* SQLITE_FULL, SQLITE_IOERR or SQLITE_NOMEM.
RollsBack == "rollback" \in Faults /\ txn /\ db' = disk /\ txn' = FALSE

\* A SQL call other than ROLLBACK fails.  "error": it has no effect
\* (SQLITE_BUSY, SQLITE_NOMEM in prepare, ..).  "rollback": SQLite has also
\* rolled the transaction back.  A service whose BEGIN failed, or that has no
\* transaction, returns; the others ROLLBACK.
Fault(w) ==
  /\ pc[w] \in (InTxn \ {"undo"}) \cup {"begin", "price", "balance"}
  /\ Goto(w, IF pc[w] \in InTxn THEN "undo" ELSE "reply", 500)
  /\ \/ "error" \in Faults /\ UNCHANGED <<db, txn>>
     \/ pc[w] # "begin" /\ RollsBack
  /\ UNCHANGED <<disk, req, price, val, bounds, truncated, posted>>

\* "undo": the ROLLBACK itself fails, in prepare for instance.  The services
\* ignore its result and return with the transaction still open.
UndoFails(w) ==
  /\ "undo" \in Faults /\ pc[w] = "undo"
  /\ Goto(w, "reply", status[w])
  /\ UNCHANGED <<db, disk, txn, req, price, val, bounds, truncated, posted>>

\* The server dies and is started again: what was not committed is gone.
Crash ==
  /\ crashes < MaxCrashes
  /\ crashes' = crashes + 1
  /\ db' = disk /\ txn' = FALSE
  /\ pc' = [w \in Workers |-> "idle"]
  /\ req' = [w \in Workers |-> NoRequest]
  /\ price' = [w \in Workers |-> 0]
  /\ val' = [w \in Workers |-> 0]
  /\ status' = [w \in Workers |-> 200]
  /\ UNCHANGED <<disk, served, truncated, posted>>

-----------------------------------------------------------------------------
\* One SQL call, or the answer, of a worker that handles a request.
Serve(w) ==
  \/ Begin(w) \/ Commit(w) \/ Undo(w) \/ Reply(w)
  \/ SelectItem(w) \/ SelectFunds(w) \/ DebitUser(w) \/ DispenseItem(w)
  \/ LogSale(w) \/ LogStockChange(w)
  \/ UpsertBalance(w) \/ LogCashTransaction(w)
  \/ SelectBalance(w) \/ ZeroBalance(w) \/ GetBalance(w)
  \/ UpdateStock(w) \/ UpdatePrice(w) \/ Identify(w)

Next ==
  \/ \E w \in Workers :
       Serve(w) \/ Fault(w) \/ UndoFails(w) \/ \E r \in Requests : Handle(w, r)
  \/ Crash

Spec == Init /\ [][Next]_vars

-----------------------------------------------------------------------------
(* Properties.                                                             *)

\* The open transaction belongs to exactly the worker between its BEGIN and
\* its COMMIT or ROLLBACK: nobody else is inside one, and none is left open by
\* a worker that has returned (an early return without ROLLBACK would be).  It
\* takes a ROLLBACK that does not fail ("undo" is not among the Faults).
TxnOwned ==
  /\ txn <=> \E w \in Workers : pc[w] \in InTxn
  /\ \A v, w \in Workers : pc[v] \in InTxn /\ pc[w] \in InTxn => v = w

\* Money is conserved: on disk a balance is the sum of the user's recorded
\* transactions, so no deposit, sale or refund was half applied, whatever
\* failed or crashed.  (Of a balance beyond INT_MAX balance_reset refunds only
\* the low 32 bits, hence `truncated'.)
MoneyConserved ==
  ~truncated => \A u \in UserIds : disk.balance[u] = disk.ledger[u]

\* The stock on disk is what the stock log adds up to.
StockConserved == \A s \in Slots : disk.qty[s] = disk.slog[ItemOf[s]]

\* The answer to a lookup is on its way, with the user_id in val[w].
Identified(w) == pc[w] = "reply" /\ req[w].op = "lookup" /\ status[w] = 200

\* An account is never shared: two fingerprints have different users on disk,
\* although deposits of users without a row take ids out of AUTOINCREMENT's
\* hands, and users_lookup never answers two sessions of different keys with the
\* same user_id, however their lookups and the deposits interleave.
OneAccountPerKey ==
  /\ \A f, g \in Fingerprints :
       disk.owner[f] # NoUser /\ disk.owner[f] = disk.owner[g] => f = g
  /\ \A v, w \in Workers :
       Identified(v) /\ Identified(w) /\ ~truncated /\ val[v] = val[w]
         => req[v].key = req[w].key

\* The id that users_lookup answers is the committed owner of the key, and
\* stays so: the TUI acts as that user from then on.
LookupAnswer ==
  \A w \in Workers :
    Identified(w)
      => LET u == disk.owner[req[w].key] IN
         u # NoUser /\ (~truncated => val[w] = u)

\* A key's account never changes, and a key gets one that was nobody's.
AccountForLife ==
  [][\A f \in Fingerprints :
       disk'.owner[f] # disk.owner[f]
         => disk.owner[f] = NoUser /\ disk'.owner[f] \notin disk.exists]_vars

\* A refund is answered with exactly the money it took from the account.
RefundExact ==
  [][\A w \in Workers :
       pc[w] = "commit" /\ pc'[w] = "reply" /\ req[w].op = "reset" /\ ~truncated
         => val[w] = disk.balance[req[w].user]]_vars

\* The committed image changes only by whole operations, in any interleaving
\* of the workers' SQL calls.
M == INSTANCE Machine WITH m <- disk
Atomic == M!Spec

\* The same as long as no int read from a column has lost its high bits.
AtomicBelowIntMax == M!Init /\ [][~truncated => M!Next]_disk

\* A transaction does not stay open, as long as no ROLLBACK fails: after one that
\* does (UndoFails) nobody ends it, and every BEGIN is refused until a restart.
TxnCloses == txn ~> ~txn

-----------------------------------------------------------------------------
(* What the documentation says and the code does not do.                   *)

\* readme.md: every write path is wrapped in a transaction.  Then a price the
\* admin was told is set would be in the database when no transaction is open.
PriceDurable == ~txn => disk.price = posted

\* readme.md: an operation rolls back whole on any failure.  Then, whenever no
\* request is being served, the balances agree with the recorded transactions.
RollsBackWhole ==
  (\A w \in Workers : pc[w] = "idle") /\ ~truncated
    => \A u \in UserIds : disk.balance[u] = disk.ledger[u]
=============================================================================
