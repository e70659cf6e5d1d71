--------------------------- MODULE ServicesProofs ---------------------------
(***************************************************************************)
(* Proofs about Services.tla for every set of workers, requests, users,    *)
(* keys, items and slots, as long as SQLite does not roll a transaction    *)
(* back on its own ("rollback" is not among the Faults).  All but OneOwner *)
(* hold also when a ROLLBACK fails.                                        *)
(***************************************************************************)
EXTENDS Services, TLAPS

\* d is e with other prices: price updates ride in anybody's transaction.
Repriced(d, e) ==
  /\ d.exists = e.exists /\ d.balance = e.balance /\ d.owner = e.owner
  /\ d.seq = e.seq /\ d.qty = e.qty /\ d.ledger = e.ledger /\ d.slog = e.slog

\* A worker is inside a call of its own operation, with arguments that the
\* handler let through.
ControlAt(w) ==
  LET r == req[w] IN
  /\ pc[w] = "begin" => r.op \in {"purchase", "deposit", "reset", "restock", "lookup"}
  /\ pc[w] \in {"item", "funds", "debit", "dispense", "sale"} => r.op = "purchase"
  /\ pc[w] = "stocklog" => r.op \in {"purchase", "restock"}
  /\ pc[w] = "cash" => r.op \in {"deposit", "reset"}
  /\ pc[w] = "upsert" => r.op = "deposit"
  /\ pc[w] \in {"select", "zero"} => r.op = "reset"
  /\ pc[w] = "restock" => r.op = "restock"
  /\ pc[w] = "price" => r.op = "price"
  /\ pc[w] = "balance" => r.op = "balance"
  /\ pc[w] = "identify" => r.op = "lookup"
  /\ pc[w] = "commit" => r.op \in {"purchase", "deposit", "reset", "restock", "lookup"}
  /\ pc[w] = "undo" /\ r.op = "lookup" => status[w] # 200
  /\ pc[w] \notin {"idle", "reply"} /\ r.op \in {"deposit", "restock", "price"}
       => r.n \in Amounts

\* What a worker inside a transaction has found in the committed image, which
\* nobody else can change meanwhile.
LocalAt(w) ==
  LET r == req[w] IN
  /\ pc[w] \in {"funds", "debit", "dispense", "sale", "stocklog", "commit"}
     /\ r.op = "purchase"
       => r.slot \in Slots /\ price[w] \in Amounts /\ disk.qty[r.slot] > 0
  /\ pc[w] \in {"debit", "dispense", "sale", "stocklog", "commit"}
     /\ r.op = "purchase" => r.user \in disk.exists
  /\ pc[w] \in {"dispense", "sale", "stocklog", "commit"}
     /\ r.op = "purchase" => disk.balance[r.user] >= price[w]
  /\ pc[w] \in {"zero", "cash", "commit"} /\ r.op = "reset"
       => /\ r.user \in disk.exists
          /\ ~truncated => val[w] = disk.balance[r.user] /\ val[w] # 0
  /\ pc[w] = "commit" /\ r.op = "restock" => r.slot \in Slots
  /\ pc[w] = "commit" /\ r.op = "lookup"
       => /\ disk.seq + 1 \in UserIds
          /\ ~truncated => val[w] = Upsert(disk, r.key).owner[r.key]

\* How far the open transaction has taken the image the connection sees.
ProgressAt(w) ==
  LET r == req[w] IN
  /\ pc[w] \in {"item", "funds", "debit", "upsert", "select", "zero",
                "restock", "identify"}
       => Repriced(db, disk)
  /\ pc[w] = "dispense" => Repriced(db, Debit(disk, r.user, price[w]))
  /\ pc[w] = "sale"
       => Repriced(db, Dispense(Debit(disk, r.user, price[w]), r.slot))
  /\ pc[w] = "stocklog" /\ r.op = "purchase"
       => Repriced(db, LogCash(Dispense(Debit(disk, r.user, price[w]), r.slot),
                               r.user, -price[w]))
  /\ pc[w] = "commit" /\ r.op = "purchase"
       => Repriced(db, LogStock(LogCash(Dispense(Debit(disk, r.user, price[w]),
                                r.slot), r.user, -price[w]), r.slot, -1))
  /\ pc[w] = "cash" /\ r.op = "deposit" => Repriced(db, Credit(disk, r.user, r.n))
  /\ pc[w] = "commit" /\ r.op = "deposit"
       => Repriced(db, LogCash(Credit(disk, r.user, r.n), r.user, r.n))
  /\ pc[w] = "cash" /\ r.op = "reset" => Repriced(db, Zero(disk, r.user))
  /\ pc[w] = "commit" /\ r.op = "reset"
       => Repriced(db, LogCash(Zero(disk, r.user), r.user, Neg(val[w])))
  /\ pc[w] = "stocklog" /\ r.op = "restock"
       => Repriced(db, IF r.slot \in Slots THEN Refill(disk, r.slot, r.n) ELSE disk)
  /\ pc[w] = "commit" /\ r.op = "restock"
       => Repriced(db, LogStock(Refill(disk, r.slot, r.n), r.slot, r.n))
  /\ pc[w] = "commit" /\ r.op = "lookup" => Repriced(db, Upsert(disk, r.key))

ControlInv  == \A w \in Workers : ControlAt(w)
LocalInv    == \A w \in Workers : LocalAt(w)
ProgressInv == \A w \in Workers : ProgressAt(w)

\* At most one worker is inside a transaction, and then one is open: TxnOwned
\* without its converse, which a failing ROLLBACK breaks.
TxnHeld ==
  /\ \A w \in Workers : pc[w] \in InTxn => txn
  /\ \A v, w \in Workers : pc[v] \in InTxn /\ pc[w] \in InTxn => v = w

\* Committed keys have different users with a row each, and every id in use is
\* behind the sequence, so that AUTOINCREMENT cannot draw it again.
KeysApart ==
  /\ \A f, g \in Fingerprints :
       disk.owner[f] # NoUser /\ disk.owner[f] = disk.owner[g] => f = g
  /\ \A f \in Fingerprints : disk.owner[f] # NoUser => disk.owner[f] \in disk.exists
  /\ \A u \in disk.exists : u <= disk.seq

\* Between transactions the connection sees what is committed.
QuietInv == ~txn => db = disk

IndInv ==
  /\ TypeOK /\ TxnHeld /\ ControlInv /\ LocalInv /\ ProgressInv /\ QuietInv
  /\ MoneyConserved /\ StockConserved /\ KeysApart /\ LookupAnswer

-----------------------------------------------------------------------------
(* The statements keep images images.                                      *)

\* The UPDATE of orders_purchase that takes the price.
LEMMA DebitImage ==
  ASSUME NEW d \in Image, NEW u \in UserIds, NEW p \in Nat, d.balance[u] >= p
  PROVE  Debit(d, u, p) \in Image
  BY DEF Debit, Image

\* The UPDATE of balance_reset.
LEMMA ZeroImage ==
  ASSUME NEW d \in Image, NEW u \in UserIds
  PROVE  Zero(d, u) \in Image
  BY DEF Zero, Image

\* The UPDATE of orders_purchase that takes a piece out of the slot.
LEMMA DispenseImage ==
  ASSUME NEW d \in Image, NEW s \in Slots, d.qty[s] > 0
  PROVE  Dispense(d, s) \in Image
  BY DEF Dispense, Image

\* The UPDATE of product_restock.
LEMMA RefillImage ==
  ASSUME NEW d \in Image, NEW s \in Slots, NEW q \in Nat
  PROVE  Refill(d, s, q) \in Image
  BY DEF Refill, Image

\* The INSERT into transactions.
LEMMA LogCashImage ==
  ASSUME NEW d \in Image, NEW u \in UserIds, NEW a \in Int
  PROVE  LogCash(d, u, a) \in Image
  BY DEF LogCash, Image

\* The INSERT into stock_logs.
LEMMA LogStockImage ==
  ASSUME NEW d \in Image, NEW s \in Slots, NEW q \in Int
  PROVE  LogStock(d, s, q) \in Image
<1>1. ItemOf[s] \in Items BY TablesAssumption
<1>2. QED BY <1>1 DEF LogStock, Image

\* The UPDATE of product_update_price.
LEMMA SetPriceImage ==
  ASSUME NEW d \in Image, NEW i \in Items, NEW p \in Amounts
  PROVE  SetPrice(d, i, p) \in Image
  BY DEF SetPrice, Image

\* A row inserted with its id given keeps the sequence a natural number.
LEMMA AddUserImage ==
  ASSUME NEW d \in Image, NEW u \in UserIds
  PROVE  AddUser(d, u) \in Image
<1>1. u \in Int /\ d.seq \in Nat BY TablesAssumption DEF Image
<1>2. (IF u > d.seq THEN u ELSE d.seq) \in Nat BY <1>1
<1>3. QED BY <1>2 DEF AddUser, Image

\* The upsert of balance_deposit.
LEMMA CreditImage ==
  ASSUME NEW d \in Image, NEW u \in UserIds, NEW a \in Nat
  PROVE  Credit(d, u, a) \in Image
<1> DEFINE e == AddUser(d, u)
<1>1. e \in Image BY AddUserImage
<1> HIDE DEF e
<1>2. [e EXCEPT !.balance[u] = @ + a] \in Image BY <1>1 DEF Image
<1>3. QED BY <1>2 DEF Credit, e

\* The upsert of users_lookup.
LEMMA UpsertImage ==
  ASSUME NEW d \in Image, NEW f \in Fingerprints, d.seq + 1 \in UserIds
  PROVE  Upsert(d, f) \in Image
<1> DEFINE e == AddUser(d, d.seq + 1)
<1>1. e \in Image BY AddUserImage
<1> HIDE DEF e
<1>2. [e EXCEPT !.owner[f] = d.seq + 1] \in Image BY <1>1 DEF Image
<1>3. [d EXCEPT !.seq = @ + 1] \in Image BY DEF Image
<1>4. QED BY <1>2, <1>3 DEF Upsert, e

-----------------------------------------------------------------------------
(* The statements do not look at prices.                                   *)

\* Two images that differ in prices still do after the same statement.
LEMMA StatementsRepriced ==
  ASSUME NEW d \in Image, NEW e \in Image, Repriced(d, e)
  PROVE  /\ \A u \in UserIds, p \in Int : Repriced(Debit(d, u, p), Debit(e, u, p))
         /\ \A u \in UserIds : Repriced(Zero(d, u), Zero(e, u))
         /\ \A s \in Slots : Repriced(Dispense(d, s), Dispense(e, s))
         /\ \A s \in Slots, q \in Int : Repriced(Refill(d, s, q), Refill(e, s, q))
         /\ \A u \in UserIds, a \in Int : Repriced(LogCash(d, u, a), LogCash(e, u, a))
         /\ \A s \in Slots, q \in Int : Repriced(LogStock(d, s, q), LogStock(e, s, q))
         /\ \A u \in UserIds, a \in Int : Repriced(Credit(d, u, a), Credit(e, u, a))
         /\ \A f \in Fingerprints : Repriced(Upsert(d, f), Upsert(e, f))
<1>1. \A u \in UserIds, p \in Int : Repriced(Debit(d, u, p), Debit(e, u, p))
  BY DEF Debit, Image, Repriced
<1>2. \A u \in UserIds : Repriced(Zero(d, u), Zero(e, u))
  BY DEF Zero, Image, Repriced
<1>3. \A s \in Slots : Repriced(Dispense(d, s), Dispense(e, s))
  BY DEF Dispense, Image, Repriced
<1>4. \A s \in Slots, q \in Int : Repriced(Refill(d, s, q), Refill(e, s, q))
  BY DEF Refill, Image, Repriced
<1>5. \A u \in UserIds, a \in Int : Repriced(LogCash(d, u, a), LogCash(e, u, a))
  BY DEF LogCash, Image, Repriced
<1>6. \A s \in Slots, q \in Int : Repriced(LogStock(d, s, q), LogStock(e, s, q))
  BY DEF LogStock, Image, Repriced
<1>7. \A u \in UserIds, a \in Int : Repriced(Credit(d, u, a), Credit(e, u, a))
  BY DEF Credit, AddUser, Image, Repriced
<1>8. \A f \in Fingerprints : Repriced(Upsert(d, f), Upsert(e, f))
  BY DEF Upsert, AddUser, Image, Repriced
<1>9. QED BY <1>1, <1>2, <1>3, <1>4, <1>5, <1>6, <1>7, <1>8

\* Such images are equal up to the field price.
LEMMA RepricedEqual ==
  ASSUME NEW d \in Image, NEW e \in Image, Repriced(d, e)
  PROVE  d = [e EXCEPT !.price = d.price]
  BY DEF Image, Repriced

\* sqlite3_column_int and the negation of an int give integers.
LEMMA IntTypes ==
  ASSUME NEW x \in Int
  PROVE  ToInt(x) \in Int /\ Neg(x) \in Int
<1>1. ToInt(x) \in Int BY ServicesAssumption DEF ToInt
<1>2. Neg(x) \in Int BY ServicesAssumption DEF Neg
<1>3. QED BY <1>1, <1>2

-----------------------------------------------------------------------------
(* The shapes of steps.                                                    *)

\* A worker between BEGIN and COMMIT or ROLLBACK is alone there.
LEMMA Alone ==
  ASSUME IndInv, NEW w \in Workers, pc[w] \in InTxn
  PROVE  txn /\ \A v \in Workers \ {w} : pc[v] \notin InTxn
  BY DEF IndInv, TxnHeld

\* The step leaves the other workers' locals alone.
ValKept(w) == \A v \in Workers \ {w} : val'[v] = val[v]

\* A call inside a transaction that leaves the worker inside it: what has to
\* be shown is about this worker alone.
LEMMA InsideStep ==
  ASSUME IndInv, NEW w \in Workers, NEW l \in InTxn, NEW code,
         pc[w] \in InTxn, Goto(w, l, code), UNCHANGED <<disk, txn, req>>,
         truncated => truncated', ValKept(w),
         TypeOK', ControlAt(w)', LocalAt(w)', ProgressAt(w)'
  PROVE  IndInv'
<1>1. /\ pc'[w] = l
      /\ \A v \in Workers \ {w} : pc'[v] = pc[v] /\ status'[v] = status[v]
  BY DEF IndInv, TypeOK, Goto
<1>2. txn /\ \A v \in Workers \ {w} : pc[v] \notin InTxn BY Alone
<1>3. TxnHeld' BY <1>1, <1>2 DEF TxnHeld
<1>4. ControlInv'
  <2> SUFFICES ASSUME NEW v \in Workers \ {w} PROVE ControlAt(v)' BY DEF ControlInv
  <2>1. ControlAt(v) BY DEF IndInv, ControlInv
  <2>2. QED BY <1>1, <2>1 DEF ControlAt
<1>5. LocalInv'
  <2> SUFFICES ASSUME NEW v \in Workers \ {w} PROVE LocalAt(v)' BY DEF LocalInv
  <2>1. QED BY <1>1, <1>2 DEF LocalAt, InTxn
<1>6. ProgressInv'
  <2> SUFFICES ASSUME NEW v \in Workers \ {w} PROVE ProgressAt(v)' BY DEF ProgressInv
  <2>1. QED BY <1>1, <1>2 DEF ProgressAt, InTxn
<1>7. QuietInv' BY <1>2 DEF QuietInv
<1>8. MoneyConserved' /\ StockConserved' /\ KeysApart'
  BY DEF IndInv, MoneyConserved, StockConserved, KeysApart
<1>9. LookupAnswer'
  <2>1. "reply" \notin InTxn BY DEF InTxn
  <2>2. QED BY <1>1, <2>1 DEF IndInv, LookupAnswer, Identified, ValKept
<1>10. QED BY <1>3, <1>4, <1>5, <1>6, <1>7, <1>8, <1>9 DEF IndInv

\* A failure inside a transaction: the next call is ROLLBACK.
LEMMA UndoNext ==
  ASSUME IndInv, NEW w \in Workers, NEW code,
         pc[w] \in InTxn, Goto(w, "undo", code), UNCHANGED <<disk, txn, req>>,
         truncated => truncated', ValKept(w),
         TypeOK', req[w].op = "lookup" => code # 200
  PROVE  IndInv'
<1>1. pc'[w] = "undo" /\ status'[w] = code BY DEF IndInv, TypeOK, Goto
<1>2. ControlAt(w) /\ pc[w] \notin {"idle", "reply"} BY DEF IndInv, ControlInv, InTxn
<1>3. ControlAt(w)' BY <1>1, <1>2 DEF ControlAt
<1>4. LocalAt(w)' BY <1>1 DEF LocalAt
<1>5. ProgressAt(w)' BY <1>1 DEF ProgressAt
<1>6. "undo" \in InTxn BY DEF InTxn
<1>7. QED BY <1>3, <1>4, <1>5, <1>6, InsideStep

\* A step after which the worker is outside any transaction, and that ends none.
LEMMA OutsideStep ==
  ASSUME IndInv, NEW w \in Workers, NEW l \in PC \ InTxn, NEW code,
         Goto(w, l, code), UNCHANGED <<db, disk, txn>>,
         truncated => truncated',
         \A v \in Workers \ {w} :
           val'[v] = val[v] /\ req'[v] = req[v] /\ price'[v] = price[v],
         TypeOK', ControlAt(w)', l = "reply" /\ req'[w].op = "lookup" => code # 200
  PROVE  IndInv'
<1>1. /\ pc'[w] = l /\ status'[w] = code
      /\ \A v \in Workers \ {w} : pc'[v] = pc[v] /\ status'[v] = status[v]
  BY DEF IndInv, TypeOK, Goto
<1>2. TxnHeld' BY <1>1 DEF TxnHeld, IndInv
<1>3. ControlInv'
  <2> SUFFICES ASSUME NEW v \in Workers \ {w} PROVE ControlAt(v)' BY DEF ControlInv
  <2>1. ControlAt(v) BY DEF IndInv, ControlInv
  <2>2. QED BY <1>1, <2>1 DEF ControlAt
<1>4. LocalInv'
  <2> SUFFICES ASSUME NEW v \in Workers PROVE LocalAt(v)' BY DEF LocalInv
  <2>1. CASE v = w BY <1>1, <2>1 DEF LocalAt, InTxn
  <2>2. CASE v # w
    <3>1. LocalAt(v) BY DEF IndInv, LocalInv
    <3>2. QED BY <1>1, <2>2, <3>1 DEF LocalAt
  <2>3. QED BY <2>1, <2>2
<1>5. ProgressInv'
  <2> SUFFICES ASSUME NEW v \in Workers PROVE ProgressAt(v)' BY DEF ProgressInv
  <2>1. CASE v = w BY <1>1, <2>1 DEF ProgressAt, InTxn
  <2>2. CASE v # w
    <3>1. ProgressAt(v) BY DEF IndInv, ProgressInv
    <3>2. QED BY <1>1, <2>2, <3>1 DEF ProgressAt
  <2>3. QED BY <2>1, <2>2
<1>6. QuietInv' BY DEF QuietInv, IndInv
<1>7. MoneyConserved' /\ StockConserved' /\ KeysApart'
  BY DEF IndInv, MoneyConserved, StockConserved, KeysApart
<1>8. LookupAnswer' BY <1>1 DEF IndInv, LookupAnswer, Identified
<1>9. QED BY <1>2, <1>3, <1>4, <1>5, <1>6, <1>7, <1>8 DEF IndInv

\* A statement that fails.
LEMMA StatementFails ==
  ASSUME IndInv, NEW w \in Workers, NEW at \in InTxn, NEW d, NEW next,
         Statement(w, at, FALSE, d, next)
  PROVE  IndInv'
<1>1. /\ pc[w] \in InTxn /\ Goto(w, "undo", 500)
      /\ UNCHANGED <<db, disk, txn, req, price, val, served, crashes, truncated, posted>>
  BY DEF Statement, bounds
<1>2. TypeOK'
  <2>1. TypeOK BY DEF IndInv
  <2>2. pc' \in [Workers -> PC] BY <1>1, <2>1 DEF TypeOK, Goto, PC, InTxn
  <2>3. status' \in [Workers -> {200, 400, 401, 403, 404, 500}]
    BY <1>1, <2>1 DEF TypeOK, Goto
  <2>4. QED BY <1>1, <2>1, <2>2, <2>3 DEF TypeOK
<1>3. QED BY <1>1, <1>2, UndoNext DEF ValKept

\* A statement that succeeds inside a transaction.
LEMMA StatementSucceeds ==
  ASSUME IndInv, NEW w \in Workers, NEW at \in InTxn, NEW d \in Image,
         NEW next \in InTxn, Statement(w, at, TRUE, d, next),
         ControlAt(w)', LocalAt(w)', ProgressAt(w)'
  PROVE  IndInv'
<1>1. txn BY Alone DEF Statement
<1>2. /\ pc[w] \in InTxn /\ Goto(w, next, 200) /\ db' = d
      /\ UNCHANGED <<disk, txn, req, price, val, served, crashes, truncated, posted>>
  BY <1>1 DEF Statement, Write, bounds
<1>3. TypeOK'
  <2>1. TypeOK BY DEF IndInv
  <2>2. pc' \in [Workers -> PC] BY <1>2, <2>1 DEF TypeOK, Goto, PC
  <2>3. status' \in [Workers -> {200, 400, 401, 403, 404, 500}]
    BY <1>2, <2>1 DEF TypeOK, Goto
  <2>4. QED BY <1>2, <2>1, <2>2, <2>3 DEF TypeOK
<1>4. QED BY <1>2, <1>3, InsideStep DEF ValKept

-----------------------------------------------------------------------------
(* The statements of the services, one lemma each.                         *)

\* What the invariant says of one worker, its types included.
LEMMA AtWorker ==
  ASSUME IndInv, NEW w \in Workers
  PROVE  /\ db \in Image /\ disk \in Image
         /\ db.exists \subseteq UserIds /\ disk.exists \subseteq UserIds
         /\ db.balance \in [UserIds -> Nat] /\ disk.balance \in [UserIds -> Nat]
         /\ db.qty \in [Slots -> Nat] /\ disk.qty \in [Slots -> Nat]
         /\ req[w] \in Request
         /\ req[w].user \in UserIds /\ req[w].key \in Fingerprints
         /\ req[w].slot \in Slots \cup {Absent} /\ req[w].item \in Items \cup {Absent}
         /\ req[w].n \in Nat /\ price[w] \in Nat /\ val[w] \in Int
         /\ ControlAt(w) /\ LocalAt(w) /\ ProgressAt(w)
<1>1. TypeOK BY DEF IndInv
<1>2. db \in Image /\ disk \in Image BY <1>1 DEF TypeOK
<1>3. req[w] \in Request BY <1>1 DEF TypeOK
<1>4. /\ req[w].user \in UserIds /\ req[w].key \in Fingerprints
      /\ req[w].slot \in Slots \cup {Absent} /\ req[w].item \in Items \cup {Absent}
      /\ req[w].n \in Amounts \cup {0}
  BY <1>3 DEF Request
<1>5. price[w] \in Amounts \cup {0} /\ val[w] \in Int BY <1>1 DEF TypeOK
<1>6. Amounts \cup {0} \subseteq Nat BY TablesAssumption
<1>7. /\ db.exists \subseteq UserIds /\ disk.exists \subseteq UserIds
      /\ db.balance \in [UserIds -> Nat] /\ disk.balance \in [UserIds -> Nat]
      /\ db.qty \in [Slots -> Nat] /\ disk.qty \in [Slots -> Nat]
  BY <1>2 DEF Image
<1>8. ControlAt(w) /\ LocalAt(w) /\ ProgressAt(w)
  BY DEF IndInv, ControlInv, LocalInv, ProgressInv
<1>9. QED BY <1>2, <1>3, <1>4, <1>5, <1>6, <1>7, <1>8

\* The UPDATE that takes the price from the balance.
LEMMA DebitUserStep ==
  ASSUME IndInv, NEW w \in Workers, DebitUser(w)
  PROVE  IndInv'
<1> DEFINE u == req[w].user
           p == price[w]
           ok == u \notin db.exists \/ db.balance[u] >= p
           d == IF u \in db.exists THEN Debit(db, u, p) ELSE db
<1>1. "debit" \in InTxn /\ "dispense" \in InTxn BY DEF InTxn
<1>2. pc[w] = "debit" BY DEF DebitUser, Statement
<1>3. CASE ~ok
  <2>1. Statement(w, "debit", FALSE, d, "dispense") BY <1>3 DEF DebitUser, Statement
  <2>2. QED BY <1>1, <2>1, StatementFails
<1>4. CASE ok
  <2>1. Statement(w, "debit", TRUE, d, "dispense") BY <1>4 DEF DebitUser, Statement
  <2>2. /\ req[w].op = "purchase" /\ req[w].slot \in Slots /\ p \in Amounts
        /\ disk.qty[req[w].slot] > 0 /\ u \in disk.exists /\ Repriced(db, disk)
    BY <1>2, AtWorker DEF ControlAt, LocalAt, ProgressAt
  <2>3. u \in UserIds /\ p \in Nat /\ db \in Image /\ disk \in Image BY AtWorker
  <2>4. db.exists = disk.exists /\ db.balance = disk.balance BY <2>2 DEF Repriced
  <2>5. d = Debit(db, u, p) /\ disk.balance[u] >= p BY <1>4, <2>2, <2>4
  <2>6. d \in Image BY <2>3, <2>4, <2>5, DebitImage
  <2>7. Repriced(d, Debit(disk, u, p)) BY <2>2, <2>3, <2>5, StatementsRepriced
  <2> HIDE DEF d
  <2>8. /\ pc'[w] = "dispense" /\ status'[w] = 200 /\ db' = d
        /\ disk' = disk /\ req' = req /\ price' = price /\ val' = val
        /\ truncated' = truncated
    BY <1>1, <1>2, <2>1, Alone DEF Statement, Write, Goto, IndInv, TypeOK
  <2>9. ControlAt(w)' BY <2>2, <2>8 DEF ControlAt
  <2>10. LocalAt(w)' BY <2>2, <2>5, <2>8 DEF LocalAt
  <2>11. ProgressAt(w)' BY <2>7, <2>8 DEF ProgressAt
  <2>12. QED BY <1>1, <2>1, <2>6, <2>9, <2>10, <2>11, StatementSucceeds
<1>5. QED BY <1>3, <1>4

\* The images a sale goes through.
LEMMA SaleImages ==
  ASSUME NEW d \in Image, NEW u \in UserIds, NEW p \in Nat, NEW s \in Slots,
         d.balance[u] >= p, d.qty[s] > 0
  PROVE  /\ Debit(d, u, p) \in Image
         /\ Dispense(Debit(d, u, p), s) \in Image
         /\ LogCash(Dispense(Debit(d, u, p), s), u, -p) \in Image
<1>1. Debit(d, u, p) \in Image BY DebitImage
<1>2. Debit(d, u, p).qty = d.qty BY DEF Debit, Image
<1>3. Dispense(Debit(d, u, p), s) \in Image BY <1>1, <1>2, DispenseImage
<1>4. -p \in Int OBVIOUS
<1>5. QED BY <1>1, <1>3, <1>4, LogCashImage

\* The UPDATE that takes a piece out of the slot.
LEMMA DispenseItemStep ==
  ASSUME IndInv, NEW w \in Workers, DispenseItem(w)
  PROVE  IndInv'
<1> DEFINE u == req[w].user
           s == req[w].slot
           p == price[w]
           d == Dispense(db, s)
<1>1. "dispense" \in InTxn /\ "sale" \in InTxn BY DEF InTxn
<1>2. pc[w] = "dispense" BY DEF DispenseItem, Statement
<1>3. CASE ~(db.qty[s] > 0)
  <2>1. Statement(w, "dispense", FALSE, d, "sale") BY <1>3 DEF DispenseItem, Statement
  <2>2. QED BY <1>1, <2>1, StatementFails
<1>4. CASE db.qty[s] > 0
  <2>1. Statement(w, "dispense", TRUE, d, "sale") BY <1>4 DEF DispenseItem, Statement
  <2>2. /\ req[w].op = "purchase" /\ s \in Slots /\ p \in Amounts
        /\ disk.qty[s] > 0 /\ u \in disk.exists /\ disk.balance[u] >= p
        /\ Repriced(db, Debit(disk, u, p))
    BY <1>2, AtWorker DEF ControlAt, LocalAt, ProgressAt
  <2>3. u \in UserIds /\ p \in Nat /\ db \in Image /\ disk \in Image BY AtWorker
  <2>4. Debit(disk, u, p) \in Image BY <2>2, <2>3, SaleImages
  <2>5. d \in Image BY <1>4, <2>2, <2>3, DispenseImage
  <2>6. Repriced(d, Dispense(Debit(disk, u, p), s))
    BY <2>2, <2>3, <2>4, StatementsRepriced
  <2> HIDE DEF d
  <2>7. /\ pc'[w] = "sale" /\ status'[w] = 200 /\ db' = d
        /\ disk' = disk /\ req' = req /\ price' = price /\ val' = val
        /\ truncated' = truncated
    BY <1>1, <1>2, <2>1, Alone DEF Statement, Write, Goto, IndInv, TypeOK
  <2>8. ControlAt(w)' BY <2>2, <2>7 DEF ControlAt
  <2>9. LocalAt(w)' BY <2>2, <2>7 DEF LocalAt
  <2>10. ProgressAt(w)' BY <2>6, <2>7 DEF ProgressAt
  <2>11. QED BY <1>1, <2>1, <2>5, <2>8, <2>9, <2>10, StatementSucceeds
<1>5. QED BY <1>3, <1>4

\* The row of transactions that records a sale.
LEMMA LogSaleStep ==
  ASSUME IndInv, NEW w \in Workers, LogSale(w)
  PROVE  IndInv'
<1> DEFINE u == req[w].user
           s == req[w].slot
           p == price[w]
           ok == u \in db.exists /\ p > 0
           d == LogCash(db, u, -p)
<1>1. "sale" \in InTxn /\ "stocklog" \in InTxn BY DEF InTxn
<1>2. pc[w] = "sale" BY DEF LogSale, Statement
<1>3. CASE ~ok
  <2>1. Statement(w, "sale", FALSE, d, "stocklog") BY <1>3 DEF LogSale, Statement
  <2>2. QED BY <1>1, <2>1, StatementFails
<1>4. CASE ok
  <2>1. Statement(w, "sale", TRUE, d, "stocklog") BY <1>4 DEF LogSale, Statement
  <2>2. /\ req[w].op = "purchase" /\ s \in Slots /\ p \in Amounts
        /\ disk.qty[s] > 0 /\ u \in disk.exists /\ disk.balance[u] >= p
        /\ Repriced(db, Dispense(Debit(disk, u, p), s))
    BY <1>2, AtWorker DEF ControlAt, LocalAt, ProgressAt
  <2>3. u \in UserIds /\ p \in Nat /\ -p \in Int /\ db \in Image /\ disk \in Image
    BY AtWorker
  <2>4. Dispense(Debit(disk, u, p), s) \in Image BY <2>2, <2>3, SaleImages
  <2>5. d \in Image BY <2>3, LogCashImage
  <2>6. Repriced(d, LogCash(Dispense(Debit(disk, u, p), s), u, -p))
    BY <2>2, <2>3, <2>4, StatementsRepriced
  <2> HIDE DEF d
  <2>7. /\ pc'[w] = "stocklog" /\ status'[w] = 200 /\ db' = d
        /\ disk' = disk /\ req' = req /\ price' = price /\ val' = val
        /\ truncated' = truncated
    BY <1>1, <1>2, <2>1, Alone DEF Statement, Write, Goto, IndInv, TypeOK
  <2>8. ControlAt(w)' BY <2>2, <2>7 DEF ControlAt
  <2>9. LocalAt(w)' BY <2>2, <2>7 DEF LocalAt
  <2>10. ProgressAt(w)' BY <2>2, <2>6, <2>7 DEF ProgressAt
  <2>11. QED BY <1>1, <2>1, <2>5, <2>8, <2>9, <2>10, StatementSucceeds
<1>5. QED BY <1>3, <1>4

\* The row of stock_logs that records a sale or a restock.
LEMMA LogStockChangeStep ==
  ASSUME IndInv, NEW w \in Workers, LogStockChange(w)
  PROVE  IndInv'
<1> DEFINE u == req[w].user
           s == req[w].slot
           p == price[w]
           q == IF req[w].op = "purchase" THEN -1 ELSE req[w].n
           d == LogStock(db, s, q)
<1>1. "stocklog" \in InTxn /\ "commit" \in InTxn BY DEF InTxn
<1>2. pc[w] = "stocklog" BY DEF LogStockChange, Statement
<1>3. CASE s \notin Slots
  <2>1. Statement(w, "stocklog", FALSE, d, "commit")
    BY <1>3 DEF LogStockChange, Statement
  <2>2. QED BY <1>1, <2>1, StatementFails
<1>4. CASE s \in Slots
  <2>1. Statement(w, "stocklog", TRUE, d, "commit")
    BY <1>4 DEF LogStockChange, Statement
  <2>2. /\ u \in UserIds /\ p \in Nat /\ -p \in Int /\ q \in Int
        /\ db \in Image /\ disk \in Image /\ req[w].n \in Nat
    BY AtWorker
  <2>3. d \in Image BY <1>4, <2>2, LogStockImage
  <2>4. req[w].op \in {"purchase", "restock"} BY <1>2, AtWorker DEF ControlAt
  <2>5. CASE req[w].op = "purchase"
    <3>1. /\ p \in Amounts /\ disk.qty[s] > 0 /\ u \in disk.exists
          /\ disk.balance[u] >= p
          /\ Repriced(db, LogCash(Dispense(Debit(disk, u, p), s), u, -p))
      BY <1>2, <2>5, AtWorker DEF LocalAt, ProgressAt
    <3>2. LogCash(Dispense(Debit(disk, u, p), s), u, -p) \in Image
      BY <1>4, <2>2, <3>1, SaleImages
    <3>3. Repriced(d, LogStock(LogCash(Dispense(Debit(disk, u, p), s), u, -p), s, -1))
      BY <1>4, <2>2, <2>5, <3>1, <3>2, StatementsRepriced
    <3> HIDE DEF d
    <3>4. /\ pc'[w] = "commit" /\ status'[w] = 200 /\ db' = d
          /\ disk' = disk /\ req' = req /\ price' = price /\ val' = val
          /\ truncated' = truncated
      BY <1>1, <1>2, <2>1, Alone DEF Statement, Write, Goto, IndInv, TypeOK
    <3>5. ControlAt(w)' BY <2>5, <3>4 DEF ControlAt
    <3>6. LocalAt(w)' BY <1>4, <2>5, <3>1, <3>4 DEF LocalAt
    <3>7. ProgressAt(w)' BY <2>5, <3>3, <3>4 DEF ProgressAt
    <3>8. QED BY <1>1, <2>1, <2>3, <3>5, <3>6, <3>7, StatementSucceeds
  <2>6. CASE req[w].op = "restock"
    <3>1. req[w].n \in Amounts /\ Repriced(db, Refill(disk, s, req[w].n))
      BY <1>2, <1>4, <2>6, AtWorker DEF ControlAt, ProgressAt
    <3>2. Refill(disk, s, req[w].n) \in Image BY <1>4, <2>2, RefillImage
    <3>3. Repriced(d, LogStock(Refill(disk, s, req[w].n), s, req[w].n))
      BY <1>4, <2>2, <2>6, <3>1, <3>2, StatementsRepriced
    <3> HIDE DEF d
    <3>4. /\ pc'[w] = "commit" /\ status'[w] = 200 /\ db' = d
          /\ disk' = disk /\ req' = req /\ price' = price /\ val' = val
          /\ truncated' = truncated
      BY <1>1, <1>2, <2>1, Alone DEF Statement, Write, Goto, IndInv, TypeOK
    <3>5. ControlAt(w)' BY <2>6, <3>1, <3>4 DEF ControlAt
    <3>6. LocalAt(w)' BY <1>4, <2>6, <3>4 DEF LocalAt
    <3>7. ProgressAt(w)' BY <2>6, <3>3, <3>4 DEF ProgressAt
    <3>8. QED BY <1>1, <2>1, <2>3, <3>5, <3>6, <3>7, StatementSucceeds
  <2>7. QED BY <2>4, <2>5, <2>6
<1>5. QED BY <1>3, <1>4

\* The upsert of balance_deposit.
LEMMA UpsertBalanceStep ==
  ASSUME IndInv, NEW w \in Workers, UpsertBalance(w)
  PROVE  IndInv'
<1> DEFINE u == req[w].user
           a == req[w].n
           d == Credit(db, u, a)
<1>1. "upsert" \in InTxn /\ "cash" \in InTxn BY DEF InTxn
<1>2. pc[w] = "upsert" BY DEF UpsertBalance, Statement
<1>3. Statement(w, "upsert", TRUE, d, "cash") BY DEF UpsertBalance
<1>4. req[w].op = "deposit" /\ a \in Amounts /\ Repriced(db, disk)
  BY <1>2, AtWorker DEF ControlAt, ProgressAt
<1>5. u \in UserIds /\ a \in Nat /\ db \in Image /\ disk \in Image BY AtWorker
<1>6. d \in Image BY <1>5, CreditImage
<1>7. Repriced(d, Credit(disk, u, a)) BY <1>4, <1>5, StatementsRepriced
<1> HIDE DEF d
<1>8. /\ pc'[w] = "cash" /\ status'[w] = 200 /\ db' = d
      /\ disk' = disk /\ req' = req /\ price' = price /\ val' = val
      /\ truncated' = truncated
  BY <1>1, <1>2, <1>3, Alone DEF Statement, Write, Goto, IndInv, TypeOK
<1>9. ControlAt(w)' BY <1>4, <1>8 DEF ControlAt
<1>10. LocalAt(w)' BY <1>4, <1>8 DEF LocalAt
<1>11. ProgressAt(w)' BY <1>4, <1>7, <1>8 DEF ProgressAt
<1>12. QED BY <1>1, <1>3, <1>6, <1>9, <1>10, <1>11, StatementSucceeds

\* The UPDATE of balance_reset.
LEMMA ZeroBalanceStep ==
  ASSUME IndInv, NEW w \in Workers, ZeroBalance(w)
  PROVE  IndInv'
<1> DEFINE u == req[w].user
           d == Zero(db, u)
<1>1. "zero" \in InTxn /\ "cash" \in InTxn BY DEF InTxn
<1>2. pc[w] = "zero" BY DEF ZeroBalance, Statement
<1>3. Statement(w, "zero", TRUE, d, "cash") BY DEF ZeroBalance
<1>4. /\ req[w].op = "reset" /\ Repriced(db, disk) /\ u \in disk.exists
      /\ ~truncated => val[w] = disk.balance[u] /\ val[w] # 0
  BY <1>2, AtWorker DEF ControlAt, LocalAt, ProgressAt
<1>5. u \in UserIds /\ db \in Image /\ disk \in Image BY AtWorker
<1>6. d \in Image BY <1>5, ZeroImage
<1>7. Repriced(d, Zero(disk, u)) BY <1>4, <1>5, StatementsRepriced
<1> HIDE DEF d
<1>8. /\ pc'[w] = "cash" /\ status'[w] = 200 /\ db' = d
      /\ disk' = disk /\ req' = req /\ price' = price /\ val' = val
      /\ truncated' = truncated
  BY <1>1, <1>2, <1>3, Alone DEF Statement, Write, Goto, IndInv, TypeOK
<1>9. ControlAt(w)' BY <1>4, <1>8 DEF ControlAt
<1>10. LocalAt(w)' BY <1>4, <1>8 DEF LocalAt
<1>11. ProgressAt(w)' BY <1>4, <1>7, <1>8 DEF ProgressAt
<1>12. QED BY <1>1, <1>3, <1>6, <1>9, <1>10, <1>11, StatementSucceeds

\* The UPDATE of product_restock, of a slot that exists or not.
LEMMA UpdateStockStep ==
  ASSUME IndInv, NEW w \in Workers, UpdateStock(w)
  PROVE  IndInv'
<1> DEFINE s == req[w].slot
           q == req[w].n
           d == IF s \in Slots THEN Refill(db, s, q) ELSE db
           e == IF s \in Slots THEN Refill(disk, s, q) ELSE disk
<1>1. "restock" \in InTxn /\ "stocklog" \in InTxn BY DEF InTxn
<1>2. pc[w] = "restock" BY DEF UpdateStock, Statement
<1>3. Statement(w, "restock", TRUE, d, "stocklog") BY DEF UpdateStock
<1>4. req[w].op = "restock" /\ q \in Amounts /\ Repriced(db, disk)
  BY <1>2, AtWorker DEF ControlAt, ProgressAt
<1>5. q \in Nat /\ db \in Image /\ disk \in Image BY AtWorker
<1>6. d \in Image BY <1>5, RefillImage
<1>7. Repriced(d, e) BY <1>4, <1>5, StatementsRepriced
<1> HIDE DEF d
<1>8. /\ pc'[w] = "stocklog" /\ status'[w] = 200 /\ db' = d
      /\ disk' = disk /\ req' = req /\ price' = price /\ val' = val
      /\ truncated' = truncated
  BY <1>1, <1>2, <1>3, Alone DEF Statement, Write, Goto, IndInv, TypeOK
<1>9. ControlAt(w)' BY <1>4, <1>8 DEF ControlAt
<1>10. LocalAt(w)' BY <1>4, <1>8 DEF LocalAt
<1>11. ProgressAt(w)' BY <1>4, <1>7, <1>8 DEF ProgressAt
<1>12. QED BY <1>1, <1>3, <1>6, <1>9, <1>10, <1>11, StatementSucceeds

\* The row of transactions that records a deposit or a refund.
LEMMA LogCashTransactionStep ==
  ASSUME IndInv, NEW w \in Workers, LogCashTransaction(w)
  PROVE  IndInv'
<1> DEFINE u == req[w].user
           a == IF req[w].op = "deposit" THEN req[w].n ELSE Neg(val[w])
           ok == u \in db.exists /\ IF req[w].op = "deposit" THEN a > 0 ELSE a < 0
           d == LogCash(db, u, a)
<1>1. "cash" \in InTxn /\ "commit" \in InTxn BY DEF InTxn
<1>2. pc[w] = "cash" BY DEF LogCashTransaction, Statement
<1>3. CASE ~ok
  <2>1. Statement(w, "cash", FALSE, d, "commit")
    BY <1>3 DEF LogCashTransaction, Statement
  <2>2. QED BY <1>1, <2>1, StatementFails
<1>4. CASE ok
  <2>1. Statement(w, "cash", TRUE, d, "commit")
    BY <1>4 DEF LogCashTransaction, Statement
  <2>2. /\ u \in UserIds /\ db \in Image /\ disk \in Image
        /\ req[w].n \in Nat /\ Neg(val[w]) \in Int
    BY AtWorker, IntTypes
  <2>3. a \in Int BY <2>2
  <2>4. d \in Image BY <2>2, <2>3, LogCashImage
  <2>5. req[w].op \in {"deposit", "reset"} BY <1>2, AtWorker DEF ControlAt
  <2>6. CASE req[w].op = "deposit"
    <3>1. req[w].n \in Amounts /\ Repriced(db, Credit(disk, u, req[w].n))
      BY <1>2, <2>6, AtWorker DEF ControlAt, ProgressAt
    <3>2. Credit(disk, u, req[w].n) \in Image BY <2>2, CreditImage
    <3>3. Repriced(d, LogCash(Credit(disk, u, req[w].n), u, req[w].n))
      BY <2>2, <2>6, <3>1, <3>2, StatementsRepriced
    <3> HIDE DEF d
    <3>4. /\ pc'[w] = "commit" /\ status'[w] = 200 /\ db' = d
          /\ disk' = disk /\ req' = req /\ price' = price /\ val' = val
          /\ truncated' = truncated
      BY <1>1, <1>2, <2>1, Alone DEF Statement, Write, Goto, IndInv, TypeOK
    <3>5. ControlAt(w)' BY <2>6, <3>1, <3>4 DEF ControlAt
    <3>6. LocalAt(w)' BY <2>6, <3>4 DEF LocalAt
    <3>7. ProgressAt(w)' BY <2>6, <3>3, <3>4 DEF ProgressAt
    <3>8. QED BY <1>1, <2>1, <2>4, <3>5, <3>6, <3>7, StatementSucceeds
  <2>7. CASE req[w].op = "reset"
    <3>1. /\ Repriced(db, Zero(disk, u)) /\ u \in disk.exists
          /\ ~truncated => val[w] = disk.balance[u] /\ val[w] # 0
      BY <1>2, <2>7, AtWorker DEF LocalAt, ProgressAt
    <3>2. Zero(disk, u) \in Image BY <2>2, ZeroImage
    <3>3. Repriced(d, LogCash(Zero(disk, u), u, Neg(val[w])))
      BY <2>2, <2>7, <3>1, <3>2, StatementsRepriced
    <3> HIDE DEF d
    <3>4. /\ pc'[w] = "commit" /\ status'[w] = 200 /\ db' = d
          /\ disk' = disk /\ req' = req /\ price' = price /\ val' = val
          /\ truncated' = truncated
      BY <1>1, <1>2, <2>1, Alone DEF Statement, Write, Goto, IndInv, TypeOK
    <3>5. ControlAt(w)' BY <2>7, <3>4 DEF ControlAt
    <3>6. LocalAt(w)' BY <2>7, <3>1, <3>4 DEF LocalAt
    <3>7. ProgressAt(w)' BY <2>7, <3>3, <3>4 DEF ProgressAt
    <3>8. QED BY <1>1, <2>1, <2>4, <3>5, <3>6, <3>7, StatementSucceeds
  <2>8. QED BY <2>5, <2>6, <2>7
<1>5. QED BY <1>3, <1>4

\* The types of the locals that a SELECT sets.
LEMMA SelectTypes ==
  ASSUME IndInv, NEW w \in Workers, NEW l \in PC, NEW code \in {200, 404, 500},
         Goto(w, l, code), UNCHANGED <<disk, req, bounds, posted>>,
         db' \in Image, txn' \in BOOLEAN, truncated' \in BOOLEAN,
         price' \in [Workers -> Amounts \cup {0}], val' \in [Workers -> Int]
  PROVE  TypeOK'
<1>1. TypeOK BY DEF IndInv
<1>2. pc' \in [Workers -> PC] BY <1>1 DEF TypeOK, Goto
<1>3. status' \in [Workers -> {200, 400, 401, 403, 404, 500}] BY <1>1 DEF TypeOK, Goto
<1>4. QED BY <1>1, <1>2, <1>3 DEF TypeOK, bounds

\* The SELECT of item and stock in orders_purchase.
LEMMA SelectItemStep ==
  ASSUME IndInv, NEW w \in Workers, SelectItem(w)
  PROVE  IndInv'
<1> DEFINE s == req[w].slot
<1> USE DEF SelectItem
<1>0. TypeOK BY DEF IndInv
<1>1. pc[w] \in InTxn /\ "undo" \in InTxn /\ "funds" \in InTxn /\ "undo" \in PC /\ "funds" \in PC
  BY DEF InTxn, PC
<1>2. /\ req[w].op = "purchase" /\ Repriced(db, disk) /\ db \in Image
  BY AtWorker DEF ControlAt, ProgressAt
<1>3. price' \in [Workers -> Amounts \cup {0}] /\ truncated' \in BOOLEAN
  <2>1. CASE s \in Slots
    <3>1. db.price[ItemOf[s]] \in Amounts BY <1>2, <2>1, TablesAssumption DEF Image
    <3>2. QED BY <1>0, <2>1, <3>1 DEF TypeOK
  <2>2. CASE s \notin Slots BY <1>0, <2>2 DEF TypeOK
  <2>3. QED BY <2>1, <2>2
<1>4. (truncated => truncated') /\ ValKept(w) BY DEF ValKept
<1>5. /\ UNCHANGED <<db, disk, txn, req, val, bounds, posted>>
  OBVIOUS
<1>6. CASE s \in Slots /\ ToInt(db.qty[s]) > 0
  <2>1. Goto(w, "funds", 200) /\ price' = [price EXCEPT ![w] = db.price[ItemOf[s]]]
    <3>1. ToInt(db.qty[s]) \in Int BY <1>2, <1>6, IntTypes DEF Image
    <3>2. QED BY <1>6, <3>1
  <2>2. TypeOK' BY <1>0, <1>1, <1>2, <1>3, <1>5, <2>1, SelectTypes DEF TypeOK
  <2>3. pc'[w] = "funds" BY <1>0, <2>1 DEF Goto, TypeOK
  <2>4. disk.qty[s] > 0
    <3>1. db.qty = disk.qty /\ db.qty[s] \in Nat BY <1>2, <1>6 DEF Repriced, Image
    <3>2. db.qty[s] # 0
      <4>1. ToInt(0) = 0 BY ServicesAssumption DEF ToInt
      <4>2. QED BY <1>6, <4>1
    <3>3. QED BY <3>1, <3>2
  <2>5. price'[w] \in Amounts
    <3>1. db.price[ItemOf[s]] \in Amounts BY <1>2, <1>6, TablesAssumption DEF Image
    <3>2. QED BY <1>0, <2>1, <3>1 DEF TypeOK
  <2>6. ControlAt(w)' BY <1>2, <1>5, <2>3 DEF ControlAt
  <2>7. LocalAt(w)' BY <1>2, <1>5, <1>6, <2>3, <2>4, <2>5 DEF LocalAt
  <2>8. ProgressAt(w)' BY <1>2, <1>5, <2>3 DEF ProgressAt
  <2>9. QED BY <1>1, <1>4, <1>5, <2>1, <2>2, <2>6, <2>7, <2>8, InsideStep
<1>7. CASE ~(s \in Slots /\ ToInt(db.qty[s]) > 0)
  <2>1. Goto(w, "undo", 500)
    <3>1. s \in Slots => ToInt(db.qty[s]) \in Int BY <1>2, IntTypes DEF Image
    <3>2. QED BY <1>7, <3>1
  <2>2. TypeOK' BY <1>0, <1>1, <1>2, <1>3, <1>5, <2>1, SelectTypes DEF TypeOK
  <2>3. QED BY <1>1, <1>4, <1>5, <2>1, <2>2, UndoNext
<1>8. QED BY <1>6, <1>7

\* A column read into val[w].
LEMMA ReadTypes ==
  ASSUME IndInv, NEW w \in Workers, NEW x \in Int, ReadInt(w, x)
  PROVE  /\ val' \in [Workers -> Int] /\ truncated' \in BOOLEAN
         /\ (truncated => truncated') /\ val'[w] = ToInt(x)
         /\ ~truncated' => val'[w] = x
         /\ ValKept(w)
<1>1. ToInt(x) \in Int BY IntTypes
<1>2. val \in [Workers -> Int] /\ truncated \in BOOLEAN BY DEF IndInv, TypeOK
<1>3. QED BY <1>1, <1>2 DEF ReadInt, ValKept

\* The SELECT of the balance in orders_purchase.
LEMMA SelectFundsStep ==
  ASSUME IndInv, NEW w \in Workers, SelectFunds(w)
  PROVE  IndInv'
<1> DEFINE u == req[w].user
<1>0. TypeOK BY DEF IndInv
<1>1. /\ pc[w] = "funds" /\ pc[w] \in InTxn
      /\ "undo" \in InTxn /\ "debit" \in InTxn /\ "undo" \in PC /\ "debit" \in PC
  BY DEF InTxn, PC, SelectFunds
<1>2. /\ req[w].op = "purchase" /\ Repriced(db, disk) /\ db \in Image
      /\ req[w].slot \in Slots /\ price[w] \in Amounts /\ disk.qty[req[w].slot] > 0
      /\ u \in UserIds
  BY <1>1, AtWorker DEF ControlAt, LocalAt, ProgressAt
<1>3. UNCHANGED <<db, disk, txn, req, price, bounds, posted>> BY DEF SelectFunds
<1>4. CASE u \in db.exists
  <2>1. ReadInt(w, db.balance[u]) BY <1>4 DEF SelectFunds
  <2>2. db.balance[u] \in Int BY <1>2 DEF Image
  <2>3. /\ val' \in [Workers -> Int] /\ truncated' \in BOOLEAN
        /\ (truncated => truncated') /\ ValKept(w)
    BY <2>1, <2>2, ReadTypes
  <2>4. CASE Goto(w, "debit", 200)
    <3>1. TypeOK' BY <1>0, <1>1, <1>3, <2>3, <2>4, SelectTypes DEF TypeOK
    <3>2. pc'[w] = "debit" BY <1>0, <2>4 DEF Goto, TypeOK
    <3>3. u \in disk.exists BY <1>2, <1>4 DEF Repriced
    <3>4. ControlAt(w)' BY <1>2, <1>3, <3>2 DEF ControlAt
    <3>5. LocalAt(w)' BY <1>2, <1>3, <3>2, <3>3 DEF LocalAt
    <3>6. ProgressAt(w)' BY <1>2, <1>3, <3>2 DEF ProgressAt
    <3>7. QED BY <1>1, <1>3, <2>3, <2>4, <3>1, <3>4, <3>5, <3>6, InsideStep
  <2>5. CASE Goto(w, "undo", 500)
    <3>1. TypeOK' BY <1>0, <1>1, <1>3, <2>3, <2>5, SelectTypes DEF TypeOK
    <3>2. QED BY <1>1, <1>3, <2>3, <2>5, <3>1, UndoNext
  <2>6. QED BY <1>4, <2>4, <2>5 DEF SelectFunds
<1>5. CASE u \notin db.exists
  <2>1. Goto(w, "undo", 500) /\ UNCHANGED <<val, truncated>> BY <1>5 DEF SelectFunds
  <2>2. TypeOK' BY <1>0, <1>1, <1>3, <2>1, SelectTypes DEF TypeOK
  <2>3. QED BY <1>1, <1>3, <2>1, <2>2, UndoNext DEF ValKept
<1>6. QED BY <1>4, <1>5

\* The SELECT of balance_reset.
LEMMA SelectBalanceStep ==
  ASSUME IndInv, NEW w \in Workers, SelectBalance(w)
  PROVE  IndInv'
<1> DEFINE u == req[w].user
<1>0. TypeOK BY DEF IndInv
<1>1. /\ pc[w] = "select" /\ pc[w] \in InTxn
      /\ "undo" \in InTxn /\ "zero" \in InTxn /\ "undo" \in PC /\ "zero" \in PC
  BY DEF InTxn, PC, SelectBalance
<1>2. /\ req[w].op = "reset" /\ Repriced(db, disk) /\ db \in Image /\ u \in UserIds
  BY <1>1, AtWorker DEF ControlAt, ProgressAt
<1>3. UNCHANGED <<db, disk, txn, req, price, bounds, posted>> BY DEF SelectBalance
<1>4. CASE u \in db.exists
  <2>1. /\ ReadInt(w, db.balance[u])
        /\ Goto(w, IF val'[w] = 0 THEN "undo" ELSE "zero", 200)
    BY <1>4 DEF SelectBalance
  <2>2. db.balance[u] \in Int BY <1>2 DEF Image
  <2>3. /\ val' \in [Workers -> Int] /\ truncated' \in BOOLEAN
        /\ (truncated => truncated') /\ ValKept(w)
        /\ ~truncated' => val'[w] = db.balance[u]
    BY <2>1, <2>2, ReadTypes
  <2>4. CASE val'[w] # 0
    <3>0. Goto(w, "zero", 200) BY <2>1, <2>4
    <3>1. TypeOK' BY <1>0, <1>1, <1>3, <2>3, <3>0, SelectTypes DEF TypeOK
    <3>2. pc'[w] = "zero" BY <1>0, <3>0 DEF Goto, TypeOK
    <3>3. u \in disk.exists /\ db.balance = disk.balance BY <1>2, <1>4 DEF Repriced
    <3>4. ControlAt(w)' BY <1>2, <1>3, <3>2 DEF ControlAt
    <3>5. LocalAt(w)' BY <1>2, <1>3, <2>3, <2>4, <3>2, <3>3 DEF LocalAt
    <3>6. ProgressAt(w)' BY <1>2, <1>3, <3>2 DEF ProgressAt
    <3>7. QED BY <1>1, <1>3, <2>3, <3>0, <3>1, <3>4, <3>5, <3>6, InsideStep
  <2>5. CASE val'[w] = 0
    <3>0. Goto(w, "undo", 200) BY <2>1, <2>5
    <3>1. TypeOK' BY <1>0, <1>1, <1>3, <2>3, <3>0, SelectTypes DEF TypeOK
    <3>2. QED BY <1>1, <1>2, <1>3, <2>3, <3>0, <3>1, UndoNext
  <2>6. QED BY <2>4, <2>5
<1>5. CASE u \notin db.exists
  <2>1. Goto(w, "undo", 404) /\ UNCHANGED <<val, truncated>> BY <1>5 DEF SelectBalance
  <2>2. TypeOK' BY <1>0, <1>1, <1>3, <2>1, SelectTypes DEF TypeOK
  <2>3. QED BY <1>1, <1>3, <2>1, <2>2, UndoNext DEF ValKept
<1>6. QED BY <1>4, <1>5

\* The upsert of users_lookup and the id it returns.
LEMMA IdentifyStep ==
  ASSUME IndInv, NEW w \in Workers, Identify(w)
  PROVE  IndInv'
<1> DEFINE f == req[w].key
           d == Upsert(db, f)
<1>0. TypeOK BY DEF IndInv
<1>1. /\ pc[w] = "identify" /\ pc[w] \in InTxn
      /\ "undo" \in InTxn /\ "commit" \in InTxn /\ "undo" \in PC /\ "commit" \in PC
  BY DEF InTxn, PC, Identify
<1>2. /\ req[w].op = "lookup" /\ Repriced(db, disk) /\ db \in Image /\ disk \in Image
      /\ f \in Fingerprints
  BY <1>1, AtWorker DEF ControlAt, ProgressAt
<1>3. UNCHANGED <<txn, req, price, bounds, posted>> /\ txn
  BY <1>1, Alone DEF Identify
<1>4. CASE db.seq + 1 \in UserIds
  <2>1. /\ db' = d /\ disk' = disk /\ ReadInt(w, d.owner[f]) /\ Goto(w, "commit", 200)
    BY <1>3, <1>4 DEF Identify, Write
  <2>2. d \in Image BY <1>2, <1>4, UpsertImage
  <2>3. Repriced(d, Upsert(disk, f)) /\ disk.seq + 1 \in UserIds
    BY <1>2, <1>4, StatementsRepriced DEF Repriced
  <2>4. d.owner[f] \in Int
    <3>1. CASE db.owner[f] = NoUser
      BY <1>2, <1>4, <3>1, TablesAssumption DEF Upsert, AddUser, Image
    <3>2. CASE db.owner[f] # NoUser
      <4>1. d.owner = db.owner BY <1>2, <3>2 DEF Upsert, Image
      <4>2. db.owner[f] \in UserIds BY <1>2, <3>2 DEF Image
      <4>3. QED BY <4>1, <4>2, TablesAssumption
    <3>3. QED BY <3>1, <3>2
  <2> HIDE DEF d
  <2>5. /\ val' \in [Workers -> Int] /\ truncated' \in BOOLEAN
        /\ (truncated => truncated') /\ ValKept(w)
        /\ ~truncated' => val'[w] = d.owner[f]
    BY <2>1, <2>4, ReadTypes
  <2>6. TypeOK' BY <1>0, <1>1, <1>3, <2>1, <2>2, <2>5, SelectTypes DEF TypeOK
  <2>7. pc'[w] = "commit" BY <1>0, <2>1 DEF Goto, TypeOK
  <2>8. ControlAt(w)' BY <1>2, <1>3, <2>7 DEF ControlAt
  <2>9. d.owner = Upsert(disk, f).owner BY <2>3 DEF Repriced
  <2>10. LocalAt(w)' BY <1>2, <1>3, <2>1, <2>3, <2>5, <2>7, <2>9 DEF LocalAt
  <2>11. ProgressAt(w)' BY <1>2, <1>3, <2>1, <2>3, <2>7 DEF ProgressAt
  <2>12. QED BY <1>1, <1>3, <2>1, <2>5, <2>6, <2>8, <2>10, <2>11, InsideStep
<1>5. CASE db.seq + 1 \notin UserIds
  <2>1. Goto(w, "undo", 500) /\ UNCHANGED <<db, disk, val, truncated>>
    BY <1>5 DEF Identify
  <2>2. TypeOK' BY <1>0, <1>1, <1>3, <2>1, SelectTypes DEF TypeOK
  <2>3. QED BY <1>1, <1>3, <2>1, <2>2, UndoNext DEF ValKept
<1>6. QED BY <1>4, <1>5

-----------------------------------------------------------------------------
(* Steps outside a transaction.                                            *)

\* A request is taken up, or turned away by its handler.
LEMMA HandleStep ==
  ASSUME IndInv, NEW w \in Workers, NEW r \in Requests, Handle(w, r)
  PROVE  IndInv'
<1> DEFINE l == IF Admission(r) = 200 THEN Entry(r) ELSE "reply"
<1>0. TypeOK BY DEF IndInv
<1>1. r \in Request BY ServicesAssumption
<1>2. Admission(r) \in {200, 400, 401, 403, 500}
  BY <1>1 DEF Request, Admission, handle_post_purchase, handle_post_deposit,
     handle_delete_balance, handle_get_balance, handle_post_restock,
     handle_post_update_price, handle_lookup_user
<1>3. l \in {"begin", "price", "balance", "reply"} BY DEF Entry
<1>4. l \in PC \ InTxn BY <1>3 DEF PC, InTxn
<1>5. /\ pc[w] = "idle" /\ req' = [req EXCEPT ![w] = r]
      /\ Goto(w, l, Admission(r))
      /\ UNCHANGED <<db, disk, txn, price, val, crashes, truncated, posted>>
  BY DEF Handle, Goto
<1>6. served' \in 0..MaxRequests
  BY <1>0, ServicesAssumption DEF Handle, TypeOK
<1>7. TypeOK'
  <2>1. pc' \in [Workers -> PC] BY <1>0, <1>4, <1>5 DEF TypeOK, Goto
  <2>2. status' \in [Workers -> {200, 400, 401, 403, 404, 500}]
    BY <1>0, <1>2, <1>5 DEF TypeOK, Goto
  <2>3. req' \in [Workers -> Request] BY <1>0, <1>1, <1>5 DEF TypeOK
  <2>4. QED BY <1>0, <1>5, <1>6, <2>1, <2>2, <2>3 DEF TypeOK
<1>8. pc'[w] = l /\ req'[w] = r BY <1>0, <1>5 DEF TypeOK, Goto
<1>9. ControlAt(w)'
  <2>1. CASE Admission(r) # 200 BY <1>8, <2>1 DEF ControlAt
  <2>2. CASE Admission(r) = 200
    <3>1. r.op \in {"deposit", "restock", "price"} => r.n \in Amounts
      <4>1. r.n \in Amounts \cup {0} BY <1>1 DEF Request
      <4>2. r.op = "deposit" => r.n # 0 BY <2>2 DEF Admission, handle_post_deposit
      <4>3. r.op = "restock" => r.n # 0 BY <2>2 DEF Admission, handle_post_restock
      <4>4. r.op = "price" => r.n # 0 BY <2>2 DEF Admission, handle_post_update_price
      <4>5. QED BY <4>1, <4>2, <4>3, <4>4
    <3>2. l = Entry(r) BY <2>2
    <3>3. QED BY <1>1, <1>8, <3>1, <3>2 DEF ControlAt, Entry, Request
  <2>3. QED BY <2>1, <2>2
<1>10. \A v \in Workers \ {w} :
         val'[v] = val[v] /\ req'[v] = req[v] /\ price'[v] = price[v]
  BY <1>0, <1>5 DEF TypeOK
<1>11. pc[w] \notin InTxn BY <1>5 DEF InTxn
<1>12. l = "reply" => Admission(r) # 200 BY DEF Entry
<1> HIDE DEF l
<1>13. QED BY <1>4, <1>5, <1>7, <1>9, <1>10, <1>11, <1>12, OutsideStep

\* The choice of an idle worker's request is one of the requests.
LEMMA NoRequestType == NoRequest \in Request
  BY ServicesAssumption DEF NoRequest

\* The answer is sent.
LEMMA ReplyStep ==
  ASSUME IndInv, NEW w \in Workers, Reply(w)
  PROVE  IndInv'
<1>0. TypeOK BY DEF IndInv
<1>1. "idle" \in PC \ InTxn /\ pc[w] \notin InTxn BY DEF PC, InTxn, Reply
<1>2. /\ Goto(w, "idle", 200) /\ req' = [req EXCEPT ![w] = NoRequest]
      /\ price' = [price EXCEPT ![w] = 0] /\ val' = [val EXCEPT ![w] = 0]
      /\ UNCHANGED <<db, disk, txn, served, crashes, truncated, posted>>
  BY DEF Reply, Goto, bounds
<1>3. TypeOK'
  <2>1. pc' \in [Workers -> PC] BY <1>0, <1>1, <1>2 DEF TypeOK, Goto
  <2>2. status' \in [Workers -> {200, 400, 401, 403, 404, 500}]
    BY <1>0, <1>2 DEF TypeOK, Goto
  <2>3. req' \in [Workers -> Request] BY <1>0, <1>2, NoRequestType DEF TypeOK
  <2>4. price' \in [Workers -> Amounts \cup {0}] /\ val' \in [Workers -> Int]
    BY <1>0, <1>2 DEF TypeOK
  <2>5. QED BY <1>0, <1>2, <2>1, <2>2, <2>3, <2>4 DEF TypeOK
<1>4. pc'[w] = "idle" BY <1>0, <1>2 DEF TypeOK, Goto
<1>5. ControlAt(w)' BY <1>4 DEF ControlAt
<1>6. \A v \in Workers \ {w} :
        val'[v] = val[v] /\ req'[v] = req[v] /\ price'[v] = price[v]
  BY <1>0, <1>2 DEF TypeOK
<1>7. QED BY <1>1, <1>2, <1>3, <1>5, <1>6, OutsideStep

\* balance_get.
LEMMA GetBalanceStep ==
  ASSUME IndInv, NEW w \in Workers, GetBalance(w)
  PROVE  IndInv'
<1> DEFINE u == req[w].user
<1>0. TypeOK BY DEF IndInv
<1>1. "reply" \in PC \ InTxn /\ pc[w] = "balance" /\ pc[w] \notin InTxn
  BY DEF PC, InTxn, GetBalance
<1>2. req[w].op = "balance" BY <1>1, AtWorker DEF ControlAt
<1>3. UNCHANGED <<db, disk, txn, req, price, bounds, posted>> BY DEF GetBalance
<1>4. /\ val' \in [Workers -> Int] /\ truncated' \in BOOLEAN
      /\ (truncated => truncated') /\ ValKept(w)
  <2>1. CASE u \in db.exists
    <3>1. db.balance[u] \in Int BY AtWorker
    <3>2. ReadInt(w, db.balance[u]) BY <2>1 DEF GetBalance
    <3>3. QED BY <3>1, <3>2, ReadTypes
  <2>2. CASE u \notin db.exists BY <1>0, <2>2 DEF GetBalance, TypeOK, ValKept
  <2>3. QED BY <2>1, <2>2
<1>5. PICK code \in {200, 404, 500} : Goto(w, "reply", code) BY DEF GetBalance
<1>6. TypeOK' BY <1>0, <1>1, <1>3, <1>4, <1>5, SelectTypes DEF TypeOK
<1>7. pc'[w] = "reply" BY <1>0, <1>5 DEF TypeOK, Goto
<1>8. ControlAt(w)' BY <1>7 DEF ControlAt
<1>9. \A v \in Workers \ {w} :
        val'[v] = val[v] /\ req'[v] = req[v] /\ price'[v] = price[v]
  BY <1>3, <1>4 DEF ValKept
<1>10. req'[w].op # "lookup" BY <1>2, <1>3
<1>11. QED BY <1>1, <1>3, <1>4, <1>5, <1>6, <1>8, <1>9, <1>10, OutsideStep

-----------------------------------------------------------------------------
(* Steps that open or end a transaction.                                   *)

\* BEGIN: refused inside anybody's transaction, otherwise the worker is the
\* only one inside.
LEMMA BeginStep ==
  ASSUME IndInv, NEW w \in Workers, Begin(w)
  PROVE  IndInv'
<1> DEFINE l == FirstCall[req[w].op]
<1>0. TypeOK BY DEF IndInv
<1>1. /\ pc[w] = "begin" /\ pc[w] \notin InTxn /\ txn' = TRUE
      /\ UNCHANGED <<db, disk, req, price, val, served, crashes, truncated, posted>>
      /\ ValKept(w)
  BY DEF Begin, InTxn, bounds, ValKept
<1>2. ControlAt(w) /\ req[w].op \in {"purchase", "deposit", "reset", "restock", "lookup"}
  BY <1>1, AtWorker DEF ControlAt
<1>3. CASE txn
  <2>0. UNCHANGED <<db, disk, txn>> BY <1>0, <1>1, <1>3 DEF TypeOK
  <2>1. Goto(w, "reply", 500) BY <1>3 DEF Begin
  <2>2. "reply" \in PC \ InTxn BY DEF PC, InTxn
  <2>3. TypeOK' BY <1>0, <1>1, <2>1, <2>2, SelectTypes DEF TypeOK, bounds
  <2>4. pc'[w] = "reply" BY <1>0, <2>1 DEF TypeOK, Goto
  <2>5. ControlAt(w)' BY <2>4 DEF ControlAt
  <2>6. QED BY <1>1, <2>0, <2>1, <2>2, <2>3, <2>5, OutsideStep
<1>4. CASE ~txn
  <2>1. l \in {"item", "upsert", "select", "restock", "identify"} /\ l \in PC \ {"reply"}
    BY <1>2 DEF FirstCall, PC, InTxn
  <2>2. Goto(w, l, 200) BY <1>4 DEF Begin
  <2>3. TypeOK' 
    <3>1. pc' \in [Workers -> PC] BY <1>0, <2>1, <2>2 DEF TypeOK, Goto
    <3>2. status' \in [Workers -> {200, 400, 401, 403, 404, 500}]
      BY <1>0, <2>2 DEF TypeOK, Goto
    <3>3. txn' \in BOOLEAN BY DEF Begin
    <3>4. QED BY <1>0, <1>1, <3>1, <3>2, <3>3 DEF TypeOK
  <2>4. /\ pc'[w] = l
        /\ \A v \in Workers \ {w} : pc'[v] = pc[v] /\ status'[v] = status[v]
    BY <1>0, <2>2 DEF TypeOK, Goto
  <2>5. \A v \in Workers : pc[v] \notin InTxn BY <1>4 DEF IndInv, TxnHeld
  <2>6. TxnHeld'
    <3>1. l \in InTxn BY <2>1 DEF InTxn
    <3>2. QED BY <1>1, <2>4, <2>5, <3>1 DEF TxnHeld
  <2>7. ControlInv'
    <3> SUFFICES ASSUME NEW v \in Workers PROVE ControlAt(v)' BY DEF ControlInv
    <3>1. CASE v = w
      BY <1>1, <1>2, <2>1, <2>4, <3>1 DEF ControlAt, FirstCall
    <3>2. CASE v # w
      <4>1. ControlAt(v) BY DEF IndInv, ControlInv
      <4>2. QED BY <1>1, <2>4, <3>2, <4>1 DEF ControlAt
    <3>3. QED BY <3>1, <3>2
  <2>8. LocalInv'
    <3> SUFFICES ASSUME NEW v \in Workers PROVE LocalAt(v)' BY DEF LocalInv
    <3>1. CASE v = w BY <2>1, <2>4, <3>1 DEF LocalAt
    <3>2. CASE v # w BY <2>4, <2>5, <3>2 DEF LocalAt, InTxn
    <3>3. QED BY <3>1, <3>2
  <2>9. ProgressInv'
    <3> SUFFICES ASSUME NEW v \in Workers PROVE ProgressAt(v)' BY DEF ProgressInv
    <3>1. Repriced(db, disk)' BY <1>1, <1>4 DEF IndInv, QuietInv, Repriced
    <3>2. CASE v = w BY <2>1, <2>4, <3>1, <3>2 DEF ProgressAt
    <3>3. CASE v # w BY <2>4, <2>5, <3>3 DEF ProgressAt, InTxn
    <3>4. QED BY <3>2, <3>3
  <2>10. QuietInv' BY <1>1 DEF QuietInv
  <2>11. MoneyConserved' /\ StockConserved' /\ KeysApart'
    BY <1>1 DEF IndInv, MoneyConserved, StockConserved, KeysApart
  <2>12. LookupAnswer' BY <1>1, <2>1, <2>4 DEF IndInv, LookupAnswer, Identified
  <2>13. QED BY <2>3, <2>6, <2>7, <2>8, <2>9, <2>10, <2>11, <2>12 DEF IndInv
<1>5. QED BY <1>3, <1>4

\* The end of a transaction by COMMIT or ROLLBACK: nobody is inside one any
\* more and the connection sees what is committed.
LEMMA TxnEnds ==
  ASSUME IndInv, NEW w \in Workers, NEW code, pc[w] \in InTxn,
         Goto(w, "reply", code), txn' = FALSE, db' = disk',
         UNCHANGED <<req, price, val, truncated>>, TypeOK',
         MoneyConserved', StockConserved', KeysApart', LookupAnswer'
  PROVE  IndInv'
<1>1. /\ pc'[w] = "reply" /\ status'[w] = code
      /\ \A v \in Workers \ {w} : pc'[v] = pc[v] /\ status'[v] = status[v]
  BY DEF IndInv, TypeOK, Goto
<1>2. \A v \in Workers : pc'[v] \notin InTxn BY <1>1, Alone DEF InTxn
<1>3. TxnHeld' BY <1>2 DEF TxnHeld
<1>4. ControlInv'
  <2> SUFFICES ASSUME NEW v \in Workers PROVE ControlAt(v)' BY DEF ControlInv
  <2>1. CASE v = w BY <1>1, <2>1 DEF ControlAt
  <2>2. CASE v # w
    <3>1. ControlAt(v) BY DEF IndInv, ControlInv
    <3>2. QED BY <1>1, <2>2, <3>1 DEF ControlAt
  <2>3. QED BY <2>1, <2>2
<1>5. LocalInv'
  <2> SUFFICES ASSUME NEW v \in Workers PROVE LocalAt(v)' BY DEF LocalInv
  <2>1. QED BY <1>2 DEF LocalAt, InTxn
<1>6. ProgressInv'
  <2> SUFFICES ASSUME NEW v \in Workers PROVE ProgressAt(v)' BY DEF ProgressInv
  <2>1. QED BY <1>2 DEF ProgressAt, InTxn
<1>7. QuietInv' BY DEF QuietInv
<1>8. QED BY <1>3, <1>4, <1>5, <1>6, <1>7 DEF IndInv

\* ROLLBACK.
LEMMA UndoStep ==
  ASSUME IndInv, NEW w \in Workers, Undo(w)
  PROVE  IndInv'
<1>0. TypeOK BY DEF IndInv
<1>1. pc[w] = "undo" /\ pc[w] \in InTxn BY DEF Undo, InTxn
<1>2. /\ txn' = FALSE /\ db' = disk /\ disk' = disk /\ Goto(w, "reply", status[w])
      /\ UNCHANGED <<req, price, val, served, crashes, truncated, posted>>
  BY <1>1, Alone DEF Undo, bounds
<1>3. TypeOK'
  <2>1. pc' \in [Workers -> PC] BY <1>0, <1>2 DEF TypeOK, Goto, PC
  <2>2. status' \in [Workers -> {200, 400, 401, 403, 404, 500}]
    BY <1>0, <1>2 DEF TypeOK, Goto
  <2>3. QED BY <1>0, <1>2, <2>1, <2>2 DEF TypeOK
<1>4. MoneyConserved' /\ StockConserved' /\ KeysApart'
  BY <1>2 DEF IndInv, MoneyConserved, StockConserved, KeysApart
<1>5. LookupAnswer'
  <2>1. req[w].op = "lookup" => status[w] # 200 BY <1>1, AtWorker DEF ControlAt
  <2>2. /\ pc'[w] = "reply" /\ status'[w] = status[w]
        /\ \A v \in Workers \ {w} : pc'[v] = pc[v] /\ status'[v] = status[v]
    BY <1>0, <1>2 DEF TypeOK, Goto
  <2>3. QED BY <1>2, <2>1, <2>2 DEF IndInv, LookupAnswer, Identified
<1>6. QED BY <1>1, <1>2, <1>3, <1>4, <1>5, TxnEnds

\* A call that fails without effect.
LEMMA FaultStep ==
  ASSUME IndInv, NEW w \in Workers, Fault(w), "rollback" \notin Faults
  PROVE  IndInv'
<1> DEFINE l == IF pc[w] \in InTxn THEN "undo" ELSE "reply"
<1>0. TypeOK BY DEF IndInv
<1>1. /\ Goto(w, l, 500)
      /\ UNCHANGED <<db, disk, txn, req, price, val, served, crashes, truncated, posted>>
      /\ ValKept(w)
  BY DEF Fault, RollsBack, bounds, ValKept
<1>2. "undo" \in PC /\ "reply" \in PC /\ "reply" \notin InTxn BY DEF PC, InTxn
<1>3. TypeOK' BY <1>0, <1>1, <1>2, SelectTypes DEF TypeOK, bounds
<1>4. CASE pc[w] \in InTxn BY <1>1, <1>3, <1>4, UndoNext
<1>5. CASE pc[w] \notin InTxn
  <2>1. pc'[w] = "reply" BY <1>0, <1>1, <1>5 DEF TypeOK, Goto
  <2>2. ControlAt(w)' BY <2>1 DEF ControlAt
  <2>3. QED BY <1>1, <1>2, <1>3, <1>5, <2>2, OutsideStep
<1>6. QED BY <1>4, <1>5

\* A ROLLBACK that fails: the transaction stays open with nobody inside it.
LEMMA UndoFailsStep ==
  ASSUME IndInv, NEW w \in Workers, UndoFails(w)
  PROVE  IndInv'
<1>0. TypeOK BY DEF IndInv
<1>1. /\ pc[w] = "undo" /\ Goto(w, "reply", status[w])
      /\ UNCHANGED <<db, disk, txn, req, price, val, served, crashes, truncated, posted>>
  BY DEF UndoFails, bounds
<1>2. "reply" \in PC \ InTxn BY DEF PC, InTxn
<1>3. TypeOK'
  <2>1. pc' \in [Workers -> PC] BY <1>0, <1>1, <1>2 DEF TypeOK, Goto
  <2>2. status' \in [Workers -> {200, 400, 401, 403, 404, 500}]
    BY <1>0, <1>1 DEF TypeOK, Goto
  <2>3. QED BY <1>0, <1>1, <2>1, <2>2 DEF TypeOK
<1>4. pc'[w] = "reply" BY <1>0, <1>1 DEF TypeOK, Goto
<1>5. ControlAt(w)' BY <1>4 DEF ControlAt
<1>6. req[w].op = "lookup" => status[w] # 200 BY <1>1, AtWorker DEF ControlAt
<1>7. QED BY <1>1, <1>2, <1>3, <1>5, <1>6, OutsideStep

\* A crash and the restart.
LEMMA CrashStep ==
  ASSUME IndInv, Crash
  PROVE  IndInv'
<1>0. TypeOK BY DEF IndInv
<1>1. /\ \A w \in Workers : pc'[w] = "idle" 
      /\ db' = disk /\ disk' = disk /\ txn' = FALSE /\ UNCHANGED <<served, truncated, posted>>
  BY DEF Crash
<1>2. TypeOK'
  <2>1. pc' \in [Workers -> PC] BY DEF Crash, PC
  <2>2. req' \in [Workers -> Request] BY NoRequestType DEF Crash
  <2>3. /\ price' \in [Workers -> Amounts \cup {0}] /\ val' \in [Workers -> Int]
        /\ status' \in [Workers -> {200, 400, 401, 403, 404, 500}]
    BY DEF Crash
  <2>4. crashes' \in 0..MaxCrashes BY <1>0, ServicesAssumption DEF Crash, TypeOK
  <2>5. QED BY <1>0, <1>1, <2>1, <2>2, <2>3, <2>4 DEF TypeOK
<1>3. \A w \in Workers : pc'[w] \notin InTxn BY <1>1 DEF InTxn
<1>4. TxnHeld' BY <1>1, <1>3 DEF TxnHeld
<1>5. ControlInv' BY <1>1 DEF ControlInv, ControlAt
<1>6. LocalInv' BY <1>1 DEF LocalInv, LocalAt
<1>7. ProgressInv' BY <1>1 DEF ProgressInv, ProgressAt
<1>8. QuietInv' BY <1>1 DEF QuietInv
<1>9. MoneyConserved' /\ StockConserved' /\ KeysApart'
  BY <1>1 DEF IndInv, MoneyConserved, StockConserved, KeysApart
<1>10. LookupAnswer' BY <1>1 DEF LookupAnswer, Identified
<1>11. QED BY <1>2, <1>4, <1>5, <1>6, <1>7, <1>8, <1>9, <1>10 DEF IndInv

-----------------------------------------------------------------------------
(* Steps that change the committed image.                                  *)

\* What the committed image must satisfy, as predicates of an image.
Books(d) == \A u \in UserIds : d.balance[u] = d.ledger[u]
Shelf(d) == \A s \in Slots : d.qty[s] = d.slog[ItemOf[s]]
Keys(d) ==
  /\ \A f, g \in Fingerprints :
       d.owner[f] # NoUser /\ d.owner[f] = d.owner[g] => f = g
  /\ \A f \in Fingerprints : d.owner[f] # NoUser => d.owner[f] \in d.exists
  /\ \A u \in d.exists : u <= d.seq

\* The keys of d keep their users in e, and a new one gets a new user.
KeysGrow(d, e) ==
  \A f \in Fingerprints :
    e.owner[f] # d.owner[f] => d.owner[f] = NoUser /\ e.owner[f] \notin d.exists

\* The predicates do not look at prices.
LEMMA RepricedKeeps ==
  ASSUME NEW d, NEW e, Repriced(d, e)
  PROVE  /\ Books(e) => Books(d)
         /\ Shelf(e) => Shelf(d)
         /\ Keys(e) => Keys(d)
         /\ \A c : KeysGrow(c, e) => KeysGrow(c, d)
  BY DEF Repriced, Books, Shelf, Keys, KeysGrow

\* A whole sale moves money and goods together with their records.
LEMMA SaleKeeps ==
  ASSUME NEW d \in Image, NEW u \in UserIds, NEW s \in Slots, NEW p \in Nat
  PROVE  LET e == LogStock(LogCash(Dispense(Debit(d, u, p), s), u, -p), s, -1) IN
         /\ Books(d) => Books(e)
         /\ Shelf(d) => Shelf(e)
         /\ Keys(d) => Keys(e)
         /\ KeysGrow(d, e)
<1> DEFINE e == LogStock(LogCash(Dispense(Debit(d, u, p), s), u, -p), s, -1)
<1>1. /\ e.exists = d.exists /\ e.owner = d.owner /\ e.seq = d.seq
      /\ e.balance = [d.balance EXCEPT ![u] = @ - p]
      /\ e.ledger = [d.ledger EXCEPT ![u] = @ + (-p)]
      /\ e.qty = [d.qty EXCEPT ![s] = @ - 1]
      /\ e.slog = [d.slog EXCEPT ![ItemOf[s]] = @ + (-1)]
  BY DEF Debit, Dispense, LogCash, LogStock, Image
<1> HIDE DEF e
<1>2. /\ d.balance \in [UserIds -> Nat] /\ d.ledger \in [UserIds -> Int]
      /\ d.qty \in [Slots -> Nat] /\ d.slog \in [Items -> Int]
  BY DEF Image
<1>3. Books(d) => Books(e) BY <1>1, <1>2 DEF Books
<1>4. Shelf(d) => Shelf(e) BY <1>1, <1>2, TablesAssumption DEF Shelf
<1>5. (Keys(d) => Keys(e)) /\ KeysGrow(d, e) BY <1>1 DEF Keys, KeysGrow
<1>6. QED BY <1>3, <1>4, <1>5 DEF e

\* So does a whole deposit; the row it may create is nobody's.
LEMMA DepositKeeps ==
  ASSUME NEW d \in Image, NEW u \in UserIds, NEW a \in Nat
  PROVE  LET e == LogCash(Credit(d, u, a), u, a) IN
         /\ Books(d) => Books(e)
         /\ Shelf(d) => Shelf(e)
         /\ Keys(d) => Keys(e)
         /\ KeysGrow(d, e)
<1> DEFINE e == LogCash(Credit(d, u, a), u, a)
<1>1. /\ e.exists = d.exists \cup {u} /\ e.owner = d.owner
      /\ e.seq = IF u > d.seq THEN u ELSE d.seq
      /\ e.balance = [d.balance EXCEPT ![u] = @ + a]
      /\ e.ledger = [d.ledger EXCEPT ![u] = @ + a]
      /\ e.qty = d.qty /\ e.slog = d.slog
  BY DEF Credit, AddUser, LogCash, Image
<1> HIDE DEF e
<1>2. /\ d.balance \in [UserIds -> Nat] /\ d.ledger \in [UserIds -> Int]
      /\ d.exists \subseteq Int /\ d.seq \in Nat /\ u \in Int
  BY TablesAssumption DEF Image
<1>3. Books(d) => Books(e) BY <1>1, <1>2 DEF Books
<1>4. Shelf(d) => Shelf(e) BY <1>1 DEF Shelf
<1>5. Keys(d) => Keys(e)
  <2> SUFFICES ASSUME Keys(d) PROVE Keys(e) OBVIOUS
  <2>1. \A f \in Fingerprints : e.owner[f] # NoUser => e.owner[f] \in e.exists
    BY <1>1 DEF Keys
  <2>2. \A v \in e.exists : v <= e.seq BY <1>1, <1>2 DEF Keys
  <2>3. QED BY <1>1, <2>1, <2>2 DEF Keys
<1>6. KeysGrow(d, e) BY <1>1 DEF KeysGrow
<1>7. QED BY <1>3, <1>4, <1>5, <1>6 DEF e

\* So does a refund, as far as it is of the whole balance.
LEMMA RefundKeeps ==
  ASSUME NEW d \in Image, NEW u \in UserIds, NEW a \in Int
  PROVE  LET e == LogCash(Zero(d, u), u, a) IN
         /\ a = -d.balance[u] /\ Books(d) => Books(e)
         /\ Shelf(d) => Shelf(e)
         /\ Keys(d) => Keys(e)
         /\ KeysGrow(d, e)
<1> DEFINE e == LogCash(Zero(d, u), u, a)
<1>1. /\ e.exists = d.exists /\ e.owner = d.owner /\ e.seq = d.seq
      /\ e.balance = [d.balance EXCEPT ![u] = 0]
      /\ e.ledger = [d.ledger EXCEPT ![u] = @ + a]
      /\ e.qty = d.qty /\ e.slog = d.slog
  BY DEF Zero, LogCash, Image
<1> HIDE DEF e
<1>2. d.balance \in [UserIds -> Nat] /\ d.ledger \in [UserIds -> Int] BY DEF Image
<1>3. a = -d.balance[u] /\ Books(d) => Books(e)
  <2> SUFFICES ASSUME a = -d.balance[u], Books(d), NEW v \in UserIds
               PROVE  e.balance[v] = e.ledger[v]
    BY DEF Books
  <2>1. d.balance[v] = d.ledger[v] /\ d.balance[u] = d.ledger[u] BY DEF Books
  <2>2. CASE v = u
    <3>1. d.ledger[u] + a = 0 BY <1>2, <2>1
    <3>2. QED BY <1>1, <1>2, <2>2, <3>1
  <2>3. CASE v # u BY <1>1, <1>2, <2>1, <2>3
  <2>4. QED BY <2>2, <2>3
<1>4. Shelf(d) => Shelf(e) BY <1>1 DEF Shelf
<1>5. (Keys(d) => Keys(e)) /\ KeysGrow(d, e) BY <1>1 DEF Keys, KeysGrow
<1>6. QED BY <1>3, <1>4, <1>5 DEF e

\* So does a restock.
LEMMA RestockKeeps ==
  ASSUME NEW d \in Image, NEW s \in Slots, NEW q \in Nat
  PROVE  LET e == LogStock(Refill(d, s, q), s, q) IN
         /\ Books(d) => Books(e)
         /\ Shelf(d) => Shelf(e)
         /\ Keys(d) => Keys(e)
         /\ KeysGrow(d, e)
<1> DEFINE e == LogStock(Refill(d, s, q), s, q)
<1>1. /\ e.exists = d.exists /\ e.owner = d.owner /\ e.seq = d.seq
      /\ e.balance = d.balance /\ e.ledger = d.ledger
      /\ e.qty = [d.qty EXCEPT ![s] = @ + q]
      /\ e.slog = [d.slog EXCEPT ![ItemOf[s]] = @ + q]
  BY DEF Refill, LogStock, Image
<1> HIDE DEF e
<1>2. d.qty \in [Slots -> Nat] /\ d.slog \in [Items -> Int] BY DEF Image
<1>3. Books(d) => Books(e) BY <1>1 DEF Books
<1>4. Shelf(d) => Shelf(e) BY <1>1, <1>2, TablesAssumption DEF Shelf
<1>5. (Keys(d) => Keys(e)) /\ KeysGrow(d, e) BY <1>1 DEF Keys, KeysGrow
<1>6. QED BY <1>3, <1>4, <1>5 DEF e

\* A lookup gives a new key a user whose id nobody has, because every id in
\* use is at most the sequence.
LEMMA LookupKeeps ==
  ASSUME NEW d \in Image, NEW f \in Fingerprints, d.seq + 1 \in UserIds
  PROVE  LET e == Upsert(d, f) IN
         /\ Books(d) => Books(e)
         /\ Shelf(d) => Shelf(e)
         /\ Keys(d) => Keys(e) /\ KeysGrow(d, e)
         /\ e.owner[f] # NoUser
<1> DEFINE e == Upsert(d, f)
           n == d.seq + 1
<1>1. e.balance = d.balance /\ e.ledger = d.ledger /\ e.qty = d.qty /\ e.slog = d.slog
  BY DEF Upsert, AddUser, Image
<1>2. (Books(d) => Books(e)) /\ (Shelf(d) => Shelf(e)) BY <1>1 DEF Books, Shelf
<1>3. /\ d.owner \in [Fingerprints -> UserIds \cup {NoUser}] /\ NoUser \notin UserIds
      /\ d.exists \subseteq Int /\ d.seq \in Nat
  BY TablesAssumption DEF Image
<1>4. CASE d.owner[f] = NoUser
  <2>1. /\ e.owner = [d.owner EXCEPT ![f] = n] /\ e.exists = d.exists \cup {n}
        /\ e.seq = n
    BY <1>3, <1>4 DEF Upsert, AddUser, Image
  <2> HIDE DEF e
  <2>2. ASSUME Keys(d) PROVE n \notin d.exists BY <1>3, <2>2 DEF Keys
  <2>3. Keys(d) => Keys(e)
    <3> SUFFICES ASSUME Keys(d) PROVE Keys(e) OBVIOUS
    <3>1. \A g \in Fingerprints : e.owner[g] # NoUser => e.owner[g] \in e.exists
      BY <1>3, <2>1 DEF Keys
    <3>2. \A v \in e.exists : v <= e.seq BY <1>3, <2>1 DEF Keys
    <3>3. ASSUME NEW g \in Fingerprints, NEW h \in Fingerprints,
                 e.owner[g] # NoUser, e.owner[g] = e.owner[h]
          PROVE  g = h
      BY <1>3, <2>1, <2>2, <3>3 DEF Keys
    <3>4. QED BY <3>1, <3>2, <3>3 DEF Keys
  <2>4. Keys(d) => KeysGrow(d, e) BY <1>3, <1>4, <2>1, <2>2 DEF KeysGrow
  <2>5. e.owner[f] # NoUser BY <1>3, <2>1
  <2>6. QED BY <1>2, <2>3, <2>4, <2>5 DEF e
<1>5. CASE d.owner[f] # NoUser
  <2>1. e.owner = d.owner /\ e.exists = d.exists /\ e.seq = n
    BY <1>5 DEF Upsert, Image
  <2> HIDE DEF e
  <2>2. Keys(d) => Keys(e) BY <1>3, <2>1 DEF Keys
  <2>3. KeysGrow(d, e) BY <2>1 DEF KeysGrow
  <2>4. QED BY <1>2, <1>5, <2>1, <2>2, <2>3 DEF e
<1>6. QED BY <1>4, <1>5

\* When a worker is about to COMMIT, the image it commits keeps the books, the
\* shelf and the keys, and holds the user it will answer.
LEMMA AtCommit ==
  ASSUME IndInv, NEW w \in Workers, pc[w] = "commit"
  PROVE  /\ ~truncated => Books(db)
         /\ Shelf(db) /\ Keys(db) /\ KeysGrow(disk, db)
         /\ req[w].op = "lookup"
              => LET k == db.owner[req[w].key] IN k # NoUser /\ (~truncated => val[w] = k)
<1> DEFINE u == req[w].user
           s == req[w].slot
           n == req[w].n
           p == price[w]
           f == req[w].key
<1>1. (~truncated => Books(disk)) /\ Shelf(disk) /\ Keys(disk)
  BY DEF IndInv, MoneyConserved, StockConserved, KeysApart, Books, Shelf, Keys
<1>2. /\ disk \in Image /\ u \in UserIds /\ f \in Fingerprints /\ n \in Nat
      /\ p \in Nat /\ val[w] \in Int /\ Neg(val[w]) \in Int
  BY AtWorker, IntTypes
<1>3. ControlAt(w) /\ LocalAt(w) /\ ProgressAt(w) BY AtWorker
<1>4. req[w].op \in {"purchase", "deposit", "reset", "restock", "lookup"}
  BY <1>3 DEF ControlAt
<1>5. CASE req[w].op = "purchase"
  <2>1. /\ s \in Slots
        /\ Repriced(db, LogStock(LogCash(Dispense(Debit(disk, u, p), s), u, -p), s, -1))
    BY <1>3, <1>5 DEF LocalAt, ProgressAt
  <2>2. QED BY <1>1, <1>2, <1>5, <2>1, SaleKeeps, RepricedKeeps
<1>6. CASE req[w].op = "deposit"
  <2>1. Repriced(db, LogCash(Credit(disk, u, n), u, n)) BY <1>3, <1>6 DEF ProgressAt
  <2>2. QED BY <1>1, <1>2, <1>6, <2>1, DepositKeeps, RepricedKeeps
<1>7. CASE req[w].op = "reset"
  <2>1. /\ Repriced(db, LogCash(Zero(disk, u), u, Neg(val[w])))
        /\ ~truncated => val[w] = disk.balance[u]
    BY <1>3, <1>7 DEF LocalAt, ProgressAt
  <2>2. ~truncated => Neg(val[w]) = -disk.balance[u]
    <3>1. disk.balance[u] \in Nat BY <1>2 DEF Image
    <3>2. QED BY <2>1, <3>1, ServicesAssumption DEF Neg
  <2>3. QED BY <1>1, <1>2, <1>7, <2>1, <2>2, RefundKeeps, RepricedKeeps
<1>8. CASE req[w].op = "restock"
  <2>1. s \in Slots /\ Repriced(db, LogStock(Refill(disk, s, n), s, n))
    BY <1>3, <1>8 DEF LocalAt, ProgressAt
  <2>2. QED BY <1>1, <1>2, <1>8, <2>1, RestockKeeps, RepricedKeeps
<1>9. CASE req[w].op = "lookup"
  <2>1. /\ Repriced(db, Upsert(disk, f)) /\ disk.seq + 1 \in UserIds
        /\ ~truncated => val[w] = Upsert(disk, f).owner[f]
    BY <1>3, <1>9 DEF LocalAt, ProgressAt
  <2>2. db.owner = Upsert(disk, f).owner BY <2>1 DEF Repriced
  <2>3. QED BY <1>1, <1>2, <2>1, <2>2, LookupKeeps, RepricedKeeps
<1>10. QED BY <1>4, <1>5, <1>6, <1>7, <1>8, <1>9

\* COMMIT.
LEMMA CommitStep ==
  ASSUME IndInv, NEW w \in Workers, Commit(w)
  PROVE  IndInv'
<1>0. TypeOK BY DEF IndInv
<1>1. pc[w] = "commit" /\ pc[w] \in InTxn BY DEF Commit, InTxn
<1>2. /\ txn' = FALSE /\ db' = db /\ disk' = db /\ Goto(w, "reply", 200)
      /\ UNCHANGED <<req, price, val, served, crashes, truncated, posted>>
  BY <1>1, Alone DEF Commit, bounds
<1>3. TypeOK'
  <2>1. pc' \in [Workers -> PC] BY <1>0, <1>2 DEF TypeOK, Goto, PC
  <2>2. status' \in [Workers -> {200, 400, 401, 403, 404, 500}]
    BY <1>0, <1>2 DEF TypeOK, Goto
  <2>3. QED BY <1>0, <1>2, <2>1, <2>2 DEF TypeOK
<1>4. /\ ~truncated => Books(db)
      /\ Shelf(db) /\ Keys(db) /\ KeysGrow(disk, db)
      /\ req[w].op = "lookup"
           => LET k == db.owner[req[w].key] IN k # NoUser /\ (~truncated => val[w] = k)
  BY <1>1, AtCommit
<1>5. MoneyConserved' BY <1>2, <1>4 DEF MoneyConserved, Books
<1>6. StockConserved' BY <1>2, <1>4 DEF StockConserved, Shelf
<1>7. KeysApart' BY <1>2, <1>4 DEF KeysApart, Keys
<1>8. LookupAnswer'
  <2>1. /\ pc'[w] = "reply" /\ status'[w] = 200
        /\ \A v \in Workers \ {w} : pc'[v] = pc[v] /\ status'[v] = status[v]
    BY <1>0, <1>2 DEF TypeOK, Goto
  <2>2. \A v \in Workers : req[v].key \in Fingerprints BY AtWorker
  <2>3. \A k \in Fingerprints : disk.owner[k] # NoUser => db.owner[k] = disk.owner[k]
    BY <1>4 DEF KeysGrow
  <2>4. QED BY <1>2, <1>4, <2>1, <2>2, <2>3 DEF IndInv, LookupAnswer, Identified
<1>9. QED BY <1>1, <1>2, <1>3, <1>5, <1>6, <1>7, <1>8, TxnEnds

\* The price update: into another worker's transaction, or committed at once.
LEMMA UpdatePriceStep ==
  ASSUME IndInv, NEW w \in Workers, UpdatePrice(w)
  PROVE  IndInv'
<1> DEFINE r == req[w]
           d == IF r.item \in Items THEN SetPrice(db, r.item, r.n) ELSE db
<1>0. TypeOK BY DEF IndInv
<1>1. /\ pc[w] = "price" /\ pc[w] \notin InTxn /\ Write(d) /\ Goto(w, "reply", 200)
      /\ posted' = IF r.item \in Items THEN [posted EXCEPT ![r.item] = r.n] ELSE posted
      /\ UNCHANGED <<txn, req, price, val, served, crashes, truncated>>
  BY DEF UpdatePrice, InTxn, bounds
<1>2. r.op = "price" /\ r.n \in Amounts /\ db \in Image /\ disk \in Image
  BY <1>1, AtWorker DEF ControlAt
<1>3. d \in Image /\ Repriced(d, db)
  BY <1>2, SetPriceImage DEF SetPrice, Repriced, Image
<1> HIDE DEF d
<1>4. db' = d /\ disk' = IF txn THEN disk ELSE d BY <1>1 DEF Write
<1>5. Repriced(disk', disk)
  BY <1>3, <1>4 DEF IndInv, QuietInv, Repriced
<1>6. TypeOK'
  <2>1. pc' \in [Workers -> PC] BY <1>0, <1>1 DEF TypeOK, Goto, PC
  <2>2. status' \in [Workers -> {200, 400, 401, 403, 404, 500}]
    BY <1>0, <1>1 DEF TypeOK, Goto
  <2>3. posted' \in [Items -> Amounts] BY <1>0, <1>1, <1>2 DEF TypeOK
  <2>4. disk' \in Image BY <1>2, <1>3, <1>4
  <2>5. QED BY <1>0, <1>1, <1>3, <1>4, <2>1, <2>2, <2>3, <2>4 DEF TypeOK
<1>7. /\ pc'[w] = "reply" /\ status'[w] = 200
      /\ \A v \in Workers \ {w} : pc'[v] = pc[v] /\ status'[v] = status[v]
  BY <1>0, <1>1 DEF TypeOK, Goto
<1>8. TxnHeld' BY <1>1, <1>7 DEF IndInv, TxnHeld, InTxn
<1>9. ControlInv'
  <2> SUFFICES ASSUME NEW v \in Workers PROVE ControlAt(v)' BY DEF ControlInv
  <2>1. CASE v = w BY <1>7, <2>1 DEF ControlAt
  <2>2. CASE v # w
    <3>1. ControlAt(v) BY DEF IndInv, ControlInv
    <3>2. QED BY <1>1, <1>7, <2>2, <3>1 DEF ControlAt
  <2>3. QED BY <2>1, <2>2
<1>10. \A v \in Workers : pc'[v] \in InTxn => v # w /\ pc[v] \in InTxn /\ disk' = disk
  <2>1. \A v \in Workers : pc[v] \in InTxn => txn BY DEF IndInv, TxnHeld
  <2>2. QED BY <1>4, <1>7, <2>1 DEF InTxn
<1>11. LocalInv'
  <2> SUFFICES ASSUME NEW v \in Workers PROVE LocalAt(v)' BY DEF LocalInv
  <2>1. CASE pc'[v] \notin InTxn BY <2>1 DEF LocalAt, InTxn
  <2>2. CASE pc'[v] \in InTxn
    <3>1. LocalAt(v) /\ pc'[v] = pc[v] /\ disk' = disk
      BY <1>7, <1>10, <2>2 DEF IndInv, LocalInv
    <3>2. QED BY <1>1, <3>1 DEF LocalAt
  <2>3. QED BY <2>1, <2>2
<1>12. ProgressInv'
  <2> SUFFICES ASSUME NEW v \in Workers PROVE ProgressAt(v)' BY DEF ProgressInv
  <2>1. CASE pc'[v] \notin InTxn BY <2>1 DEF ProgressAt, InTxn
  <2>2. CASE pc'[v] \in InTxn
    <3>1. ProgressAt(v) /\ pc'[v] = pc[v] /\ disk' = disk
      BY <1>7, <1>10, <2>2 DEF IndInv, ProgressInv
    <3>2. \A e : Repriced(db, e) => Repriced(db', e) BY <1>3, <1>4 DEF Repriced
    <3>3. QED BY <1>1, <3>1, <3>2 DEF ProgressAt
  <2>3. QED BY <2>1, <2>2
<1>13. QuietInv' BY <1>1, <1>4 DEF QuietInv
<1>14. MoneyConserved' /\ StockConserved' /\ KeysApart'
  BY <1>1, <1>5 DEF IndInv, MoneyConserved, StockConserved, KeysApart, Repriced
<1>15. LookupAnswer' BY <1>1, <1>2, <1>5, <1>7 DEF IndInv, LookupAnswer, Identified, Repriced
<1>16. QED BY <1>6, <1>8, <1>9, <1>11, <1>12, <1>13, <1>14, <1>15 DEF IndInv

-----------------------------------------------------------------------------
(* The theorems.                                                           *)

\* init.sql leaves an image in which the sums agree.
LEMMA SeedImage == Seed \in Image /\ Books(Seed) /\ Shelf(Seed) /\ Keys(Seed)
<1>1. Seed \in Image BY TablesAssumption DEF Seed, Image
<1>2. QED BY <1>1, TablesAssumption DEF Seed, Books, Shelf, Keys

\* The server starts in the invariant.
LEMMA InitInv == Init => IndInv
<1> SUFFICES ASSUME Init PROVE IndInv OBVIOUS
<1>1. TypeOK
  <2>1. db \in Image /\ disk \in Image BY SeedImage DEF Init
  <2>2. pc \in [Workers -> PC] BY DEF Init, PC
  <2>3. req \in [Workers -> Request] BY NoRequestType DEF Init
  <2>4. /\ price \in [Workers -> Amounts \cup {0}] /\ val \in [Workers -> Int]
        /\ status \in [Workers -> {200, 400, 401, 403, 404, 500}]
    BY DEF Init
  <2>5. served \in 0..MaxRequests /\ crashes \in 0..MaxCrashes
    BY ServicesAssumption DEF Init
  <2>6. txn \in BOOLEAN /\ truncated \in BOOLEAN /\ posted \in [Items -> Amounts]
    BY TablesAssumption DEF Init
  <2>7. QED BY <2>1, <2>2, <2>3, <2>4, <2>5, <2>6 DEF TypeOK
<1>2. \A w \in Workers : pc[w] = "idle" /\ pc[w] \notin InTxn BY DEF Init, InTxn
<1>3. TxnHeld BY <1>2 DEF Init, TxnHeld
<1>4. ControlInv BY <1>2 DEF ControlInv, ControlAt
<1>5. LocalInv BY <1>2 DEF LocalInv, LocalAt
<1>6. ProgressInv BY <1>2 DEF ProgressInv, ProgressAt
<1>7. QuietInv BY DEF Init, QuietInv
<1>8. disk = Seed BY DEF Init
<1>9. MoneyConserved /\ StockConserved /\ KeysApart
  BY <1>8, SeedImage DEF MoneyConserved, StockConserved, KeysApart, Books, Shelf, Keys
<1>10. LookupAnswer BY <1>2 DEF LookupAnswer, Identified
<1>11. QED BY <1>1, <1>3, <1>4, <1>5, <1>6, <1>7, <1>9, <1>10 DEF IndInv

\* Every step keeps the invariant.
LEMMA NextInv ==
  ASSUME "rollback" \notin Faults, IndInv, [Next]_vars
  PROVE  IndInv'
<1>1. ASSUME NEW w \in Workers, NEW r \in Requests, Handle(w, r) PROVE IndInv'
  BY <1>1, HandleStep
<1>2. ASSUME NEW w \in Workers, Fault(w) PROVE IndInv' BY <1>2, FaultStep
<1>3. ASSUME NEW w \in Workers, Serve(w) PROVE IndInv'
  <2>1. CASE Begin(w) BY <2>1, BeginStep
  <2>2. CASE Commit(w) BY <2>2, CommitStep
  <2>3. CASE Undo(w) BY <2>3, UndoStep
  <2>4. CASE Reply(w) BY <2>4, ReplyStep
  <2>5. CASE SelectItem(w) BY <2>5, SelectItemStep
  <2>6. CASE SelectFunds(w) BY <2>6, SelectFundsStep
  <2>7. CASE DebitUser(w) BY <2>7, DebitUserStep
  <2>8. CASE DispenseItem(w) BY <2>8, DispenseItemStep
  <2>9. CASE LogSale(w) BY <2>9, LogSaleStep
  <2>10. CASE LogStockChange(w) BY <2>10, LogStockChangeStep
  <2>11. CASE UpsertBalance(w) BY <2>11, UpsertBalanceStep
  <2>12. CASE LogCashTransaction(w) BY <2>12, LogCashTransactionStep
  <2>13. CASE SelectBalance(w) BY <2>13, SelectBalanceStep
  <2>14. CASE ZeroBalance(w) BY <2>14, ZeroBalanceStep
  <2>15. CASE GetBalance(w) BY <2>15, GetBalanceStep
  <2>16. CASE UpdateStock(w) BY <2>16, UpdateStockStep
  <2>17. CASE UpdatePrice(w) BY <2>17, UpdatePriceStep
  <2>18. CASE Identify(w) BY <2>18, IdentifyStep
  <2>19. QED
    BY <1>3, <2>1, <2>2, <2>3, <2>4, <2>5, <2>6, <2>7, <2>8, <2>9, <2>10, <2>11,
       <2>12, <2>13, <2>14, <2>15, <2>16, <2>17, <2>18 DEF Serve
<1>4. CASE Crash BY <1>4, CrashStep
<1>5. ASSUME NEW w \in Workers, UndoFails(w) PROVE IndInv' BY <1>5, UndoFailsStep
<1>6. CASE UNCHANGED vars
  BY <1>6 DEF vars, locals, bounds, IndInv, TypeOK, TxnHeld, ControlInv, ControlAt,
     LocalInv, LocalAt, ProgressInv, ProgressAt, QuietInv, MoneyConserved,
     StockConserved, KeysApart, LookupAnswer, Identified
<1>7. QED BY <1>1, <1>2, <1>3, <1>4, <1>5, <1>6 DEF Next

\* The inductive invariant of the services.
THEOREM ServicesInvariance ==
  ASSUME "rollback" \notin Faults
  PROVE  Spec => []IndInv
<1>1. Init => IndInv BY InitInv
<1>2. IndInv /\ [Next]_vars => IndInv' BY NextInv
<1>3. QED BY <1>1, <1>2, PTL DEF Spec

\* The tables and the workers' locals keep their types: no balance and no
\* quantity is ever negative.
THEOREM ServicesTypes ==
  ASSUME "rollback" \notin Faults
  PROVE  Spec => []TypeOK
<1>1. IndInv => TypeOK BY DEF IndInv
<1>2. QED BY <1>1, ServicesInvariance, PTL

\* The worker that opened the transaction is still inside it.
NoneLeft == txn => \E w \in Workers : pc[w] \in InTxn

\* After each call somebody is inside the transaction or it has ended, unless a
\* ROLLBACK fails.
LEMMA NoneLeftStep ==
  ASSUME "rollback" \notin Faults, "undo" \notin Faults, IndInv, NoneLeft, [Next]_vars
  PROVE  NoneLeft'
<1>0. pc \in [Workers -> PC] /\ txn \in BOOLEAN BY DEF IndInv, TypeOK
<1>1. ASSUME NEW w \in Workers, NEW l \in InTxn, pc' = [pc EXCEPT ![w] = l]
      PROVE  NoneLeft'
  <2>1. pc'[w] = l BY <1>0, <1>1
  <2>2. QED BY <1>1, <2>1 DEF NoneLeft
<1>2. ASSUME NEW w \in Workers, NEW l, pc' = [pc EXCEPT ![w] = l],
             pc[w] \notin InTxn, txn' = txn
      PROVE  NoneLeft'
  <2>1. \A v \in Workers : pc[v] \in InTxn => pc'[v] = pc[v] BY <1>0, <1>2
  <2>2. QED BY <1>2, <2>1 DEF NoneLeft
<1>3. txn' = FALSE => NoneLeft' BY DEF NoneLeft
<1>4. ASSUME NEW w \in Workers, NEW at, NEW ok, NEW d, NEW next \in InTxn,
             Statement(w, at, ok, d, next)
      PROVE  NoneLeft'
  <2>1. "undo" \in InTxn BY DEF InTxn
  <2>2. \E l \in InTxn : pc' = [pc EXCEPT ![w] = l] BY <1>4, <2>1 DEF Statement, Goto
  <2>3. QED BY <1>1, <2>2
<1>5. ASSUME NEW w \in Workers, Serve(w) PROVE NoneLeft'
  <2>1. CASE Commit(w) \/ Undo(w) BY <1>3, <2>1 DEF Commit, Undo
  <2>2. CASE Reply(w) BY <1>2, <2>2 DEF Reply, InTxn
  <2>3. CASE Begin(w)
    <3>1. CASE txn
      <4>1. /\ pc[w] \notin InTxn /\ txn' = txn
            /\ pc' = [pc EXCEPT ![w] = "reply"]
        BY <1>0, <2>3, <3>1 DEF Begin, Goto, InTxn
      <4>2. QED BY <1>2, <4>1
    <3>2. CASE ~txn
      <4>1. pc' = [pc EXCEPT ![w] = FirstCall[req[w].op]] BY <2>3, <3>2 DEF Begin, Goto
      <4>2. req[w].op \in {"purchase", "deposit", "reset", "restock", "lookup"}
        BY <2>3, AtWorker DEF Begin, ControlAt
      <4>3. FirstCall[req[w].op] \in InTxn BY <4>2 DEF FirstCall, InTxn
      <4>4. QED BY <1>1, <4>1, <4>3
    <3>3. QED BY <3>1, <3>2
  <2>4. CASE SelectItem(w) \/ SelectFunds(w) \/ SelectBalance(w) \/ Identify(w)
    <3>1. \E l \in {"undo", "funds", "debit", "zero", "commit"} : pc' = [pc EXCEPT ![w] = l]
      BY <2>4 DEF SelectItem, SelectFunds, SelectBalance, Identify, Goto
    <3>2. {"undo", "funds", "debit", "zero", "commit"} \subseteq InTxn BY DEF InTxn
    <3>3. QED BY <1>1, <3>1, <3>2
  <2>5. CASE GetBalance(w) \/ UpdatePrice(w)
    <3>1. /\ pc[w] \notin InTxn /\ txn' = txn
          /\ pc' = [pc EXCEPT ![w] = "reply"]
      BY <2>5 DEF GetBalance, UpdatePrice, Goto, InTxn
    <3>2. QED BY <1>2, <3>1
  <2>6. CASE DebitUser(w) \/ DispenseItem(w) \/ LogSale(w) \/ LogStockChange(w)
    <3>1. {"dispense", "sale", "stocklog", "commit"} \subseteq InTxn BY DEF InTxn
    <3>2. QED BY <1>4, <2>6, <3>1 DEF DebitUser, DispenseItem, LogSale, LogStockChange
  <2>7. CASE UpsertBalance(w) \/ LogCashTransaction(w) \/ ZeroBalance(w) \/ UpdateStock(w)
    <3>1. {"cash", "commit", "stocklog"} \subseteq InTxn BY DEF InTxn
    <3>2. QED
      BY <1>4, <2>7, <3>1 DEF UpsertBalance, LogCashTransaction, ZeroBalance, UpdateStock
  <2>8. QED BY <1>5, <2>1, <2>2, <2>3, <2>4, <2>5, <2>6, <2>7 DEF Serve
<1>6. ASSUME NEW w \in Workers, Fault(w) PROVE NoneLeft'
  <2>1. txn' = txn BY <1>6 DEF Fault, RollsBack
  <2>2. CASE pc[w] \in InTxn
    <3>1. "undo" \in InTxn /\ pc' = [pc EXCEPT ![w] = "undo"]
      BY <1>6, <2>2 DEF Fault, Goto, InTxn
    <3>2. QED BY <1>1, <3>1
  <2>3. CASE pc[w] \notin InTxn
    <3>1. pc' = [pc EXCEPT ![w] = "reply"] BY <1>6, <2>3 DEF Fault, Goto
    <3>2. QED BY <1>2, <2>1, <2>3, <3>1
  <2>4. QED BY <2>2, <2>3
<1>7. ASSUME NEW w \in Workers, NEW r \in Requests, Handle(w, r) PROVE NoneLeft'
  <2>1. pc[w] \notin InTxn /\ txn' = txn BY <1>7 DEF Handle, InTxn
  <2>2. QED BY <1>2, <1>7, <2>1 DEF Handle
<1>8. CASE Crash BY <1>3, <1>8 DEF Crash
<1>9. CASE UNCHANGED vars BY <1>9 DEF vars, NoneLeft
<1>10. QED BY <1>5, <1>6, <1>7, <1>8, <1>9 DEF Next, UndoFails

\* One transaction, one owner: orders_purchase, balance_deposit, balance_reset,
\* product_restock and users_lookup never run inside each other's transaction,
\* and none of them returns with its own still open, when no ROLLBACK fails.
THEOREM OneOwner ==
  ASSUME "rollback" \notin Faults, "undo" \notin Faults
  PROVE  Spec => []TxnOwned
<1>1. Init => NoneLeft BY DEF Init, NoneLeft
<1>2. IndInv /\ NoneLeft /\ [Next]_vars => NoneLeft' BY NoneLeftStep
<1>3. IndInv /\ NoneLeft => TxnOwned BY DEF IndInv, TxnHeld, NoneLeft, TxnOwned
<1>4. QED BY <1>1, <1>2, <1>3, ServicesInvariance, PTL DEF Spec

\* Balances on disk are what the rows of transactions add up to.
THEOREM MoneyIsConserved ==
  ASSUME "rollback" \notin Faults
  PROVE  Spec => []MoneyConserved
<1>1. IndInv => MoneyConserved BY DEF IndInv
<1>2. QED BY <1>1, ServicesInvariance, PTL

\* Quantities on disk are what the rows of stock_logs add up to.
THEOREM StockIsConserved ==
  ASSUME "rollback" \notin Faults
  PROVE  Spec => []StockConserved
<1>1. IndInv => StockConserved BY DEF IndInv
<1>2. QED BY <1>1, ServicesInvariance, PTL

\* No account is shared by two keys, and no two sessions of different keys are
\* told the same user_id.
THEOREM AccountsAreSeparate ==
  ASSUME "rollback" \notin Faults
  PROVE  Spec => []OneAccountPerKey
<1>1. IndInv => OneAccountPerKey
  <2> SUFFICES ASSUME IndInv PROVE OneAccountPerKey OBVIOUS
  <2>1. ASSUME NEW f \in Fingerprints, NEW g \in Fingerprints,
               disk.owner[f] # NoUser, disk.owner[f] = disk.owner[g]
        PROVE  f = g
    BY <2>1 DEF IndInv, KeysApart
  <2>2. ASSUME NEW v \in Workers, NEW w \in Workers,
               Identified(v), Identified(w), ~truncated, val[v] = val[w]
        PROVE  req[v].key = req[w].key
    <3>1. req[v].key \in Fingerprints /\ req[w].key \in Fingerprints BY AtWorker
    <3>2. /\ disk.owner[req[v].key] # NoUser /\ val[v] = disk.owner[req[v].key]
          /\ val[w] = disk.owner[req[w].key]
      BY <2>2 DEF IndInv, LookupAnswer
    <3>3. disk.owner[req[v].key] = disk.owner[req[w].key] BY <2>2, <3>2
    <3>4. QED BY <2>1, <3>1, <3>2, <3>3
  <2>3. QED BY <2>1, <2>2 DEF OneAccountPerKey
<1>2. QED BY <1>1, ServicesInvariance, PTL

\* users_lookup answers the committed owner of the key.
THEOREM LookupIsCommitted ==
  ASSUME "rollback" \notin Faults
  PROVE  Spec => []LookupAnswer
<1>1. IndInv => LookupAnswer BY DEF IndInv
<1>2. QED BY <1>1, ServicesInvariance, PTL

\* Only COMMIT and a price update outside transactions change the committed
\* image.
LEMMA DiskChanges ==
  ASSUME "rollback" \notin Faults, IndInv, [Next]_vars
  PROVE  \/ disk' = disk
         \/ disk' \in Image /\ Repriced(disk', disk)
         \/ \E w \in Workers : pc[w] = "commit" /\ disk' = db /\ UNCHANGED truncated
<1>1. CASE \E w \in Workers : Commit(w) BY <1>1 DEF Commit
<1>2. CASE \E w \in Workers : UpdatePrice(w)
  <2> SUFFICES ASSUME NEW w \in Workers, UpdatePrice(w)
               PROVE  disk' = disk \/ (disk' \in Image /\ Repriced(disk', disk))
    BY <1>2
  <2> DEFINE r == req[w]
             d == IF r.item \in Items THEN SetPrice(db, r.item, r.n) ELSE db
  <2>1. pc[w] = "price" /\ disk' = IF txn THEN disk ELSE d BY DEF UpdatePrice, Write
  <2>2. r.n \in Amounts /\ db \in Image BY <2>1, AtWorker DEF ControlAt
  <2>3. d \in Image /\ Repriced(d, db)
    BY <2>2, SetPriceImage DEF SetPrice, Repriced, Image
  <2>4. QED BY <2>1, <2>3 DEF IndInv, QuietInv
<1>3. CASE \E w \in Workers : Serve(w) /\ ~Commit(w) /\ ~UpdatePrice(w)
  <2> SUFFICES ASSUME NEW w \in Workers, Serve(w), ~Commit(w), ~UpdatePrice(w)
               PROVE  disk' = disk
    BY <1>3
  <2>1. pc[w] \in InTxn => txn BY Alone
  <2>2. CASE DebitUser(w) BY <2>1, <2>2 DEF DebitUser, Statement, Write, InTxn
  <2>3. CASE DispenseItem(w) BY <2>1, <2>3 DEF DispenseItem, Statement, Write, InTxn
  <2>4. CASE LogSale(w) BY <2>1, <2>4 DEF LogSale, Statement, Write, InTxn
  <2>5. CASE LogStockChange(w) BY <2>1, <2>5 DEF LogStockChange, Statement, Write, InTxn
  <2>6. CASE UpsertBalance(w) BY <2>1, <2>6 DEF UpsertBalance, Statement, Write, InTxn
  <2>7. CASE LogCashTransaction(w)
    BY <2>1, <2>7 DEF LogCashTransaction, Statement, Write, InTxn
  <2>8. CASE ZeroBalance(w) BY <2>1, <2>8 DEF ZeroBalance, Statement, Write, InTxn
  <2>9. CASE UpdateStock(w) BY <2>1, <2>9 DEF UpdateStock, Statement, Write, InTxn
  <2>10. CASE Identify(w) BY <2>1, <2>10 DEF Identify, Write, InTxn
  <2>11. CASE Begin(w) \/ Undo(w) \/ Reply(w) \/ SelectItem(w) \/ SelectFunds(w)
              \/ SelectBalance(w) \/ GetBalance(w)
    BY <2>11 DEF Begin, Undo, Reply, SelectItem, SelectFunds, SelectBalance, GetBalance
  <2>12. QED
    BY <2>2, <2>3, <2>4, <2>5, <2>6, <2>7, <2>8, <2>9, <2>10, <2>11 DEF Serve
<1>4. CASE \E w \in Workers : Fault(w) \/ UndoFails(w) \/ \E r \in Requests : Handle(w, r)
  BY <1>4 DEF Fault, UndoFails, Handle
<1>5. CASE Crash BY <1>5 DEF Crash
<1>6. CASE UNCHANGED vars BY <1>6 DEF vars
<1>7. QED BY <1>1, <1>2, <1>3, <1>4, <1>5, <1>6 DEF Next

\* A key's account is its own for life.
THEOREM AccountsAreForLife ==
  ASSUME "rollback" \notin Faults
  PROVE  Spec => AccountForLife
<1>1. ASSUME IndInv, [Next]_vars PROVE KeysGrow(disk, disk')
  <2>1. CASE disk' = disk BY <2>1 DEF KeysGrow
  <2>2. CASE Repriced(disk', disk) BY <2>2 DEF KeysGrow, Repriced
  <2>3. CASE \E w \in Workers : pc[w] = "commit" /\ disk' = db BY <1>1, <2>3, AtCommit
  <2>4. QED BY <1>1, <2>1, <2>2, <2>3, DiskChanges
<1>2. IndInv /\ [Next]_vars
        => [\A f \in Fingerprints :
              disk'.owner[f] # disk.owner[f]
                => disk.owner[f] = NoUser /\ disk'.owner[f] \notin disk.exists]_vars
  BY <1>1 DEF KeysGrow
<1>3. QED BY <1>2, ServicesInvariance, PTL DEF Spec, AccountForLife

\* A refund pays exactly what it takes from the account.
THEOREM RefundsAreExact ==
  ASSUME "rollback" \notin Faults
  PROVE  Spec => RefundExact
<1>1. ASSUME IndInv, NEW w \in Workers, pc[w] = "commit", req[w].op = "reset", ~truncated
      PROVE  val[w] = disk.balance[req[w].user]
  BY <1>1, AtWorker DEF LocalAt
<1>2. IndInv
        => [\A w \in Workers :
              pc[w] = "commit" /\ pc'[w] = "reply" /\ req[w].op = "reset" /\ ~truncated
                => val[w] = disk.balance[req[w].user]]_vars
  BY <1>1
<1>3. QED BY <1>2, ServicesInvariance, PTL DEF RefundExact

\* The statements as Machine sees them.
LEMMA MachineStatements ==
  /\ M!Seed = Seed
  /\ \A d, u, p : M!Debit(d, u, p) = Debit(d, u, p)
  /\ \A d, u : M!Zero(d, u) = Zero(d, u)
  /\ \A d, s : M!Dispense(d, s) = Dispense(d, s)
  /\ \A d, s, q : M!Refill(d, s, q) = Refill(d, s, q)
  /\ \A d, u, a : M!LogCash(d, u, a) = LogCash(d, u, a)
  /\ \A d, s, q : M!LogStock(d, s, q) = LogStock(d, s, q)
  /\ \A d, u, a : M!Credit(d, u, a) = Credit(d, u, a)
  /\ \A d, f : M!Upsert(d, f) = Upsert(d, f)
  BY DEF M!Seed, Seed, M!Debit, Debit, M!Zero, Zero, M!Dispense, Dispense,
     M!Refill, Refill, M!LogCash, LogCash, M!LogStock, LogStock,
     M!Credit, Credit, M!AddUser, AddUser, M!Upsert, Upsert

\* An image that a statement leaves, up to prices, is what Machine may get to.
LEMMA BecomesRepriced ==
  ASSUME NEW e \in Image, disk' \in Image, Repriced(disk', e)
  PROVE  M!Becomes(e)
<1>1. disk' = [e EXCEPT !.price = disk'.price] BY RepricedEqual
<1>2. disk'.price \in [Items -> Amounts] BY DEF Image
<1>3. QED BY <1>1, <1>2 DEF M!Becomes

\* A COMMIT is one operation of Machine.
LEMMA CommitIsOperation ==
  ASSUME IndInv, NEW w \in Workers, pc[w] = "commit", disk' = db, ~truncated
  PROVE  M!Next
<1> DEFINE u == req[w].user
           s == req[w].slot
           n == req[w].n
           p == price[w]
           f == req[w].key
<1>1. /\ disk \in Image /\ disk' \in Image /\ u \in UserIds /\ f \in Fingerprints
      /\ n \in Nat /\ p \in Nat /\ val[w] \in Int /\ Neg(val[w]) \in Int
      /\ disk.balance[u] \in Nat
  BY AtWorker, IntTypes
<1>2. ControlAt(w) /\ LocalAt(w) /\ ProgressAt(w) BY AtWorker
<1>3. req[w].op \in {"purchase", "deposit", "reset", "restock", "lookup"}
  BY <1>2 DEF ControlAt
<1>4. CASE req[w].op = "purchase"
  <2> DEFINE e == LogStock(LogCash(Dispense(Debit(disk, u, p), s), u, -p), s, -1)
  <2>1. /\ s \in Slots /\ p \in Amounts /\ disk.qty[s] > 0 /\ u \in disk.exists
        /\ disk.balance[u] >= p /\ Repriced(disk', e)
    BY <1>2, <1>4 DEF LocalAt, ProgressAt
  <2>2. e \in Image BY <1>1, <2>1, SaleImages, LogStockImage
  <2>3. M!Becomes(e) BY <1>1, <2>1, <2>2, BecomesRepriced
  <2>4. M!Purchase(u, s, p) BY <2>1, <2>3, MachineStatements DEF M!Purchase
  <2>5. QED BY <1>1, <2>1, <2>4 DEF M!Next
<1>5. CASE req[w].op = "deposit"
  <2> DEFINE e == LogCash(Credit(disk, u, n), u, n)
  <2>1. n \in Amounts /\ Repriced(disk', e) BY <1>2, <1>5 DEF ControlAt, ProgressAt
  <2>2. e \in Image BY <1>1, CreditImage, LogCashImage
  <2>3. M!Becomes(e) BY <1>1, <2>1, <2>2, BecomesRepriced
  <2>4. M!Deposit(u, n) BY <2>3, MachineStatements DEF M!Deposit
  <2>5. QED BY <1>1, <2>1, <2>4 DEF M!Next
<1>6. CASE req[w].op = "reset"
  <2> DEFINE e == LogCash(Zero(disk, u), u, -disk.balance[u])
  <2>1. /\ u \in disk.exists /\ val[w] = disk.balance[u] /\ val[w] # 0
        /\ Repriced(disk', LogCash(Zero(disk, u), u, Neg(val[w])))
    BY <1>2, <1>6 DEF LocalAt, ProgressAt
  <2>2. Neg(val[w]) = -disk.balance[u] BY <1>1, <2>1, ServicesAssumption DEF Neg
  <2>3. Repriced(disk', e) BY <2>1, <2>2
  <2>4. e \in Image BY <1>1, ZeroImage, LogCashImage
  <2>5. M!Becomes(e) BY <1>1, <2>3, <2>4, BecomesRepriced
  <2>6. disk.balance[u] > 0 BY <1>1, <2>1
  <2>7. M!Refund(u) BY <2>1, <2>5, <2>6, MachineStatements DEF M!Refund
  <2>8. QED BY <1>1, <2>7 DEF M!Next
<1>7. CASE req[w].op = "restock"
  <2> DEFINE e == LogStock(Refill(disk, s, n), s, n)
  <2>1. s \in Slots /\ n \in Amounts /\ Repriced(disk', e)
    BY <1>2, <1>7 DEF ControlAt, LocalAt, ProgressAt
  <2>2. e \in Image BY <1>1, <2>1, RefillImage, LogStockImage
  <2>3. M!Becomes(e) BY <1>1, <2>1, <2>2, BecomesRepriced
  <2>4. M!Restock(s, n) BY <2>3, MachineStatements DEF M!Restock
  <2>5. QED BY <2>1, <2>4 DEF M!Next
<1>8. CASE req[w].op = "lookup"
  <2>1. disk.seq + 1 \in UserIds /\ Repriced(disk', Upsert(disk, f))
    BY <1>2, <1>8 DEF LocalAt, ProgressAt
  <2>2. Upsert(disk, f) \in Image BY <1>1, <2>1, UpsertImage
  <2>3. M!Becomes(Upsert(disk, f)) BY <1>1, <2>1, <2>2, BecomesRepriced
  <2>4. M!Lookup(f) BY <2>1, <2>3, MachineStatements DEF M!Lookup
  <2>5. QED BY <1>1, <2>4 DEF M!Next
<1>9. QED BY <1>3, <1>4, <1>5, <1>6, <1>7, <1>8

\* The services implement Machine: as long as no int read from a column has
\* lost its high bits, the committed image changes by whole operations only,
\* whatever the workers interleave, whichever calls fail, wherever it crashes.
THEOREM ServicesImplementMachine ==
  ASSUME "rollback" \notin Faults
  PROVE  Spec => AtomicBelowIntMax
<1>1. Init => M!Init BY MachineStatements DEF Init, M!Init
<1>2. ASSUME IndInv, [Next]_vars, ~truncated, disk' # disk PROVE M!Next
  <2>1. CASE disk' \in Image /\ Repriced(disk', disk)
    <3>1. disk \in Image BY <1>2 DEF IndInv, TypeOK
    <3>2. M!Becomes(disk) BY <2>1, <3>1, BecomesRepriced
    <3>3. QED BY <3>2 DEF M!Next, M!Reprice
  <2>2. CASE \E w \in Workers : pc[w] = "commit" /\ disk' = db
    BY <1>2, <2>2, CommitIsOperation
  <2>3. QED BY <1>2, <2>1, <2>2, DiskChanges
<1>3. IndInv /\ [Next]_vars => [~truncated => M!Next]_disk BY <1>2
<1>4. QED BY <1>1, <1>3, ServicesInvariance, PTL DEF Spec, AtomicBelowIntMax
=============================================================================
