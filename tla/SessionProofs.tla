--------------------------- MODULE SessionProofs ---------------------------
(***************************************************************************)
(* Proofs about Tui.tla and Session.tla: for any keys, any clients beside  *)
(* this one and any number of lookups, the cursor stays inside the         *)
(* catalogue, a prompt acts on the slot it was opened for, the message is  *)
(* true of the last write, the screen after a write is the server's, and a *)
(* session that was given a user acts as the owner of its key.  The        *)
(* invariant says what each request that is out was sent for and what may  *)
(* have become of it since.                                                *)
(***************************************************************************)
EXTENDS Session, InputProofs

\* Tables and rows whose prices are in P.
ImageOf(P) ==
  [exists  : SUBSET UserIds,
   balance : [UserIds -> Nat],
   owner   : [Fingerprints -> UserIds \cup {NoUser}],
   seq     : Nat,
   price   : [Items -> P],
   qty     : [Slots -> Nat],
   ledger  : [UserIds -> Int],
   slog    : [Items -> Int]]
RowsOfPrice(P) == [slot : Slots, price : P, qty : Nat]
AppOf(P) ==
  [products : Seq(RowsOfPrice(P)),
   balance_gr : Nat, selected : Nat, admin : BOOLEAN, server_down : BOOLEAN,
   mode : {"browse", "prompt"}, pending : {"none", "deposit", "restock", "price"},
   prompt_buf : Seq(Characters), konami : Seq(ToSet(KONAMI_SEQ) \cup {"other"}),
   message : {"done", "failed", "unreachable", "other"}]

\* The prices that the seed, other clients and the prompt may set.
Prices(P) == Amounts \subseteq P /\ 1..INT_MAX \subseteq P /\ P \subseteq Nat \ {0}

\* The model's types are the ones below, with the model's prices.
LEMMA ImageIs == Image = ImageOf(Amounts) /\ App = AppOf(Amounts)
BY DEF Image, ImageOf, App, AppOf, RowsOfPrice

-----------------------------------------------------------------------------
(* The database.                                                           *)

\* The seed is an image of the database.
LEMMA SeedType == ASSUME NEW P, Prices(P) PROVE Seed \in ImageOf(P)
<1>1. InitPrice \in [Items -> P] /\ InitQty \in [Slots -> Nat] /\ InitLog \in [Items -> Int]
  <2>1. InitPrice \in [Items -> Amounts] /\ Amounts \subseteq P
    BY TablesAssumption DEF Prices
  <2>2. InitQty \in [Slots -> Nat] /\ InitLog \in [Items -> Nat]
    BY TablesAssumption
  <2>3. InitPrice \in [Items -> P]
    BY <2>1
  <2>4. InitLog \in [Items -> Int]
    BY <2>2
  <2> QED
    BY <2>2, <2>3, <2>4
<1>2. /\ [u \in UserIds |-> 0] \in [UserIds -> Nat] /\ [u \in UserIds |-> 0] \in [UserIds -> Int]
      /\ [f \in Fingerprints |-> NoUser] \in [Fingerprints -> UserIds \cup {NoUser}]
  OBVIOUS
<1> QED
  BY <1>1, <1>2 DEF Seed, ImageOf

\* Each operation on the tables leaves an image, and nobody's identity changes.
\* A row for the user:
LEMMA AddUserType ==
  ASSUME NEW P, NEW d \in ImageOf(P), NEW u \in UserIds
  PROVE  /\ AddUser(d, u) \in ImageOf(P) /\ AddUser(d, u).owner = d.owner
         /\ AddUser(d, u).balance = d.balance
<1>1. (IF u > d.seq THEN u ELSE d.seq) \in Nat
  BY TablesAssumption DEF ImageOf
<1>2. d.exists \cup {u} \in SUBSET UserIds
  BY DEF ImageOf
<1> QED
  BY <1>1, <1>2 DEF AddUser, ImageOf

\* the row of a fingerprint, whose owner stays who it was;
LEMMA UpsertType ==
  ASSUME NEW P, NEW d \in ImageOf(P), NEW f \in Fingerprints, d.seq + 1 \in UserIds
  PROVE  /\ Upsert(d, f) \in ImageOf(P)
         /\ Upsert(d, f).owner[f] = IF d.owner[f] = NoUser THEN d.seq + 1 ELSE d.owner[f]
         /\ \A h \in Fingerprints : h # f => Upsert(d, f).owner[h] = d.owner[h]
<1>1. CASE d.owner[f] = NoUser
  <2> DEFINE a == AddUser(d, d.seq + 1)
  <2>1. a \in ImageOf(P) /\ a.owner = d.owner
    BY AddUserType
  <2>2. Upsert(d, f) = [a EXCEPT !.owner[f] = d.seq + 1]
    BY <1>1 DEF Upsert
  <2> HIDE DEF a
  <2> QED
    BY <1>1, <2>1, <2>2 DEF ImageOf
<1>2. CASE d.owner[f] # NoUser
  BY <1>2 DEF Upsert, ImageOf
<1> QED
  BY <1>1, <1>2

\* a price;
LEMMA SetPriceType ==
  ASSUME NEW P, NEW d \in ImageOf(P), NEW x \in Items, NEW p \in P
  PROVE  SetPrice(d, x, p) \in ImageOf(P) /\ SetPrice(d, x, p).owner = d.owner
BY DEF SetPrice, ImageOf

\* a refund;
LEMMA ZeroType ==
  ASSUME NEW P, NEW d \in ImageOf(P), NEW u \in UserIds
  PROVE  Zero(d, u) \in ImageOf(P) /\ Zero(d, u).owner = d.owner
BY DEF Zero, ImageOf

\* an item handed out;
LEMMA DispenseType ==
  ASSUME NEW P, NEW d \in ImageOf(P), NEW s \in Slots, d.qty[s] > 0
  PROVE  Dispense(d, s) \in ImageOf(P) /\ Dispense(d, s).owner = d.owner
BY DEF Dispense, ImageOf

\* a refill;
LEMMA RefillType ==
  ASSUME NEW P, NEW d \in ImageOf(P), NEW s \in Slots, NEW q \in Nat
  PROVE  Refill(d, s, q) \in ImageOf(P) /\ Refill(d, s, q).owner = d.owner
BY DEF Refill, ImageOf

\* a payment;
LEMMA DebitType ==
  ASSUME NEW P, NEW d \in ImageOf(P), NEW u \in UserIds, NEW p \in Nat, d.balance[u] >= p
  PROVE  /\ Debit(d, u, p) \in ImageOf(P) /\ Debit(d, u, p).owner = d.owner
         /\ Debit(d, u, p).qty = d.qty
BY DEF Debit, ImageOf

\* a deposit;
LEMMA CreditType ==
  ASSUME NEW P, NEW d \in ImageOf(P), NEW u \in UserIds, NEW a \in Nat
  PROVE  Credit(d, u, a) \in ImageOf(P) /\ Credit(d, u, a).owner = d.owner
<1> DEFINE b == AddUser(d, u)
<1>1. b \in ImageOf(P) /\ b.owner = d.owner
  BY AddUserType
<1> HIDE DEF b
<1>2. Credit(d, u, a) = [b EXCEPT !.balance[u] = @ + a]
  BY DEF Credit, b
<1> QED
  BY <1>1, <1>2 DEF ImageOf

\* the log of the money;
LEMMA LogCashType ==
  ASSUME NEW P, NEW d \in ImageOf(P), NEW u \in UserIds, NEW a \in Int
  PROVE  LogCash(d, u, a) \in ImageOf(P) /\ LogCash(d, u, a).owner = d.owner
BY DEF LogCash, ImageOf

\* the log of the stock.
LEMMA LogStockType ==
  ASSUME NEW P, NEW d \in ImageOf(P), NEW s \in Slots, NEW q \in Int
  PROVE  LogStock(d, s, q) \in ImageOf(P) /\ LogStock(d, s, q).owner = d.owner
BY TablesAssumption DEF LogStock, ImageOf

\* A request that is carried out leaves an image, and nobody's identity changes.
LEMMA CarriedType ==
  ASSUME NEW P, Prices(P), disk \in ImageOf(P), shelf \subseteq Slots,
         NEW w \in Write, Accepts(w), w.op = "price" => w.n \in P
  PROVE  Carried(w) \in ImageOf(P) /\ Carried(w).owner = disk.owner
<1>1. w.user \in UserIds /\ w.n \in Nat
      /\ w.op \in {"purchase", "refund", "deposit", "restock", "price"}
  BY DEF Write
<1>2. CASE w.op = "purchase"
  <2>1. /\ w.slot \in Slots /\ disk.qty[w.slot] > 0
        /\ disk.balance[w.user] >= disk.price[ItemOf[w.slot]]
    BY <1>2 DEF Accepts
  <2> DEFINE p == disk.price[ItemOf[w.slot]]
             d1 == Debit(disk, w.user, p)
             d2 == Dispense(d1, w.slot)
             d3 == LogCash(d2, w.user, -p)
  <2>2. p \in Nat
    BY <2>1, TablesAssumption DEF ImageOf, Prices
  <2>3. d1 \in ImageOf(P) /\ d1.owner = disk.owner /\ d1.qty = disk.qty
    BY <1>1, <2>1, <2>2, DebitType
  <2>4. Carried(w) = LogStock(d3, w.slot, -1) /\ -p \in Int
    BY <1>2, <2>2 DEF Carried
  <2> HIDE DEF d1, p
  <2>5. d2 \in ImageOf(P) /\ d2.owner = disk.owner
    BY <2>1, <2>3, DispenseType
  <2> HIDE DEF d2
  <2>6. d3 \in ImageOf(P) /\ d3.owner = disk.owner
    BY <1>1, <2>4, <2>5, LogCashType
  <2> HIDE DEF d3
  <2> QED
    BY <2>1, <2>4, <2>6, LogStockType
<1>3. CASE w.op = "refund"
  <2> DEFINE d1 == Zero(disk, w.user)
  <2>1. d1 \in ImageOf(P) /\ d1.owner = disk.owner
    BY <1>1, ZeroType
  <2>2. Carried(w) = LogCash(d1, w.user, -disk.balance[w.user]) /\ -disk.balance[w.user] \in Int
    BY <1>1, <1>3 DEF Carried, ImageOf
  <2> HIDE DEF d1
  <2> QED
    BY <1>1, <2>1, <2>2, LogCashType
<1>4. CASE w.op = "deposit"
  <2> DEFINE d1 == Credit(disk, w.user, w.n)
  <2>1. d1 \in ImageOf(P) /\ d1.owner = disk.owner
    BY <1>1, CreditType
  <2>2. Carried(w) = LogCash(d1, w.user, w.n) /\ w.n \in Int
    BY <1>1, <1>4 DEF Carried
  <2> HIDE DEF d1
  <2> QED
    BY <1>1, <2>1, <2>2, LogCashType
<1>5. CASE w.op = "restock"
  <2>0. w.slot \in Slots
    BY <1>5 DEF Accepts
  <2> DEFINE d1 == Refill(disk, w.slot, w.n)
  <2>1. d1 \in ImageOf(P) /\ d1.owner = disk.owner
    BY <1>1, <2>0, RefillType
  <2>2. Carried(w) = LogStock(d1, w.slot, w.n) /\ w.n \in Int
    BY <1>1, <1>5 DEF Carried
  <2> HIDE DEF d1
  <2> QED
    BY <2>0, <2>1, <2>2, LogStockType
<1>6. CASE w.op = "price"
  <2>1. w.slot \in Slots /\ ItemOf[w.slot] \in Items
    BY <1>6, TablesAssumption DEF Accepts
  <2>2. Carried(w) = SetPrice(disk, ItemOf[w.slot], w.n) /\ w.n \in P
    BY <1>6 DEF Carried
  <2> QED
    BY <2>1, <2>2, SetPriceType
<1> QED
  BY <1>1, <1>2, <1>3, <1>4, <1>5, <1>6

-----------------------------------------------------------------------------
(* The invariant.                                                          *)

ShelfInside == shelf \in Shelves \cup {Slots}

ServerOk(P) ==
  /\ disk \in ImageOf(P) /\ ShelfInside
  /\ others \in 0..MaxOthers /\ wiped \in BOOLEAN

\* Every write that was sent is well formed, a new price also as a price.
WritesOk(P) ==
  /\ issued \in Seq(Write)
  /\ \A k \in DOMAIN issued : issued[k].op = "price" => issued[k].n \in P

\* The cursor of a is on a product if there is one.
CursorOk(a) == a.selected < Len(a.products) \/ (a.products = <<>> /\ a.selected = 0)

AppOk(P, a) ==
  /\ a \in AppOf(P) /\ CursorOk(a)
  /\ Len(a.prompt_buf) < PROMPT_BUF_LEN /\ Len(a.konami) <= Len(KONAMI_SEQ)
  /\ a.mode = "prompt" <=> a.pending # "none"

ClientOk(P) ==
  /\ pressed \in 0..MaxKeys /\ pc \in {"off", "key", "write", "stock", "balance", "quit"}
  /\ after \in {"keep", "overwrite"} /\ user_id \in UserIds
  /\ AppOk(P, app) /\ target \in Slots \cup {NoSlot} /\ moved \in BOOLEAN

\* The identity of the session.  While the database lives, the key has the
\* account that the script was told, and the TUI acts as it.
GateInv ==
  /\ reply \in UserIds \cup {0} /\ cmd \in UserIds \cup {0} /\ reply >= 0 /\ cmd >= 0
  /\ \A f \in Fingerprints : disk.owner[f] # NoUser => disk.owner[f] > 0
  /\ pc = "off" <=> gate # "done"
  /\ pc = "off" => ~wiped
  /\ ~wiped /\ reply # 0 => disk.owner[Key] = reply
  /\ ~wiped /\ cmd # 0 => disk.owner[Key] = cmd
  /\ pc # "off" /\ cmd # 0 => user_id = cmd

\* A prompt is open only while keys are read or its write is under way, the
\* server is there, and the slot that is selected is the one that it was opened
\* for.
PromptInv ==
  /\ app.mode = "prompt" => ~app.server_down /\ pc \in {"key", "write"}
  /\ app.pending \in {"restock", "price"} => app.products # <<>> /\ Chosen(app).slot = target
  /\ pc = "write" => /\ issued # <<>>
                     /\ Last(issued).op \in {"deposit", "restock", "price"} <=> app.mode = "prompt"
  /\ PromptTarget

\* After a write that was reported as done the catalogue is read first, then the
\* balance.
ScreenInv ==
  /\ pc = "balance" /\ app.message = "done" /\ ~moved => app.products = OnSale
  /\ ScreenAfterWrite
  /\ app.message \in {"done", "failed"} => issued # <<>>

IInv(P) ==
  ServerOk(P) /\ WritesOk(P) /\ ClientOk(P) /\ GateInv /\ PromptInv /\ Told /\ ScreenInv

\* The same for TLC, with the prices of the instance.
SessionInv == IInv(Amounts)
-----------------------------------------------------------------------------
(* The steps, by what they leave alone.                                    *)

\* A step of the client: the server is left alone.
ClientStep ==
  \/ Login
  \/ (Returns \/ \E key \in Keys : app_handle_key(key)) /\ UNCHANGED <<url, gate, attempt, reply, cmd>>

\* A step of the server or of somebody else: the client is left alone.
ServerStep ==
  \/ Identify \/ IdentifyLate \/ Visitor
  \/ Others /\ UNCHANGED <<url, gate, attempt, reply, cmd>>

\* A step of the script that leaves both alone.
ScriptStep == Ask \/ Resolved \/ AttemptFails

\* A step is taken by the client, by the server or by the login script.
LEMMA Steps ==
  ASSUME [Next]_svars
  PROVE  ClientStep \/ ServerStep \/ ScriptStep \/ UNCHANGED svars
BY DEF Next, Gate, Running, ClientStep, ServerStep, ScriptStep

\* The client changes nothing in the server.
LEMMA ClientLeavesServer == ClientStep => UNCHANGED server
BY DEF ClientStep, Login, main, Returns, BuyReturns, CashoutReturns, PromptReturns, StockReturns,
       BalanceReturns, app_handle_key

\* The server changes nothing in the client.
LEMMA ServerLeavesClient == ServerStep => UNCHANGED <<pressed, pc, after, user_id, app, target, cmd, gate>>
BY DEF ServerStep, Identify, IdentifyLate, Visitor, Commit, Others, Elsewhere, Reseed, Serve, gvars

\* The script changes neither.
LEMMA ScriptLeavesBoth == ScriptStep => UNCHANGED vars
BY DEF ScriptStep, Ask, Resolved, AttemptFails

\* The shelf is a finite set of slots.
LEMMA ShelfSlots == ShelfInside => shelf \subseteq Slots /\ IsFiniteSet(shelf) /\ shelf \in SUBSET Nat
<1> SUFFICES ASSUME ShelfInside PROVE shelf \subseteq Slots /\ IsFiniteSet(shelf) /\ shelf \in SUBSET Nat
  OBVIOUS
<1>1. shelf \subseteq Slots
  BY TuiAssumption DEF ShelfInside
<1> QED
  BY <1>1, TuiAssumption, FS_Subset

-----------------------------------------------------------------------------
(* The server.                                                             *)

\* Every step leaves the database and the shelf as they may be.
LEMMA NextServer ==
  ASSUME NEW P, Prices(P), ServerOk(P), WritesOk(P), ClientOk(P), [Next]_svars
  PROVE  ServerOk(P)'
<1>0. shelf \subseteq Slots /\ disk \in ImageOf(P)
  BY ShelfSlots DEF ServerOk
<1>1. CASE UNCHANGED server
  BY <1>1 DEF server, ServerOk, ShelfInside
<1>2. CASE Identify \/ IdentifyLate
  <2>1. disk' = Upsert(disk, Key) /\ disk.seq + 1 \in UserIds /\ UNCHANGED <<shelf, others, wiped>>
    BY <1>2 DEF Identify, IdentifyLate, Commit
  <2> QED
    BY <1>0, <2>1, UpsertType, SessionAssumption DEF ServerOk, ShelfInside
<1>3. CASE Visitor
  <2>1. PICK f \in Fingerprints : disk' = Upsert(disk, f)
    BY <1>3 DEF Visitor
  <2>2. disk.seq + 1 \in UserIds /\ others < MaxOthers /\ others' = others + 1 /\ UNCHANGED <<shelf, wiped>>
    BY <1>3 DEF Visitor
  <2>3. disk' \in ImageOf(P)
    BY <1>0, <2>1, <2>2, UpsertType
  <2> QED
    BY <2>2, <2>3, TuiAssumption DEF ServerOk, ShelfInside
<1>4. CASE Elsewhere
  <2>1. others' \in 0..MaxOthers /\ UNCHANGED <<shelf, wiped>>
    BY <1>4, TuiAssumption DEF Elsewhere, ServerOk
  <2>2. disk' \in ImageOf(P)
    <3>1. ASSUME NEW s \in shelf, disk.qty[s] > 0, disk' = Dispense(disk, s) PROVE disk' \in ImageOf(P)
      BY <1>0, <3>1, DispenseType
    <3>2. ASSUME NEW s \in shelf, NEW p \in Amounts, disk' = SetPrice(disk, ItemOf[s], p)
          PROVE  disk' \in ImageOf(P)
      <4>1. ItemOf[s] \in Items /\ p \in P
        BY <1>0, TablesAssumption DEF Prices
      <4> QED
        BY <1>0, <3>2, <4>1, SetPriceType
    <3>3. ASSUME disk' = Zero(disk, user_id) PROVE disk' \in ImageOf(P)
      BY <1>0, <3>3, ZeroType DEF ClientOk
    <3> QED
      BY <1>4, <3>1, <3>2, <3>3 DEF Elsewhere
  <2> QED
    BY <2>1, <2>2 DEF ServerOk, ShelfInside
<1>5. CASE Reseed
  <2>1. disk' \in ImageOf(P)
    BY <1>5, SeedType DEF Reseed
  <2>2. others' \in 0..MaxOthers /\ wiped' = TRUE /\ shelf' \in Shelves
    BY <1>5, TuiAssumption DEF Reseed, ServerOk
  <2> QED
    BY <2>1, <2>2 DEF ServerOk, ShelfInside
<1>6. ASSUME NEW i \in DOMAIN issued, Serve(i) PROVE ServerOk(P)'
  <2>1. UNCHANGED <<shelf, others, wiped>>
    BY <1>6 DEF Serve
  <2>2. issued[i] \in Write /\ (issued[i].op = "price" => issued[i].n \in P)
    BY DEF WritesOk
  <2>3. disk' \in ImageOf(P)
    <3>1. CASE UNCHANGED disk
      BY <1>0, <3>1
    <3>2. CASE Accepts(issued[i]) /\ disk' = Carried(issued[i])
      BY <1>0, <2>2, <3>2, CarriedType
    <3> QED
      BY <1>6, <3>1, <3>2 DEF Serve
  <2> QED
    BY <2>1, <2>3 DEF ServerOk, ShelfInside
<1>7. (ClientStep \/ ScriptStep \/ UNCHANGED svars) => UNCHANGED server
  BY ClientLeavesServer, ScriptLeavesBoth DEF server, svars, vars
<1> QED
  BY <1>1, <1>2, <1>3, <1>4, <1>5, <1>6, <1>7, Steps DEF ServerStep, Others

-----------------------------------------------------------------------------
(* The handlers of the client, as functions on app_t.                      *)

\* b is a with another message, or with what the handlers change beside the
\* catalogue, the balance and the connection.
Kept(a, b) ==
  /\ b.products = a.products /\ b.balance_gr = a.balance_gr
  /\ b.server_down = a.server_down /\ b.message \in {a.message, "other"}

SamePrompt(a, b) == b.selected = a.selected /\ b.mode = a.mode /\ b.pending = a.pending

\* The initial app_t is well formed.
LEMMA InitAppOk == ASSUME NEW P PROVE AppOk(P, app_init_state)
BY TuiAssumption DEF AppOk, AppOf, CursorOk, app_init_state

\* A message leaves everything else.
LEMMA SayOk ==
  ASSUME NEW P, NEW a, AppOk(P, a), NEW m \in {"done", "failed", "unreachable", "other"}
  PROVE  /\ AppOk(P, Say(a, m)) /\ SamePrompt(a, Say(a, m)) /\ Say(a, m).message = m
         /\ Say(a, m).products = a.products /\ Say(a, m).balance_gr = a.balance_gr
         /\ Say(a, m).server_down = a.server_down
BY DEF AppOk, AppOf, CursorOk, Say, SamePrompt

\* The ring of keys.
LEMMA KonamiOk ==
  ASSUME NEW P, NEW a, AppOk(P, a), NEW key
  PROVE  /\ AppOk(P, feed_konami(a, key)) /\ Kept(a, feed_konami(a, key))
         /\ SamePrompt(a, feed_konami(a, key))
<1> DEFINE K == ToSet(KONAMI_SEQ) \cup {"other"}
           k == IF key \in ToSet(KONAMI_SEQ) THEN key ELSE "other"
           old == IF Len(a.konami) < Len(KONAMI_SEQ) THEN a.konami ELSE Tail(a.konami)
           buf == Append(old, k)
<1>0. a.konami \in Seq(K) /\ Len(a.konami) <= Len(KONAMI_SEQ) /\ Len(KONAMI_SEQ) \in Nat \ {0}
  BY TuiAssumption DEF AppOk, AppOf
<1>1. k \in K
  OBVIOUS
<1> HIDE DEF K, k
<1>2. old \in Seq(K) /\ Len(old) < Len(KONAMI_SEQ)
  BY <1>0
<1> HIDE DEF old
<1>3. buf \in Seq(K) /\ Len(buf) <= Len(KONAMI_SEQ)
  BY <1>0, <1>1, <1>2
<1>4. feed_konami(a, key) = IF buf = KONAMI_SEQ
                            THEN [Say(a, "other") EXCEPT !.admin = ~@, !.konami = <<>>]
                            ELSE [a EXCEPT !.konami = buf]
  BY DEF feed_konami, buf, old, k
<1> HIDE DEF buf
<1>5. CASE buf = KONAMI_SEQ
  <2>1. <<>> \in Seq(K) /\ Len(<<>>) <= Len(KONAMI_SEQ)
    BY <1>0
  <2> QED
    BY <1>4, <1>5, <2>1 DEF AppOk, AppOf, CursorOk, Say, Kept, SamePrompt, K
<1>6. CASE buf # KONAMI_SEQ
  BY <1>3, <1>4, <1>6 DEF AppOk, AppOf, CursorOk, Kept, SamePrompt, K
<1> QED
  BY <1>5, <1>6

\* The prompt is closed.
LEMMA CloseOk ==
  ASSUME NEW P, NEW a, AppOk(P, a)
  PROVE  /\ AppOk(P, close_prompt(a)) /\ Kept(a, close_prompt(a))
         /\ close_prompt(a).mode = "browse" /\ close_prompt(a).message = a.message
<1>1. <<>> \in Seq(Characters) /\ Len(<<>>) < PROMPT_BUF_LEN
  BY TuiAssumption
<1>2. a \in AppOf(P) /\ AppOk(P, a)
  BY DEF AppOk
<1> QED
  BY <1>1, <1>2 DEF AppOk, AppOf, CursorOk, Kept, close_prompt

\* The prompt is opened, an admin's only on a product.
LEMMA OpenOk ==
  ASSUME NEW P, NEW a, AppOk(P, a), NEW action \in {"deposit", "restock", "price"}
  PROVE  /\ AppOk(P, open_prompt(a, action)) /\ Kept(a, open_prompt(a, action))
         /\ open_prompt(a, action).selected = a.selected
         /\ (a.mode = "browse" /\ open_prompt(a, action).pending \in {"restock", "price"}) => a.products # <<>>
<1>1. <<>> \in Seq(Characters) /\ Len(<<>>) < PROMPT_BUF_LEN
  BY TuiAssumption
<1>2. CASE a.products = <<>> /\ action # "deposit"
  <2>1. open_prompt(a, action) = Say(a, "other")
    BY <1>2 DEF open_prompt
  <2>2. a.mode = "browse" => a.pending = "none"
    BY DEF AppOk, AppOf
  <2> QED
    BY <2>1, <2>2, SayOk DEF Kept, SamePrompt
<1>3. CASE ~(a.products = <<>> /\ action # "deposit")
  <2>1. open_prompt(a, action) = [a EXCEPT !.mode = "prompt", !.pending = action, !.prompt_buf = <<>>]
    BY <1>3 DEF open_prompt
  <2>2. open_prompt(a, action).pending = action
    BY <2>1 DEF AppOk, AppOf
  <2> QED
    BY <1>1, <1>3, <2>1, <2>2 DEF AppOk, AppOf, CursorOk, Kept
<1> QED
  BY <1>2, <1>3

\* A key of the prompt stays within the buffer and leaves the selection alone.
LEMMA EditOk ==
  ASSUME NEW P, NEW a, AppOk(P, a), NEW key
  PROVE  /\ AppOk(P, edit_prompt(a, key)) /\ Kept(a, edit_prompt(a, key))
         /\ edit_prompt(a, key).mode = "browse" \/ SamePrompt(a, edit_prompt(a, key))
<1>0. a.prompt_buf \in Seq(Characters) /\ Len(a.prompt_buf) < PROMPT_BUF_LEN /\ PROMPT_BUF_LEN \in Nat
  BY TuiAssumption DEF AppOk, AppOf
<1>a. "esc" \notin Characters /\ "backspace" \notin Characters
  BY DEF Characters, Digit
<1>1. CASE key = "esc"
  <2>1. edit_prompt(a, key) = Say(close_prompt(a), "other")
    BY <1>1, <1>a DEF edit_prompt
  <2> QED
    BY <2>1, CloseOk, SayOk DEF Kept, SamePrompt
<1>2. CASE key # "esc" /\ key = "backspace" /\ a.prompt_buf # <<>>
  <2>1. edit_prompt(a, key) = [a EXCEPT !.prompt_buf = Front(@)]
    BY <1>2, <1>a DEF edit_prompt
  <2>2. Front(a.prompt_buf) \in Seq(Characters) /\ Len(Front(a.prompt_buf)) < PROMPT_BUF_LEN
    BY <1>0, <1>2 DEF Front
  <2> QED
    BY <2>1, <2>2 DEF AppOk, AppOf, CursorOk, Kept, SamePrompt
<1>3. CASE /\ key # "esc" /\ ~(key = "backspace" /\ a.prompt_buf # <<>>)
           /\ key \in Characters /\ Len(a.prompt_buf) < PROMPT_BUF_LEN - 1
  <2>1. edit_prompt(a, key) = [a EXCEPT !.prompt_buf = Append(@, key)]
    BY <1>3 DEF edit_prompt
  <2>2. Append(a.prompt_buf, key) \in Seq(Characters) /\ Len(Append(a.prompt_buf, key)) < PROMPT_BUF_LEN
    BY <1>0, <1>3
  <2> QED
    BY <2>1, <2>2 DEF AppOk, AppOf, CursorOk, Kept, SamePrompt
<1>4. CASE /\ key # "esc" /\ ~(key = "backspace" /\ a.prompt_buf # <<>>)
           /\ ~(key \in Characters /\ Len(a.prompt_buf) < PROMPT_BUF_LEN - 1)
  <2>1. edit_prompt(a, key) = a
    BY <1>4 DEF edit_prompt
  <2> QED
    BY <2>1 DEF Kept, SamePrompt
<1> QED
  BY <1>1, <1>2, <1>3, <1>4

\* Another product is selected.
LEMMA MoveOk ==
  ASSUME NEW P, NEW a, AppOk(P, a), NEW n \in Nat, a.products # <<>> => n < Len(a.products),
         a.products = <<>> => n = 0
  PROVE  /\ AppOk(P, [a EXCEPT !.selected = n]) /\ Kept(a, [a EXCEPT !.selected = n])
         /\ [a EXCEPT !.selected = n].mode = a.mode
BY DEF AppOk, AppOf, CursorOk, Kept

\* The slots of the catalogue are a shelf, and the selection a position on it.
LEMMA SlotsType ==
  ASSUME NEW P, NEW a, AppOk(P, a)
  PROVE  /\ slots(a) \in Seq(Nat) /\ Len(slots(a)) = Len(a.products)
         /\ slots(a) = <<>> <=> a.products = <<>>
         /\ a.products # <<>> => a.selected \in Positions(slots(a))
         /\ a.products # <<>> => Chosen(a) \in RowsOfPrice(P)
<1>1. a.products \in Seq(RowsOfPrice(P)) /\ a.selected \in Nat
  BY DEF AppOk, AppOf
<1>2. \A k \in 1..Len(a.products) : a.products[k].slot \in Nat
  <2>1. \A k \in 1..Len(a.products) : a.products[k] \in RowsOfPrice(P)
    BY <1>1
  <2>2. \A x \in RowsOfPrice(P) : x.slot \in Nat
    BY TuiAssumption DEF RowsOfPrice
  <2> QED
    BY <2>1, <2>2
<1>3. slots(a) \in Seq(Nat) /\ Len(slots(a)) = Len(a.products)
  <2>1. slots(a) = [k \in 1..Len(a.products) |-> a.products[k].slot]
    BY <1>1 DEF slots
  <2> QED
    BY <1>1, <1>2, <2>1
<1>4. slots(a) = <<>> <=> a.products = <<>>
  BY <1>1, <1>3
<1>5. a.products # <<>> => a.selected < Len(a.products) /\ a.selected + 1 \in 1..Len(a.products)
  BY <1>1 DEF AppOk, CursorOk
<1> QED
  BY <1>1, <1>3, <1>4, <1>5 DEF Positions, Chosen

\* A key of the browser keeps the cursor on the shelf.
LEMMA BrowseOk ==
  ASSUME NEW P, NEW a, AppOk(P, a), a.mode = "browse", NEW key
  PROVE  /\ AppOk(P, browse(a, key)) /\ Kept(a, browse(a, key))
         /\ browse(a, key).pending \in {"restock", "price"} => a.products # <<>>
<1>0. a.pending = "none" /\ a.selected \in Nat
  BY DEF AppOk, AppOf
<1>1. ASSUME NEW dir \in {-1, 1}, NEW n, n = move_horizontal(slots(a), a.selected, dir)
               \/ n = move_vertical(slots(a), a.selected, dir)
      PROVE  n \in Nat /\ (a.products # <<>> => n < Len(a.products)) /\ (a.products = <<>> => n = 0)
  <2>1. CASE a.products = <<>>
    <3>1. slots(a) = <<>>
      BY <2>1, SlotsType
    <3>2. a.selected = 0
      BY <1>0, <2>1 DEF AppOk, CursorOk
    <3> QED
      BY <1>1, <2>1, <3>1, <3>2 DEF move_horizontal, move_vertical
  <2>2. CASE a.products # <<>>
    <3>1. slots(a) \in Seq(Nat) /\ a.selected \in Positions(slots(a)) /\ Len(slots(a)) = Len(a.products)
      BY <2>2, SlotsType
    <3>2. n \in Positions(slots(a))
      BY <1>1, <3>1, HorizontalInside, VerticalInside
    <3> QED
      BY <2>2, <3>1, <3>2 DEF Positions
  <2> QED
    BY <2>1, <2>2
<1>2. CASE key \in {"left", "right", "up", "down"}
  <2>1. PICK dir \in {-1, 1} :
          \/ browse(a, key) = [a EXCEPT !.selected = move_horizontal(slots(a), a.selected, dir)]
          \/ browse(a, key) = [a EXCEPT !.selected = move_vertical(slots(a), a.selected, dir)]
    <3>1. key = "left" => browse(a, key) = [a EXCEPT !.selected = move_horizontal(slots(a), a.selected, -1)]
      BY DEF browse
    <3>2. key = "right" => browse(a, key) = [a EXCEPT !.selected = move_horizontal(slots(a), a.selected, 1)]
      BY DEF browse
    <3>3. key = "up" => browse(a, key) = [a EXCEPT !.selected = move_vertical(slots(a), a.selected, -1)]
      BY DEF browse
    <3>4. key = "down" => browse(a, key) = [a EXCEPT !.selected = move_vertical(slots(a), a.selected, 1)]
      BY DEF browse
    <3> QED
      BY <1>2, <3>1, <3>2, <3>3, <3>4
  <2>2. PICK n : /\ n \in Nat /\ (a.products # <<>> => n < Len(a.products)) /\ (a.products = <<>> => n = 0)
                 /\ browse(a, key) = [a EXCEPT !.selected = n]
    BY <1>1, <2>1
  <2>3. [a EXCEPT !.selected = n].pending = "none"
    BY <1>0 DEF AppOk, AppOf
  <2> QED
    BY <2>2, <2>3, MoveOk
<1>3. CASE \E action \in {"deposit", "restock", "price"} : browse(a, key) = open_prompt(a, action)
  BY <1>3, OpenOk
<1>4. CASE browse(a, key) = [Say(a, "other") EXCEPT !.admin = FALSE]
  BY <1>0, <1>4 DEF AppOk, AppOf, CursorOk, Kept, Say
<1>5. CASE browse(a, key) = a
  BY <1>0, <1>5 DEF Kept
<1>6. \/ key \in {"left", "right", "up", "down"}
      \/ \E action \in {"deposit", "restock", "price"} : browse(a, key) = open_prompt(a, action)
      \/ browse(a, key) = [Say(a, "other") EXCEPT !.admin = FALSE]
      \/ browse(a, key) = a
  BY DEF browse
<1> QED
  BY <1>2, <1>3, <1>4, <1>5, <1>6
\* The answer to GET /stock is a catalogue.
LEMMA OnSaleType == ASSUME NEW P, ServerOk(P) PROVE OnSale \in Seq(RowsOfPrice(P))
<1> DEFINE ids == OrderBy(shelf)
           n == Len(ids)
<1>1. shelf \subseteq Slots /\ IsFiniteSet(shelf) /\ shelf \in SUBSET Int
  BY ShelfSlots DEF ServerOk
<1>2. n \in Nat /\ DOMAIN ids = 1..n
  BY <1>1, OrderBySequence
<1>3. \A k \in 1..n : ids[k] \in Slots
  BY <1>1, OrderByInOrder
<1>4. OnSale = [k \in 1..n |-> [slot |-> ids[k], price |-> disk.price[ItemOf[ids[k]]],
                                qty |-> disk.qty[ids[k]]]]
  BY <1>2 DEF OnSale
<1> HIDE DEF ids, n
<1>5. \A s \in Slots : disk.price[ItemOf[s]] \in P /\ disk.qty[s] \in Nat
  BY TablesAssumption DEF ServerOk, ImageOf
<1>6. \A s \in Slots : [slot |-> s, price |-> disk.price[ItemOf[s]], qty |-> disk.qty[s]] \in RowsOfPrice(P)
  BY <1>5 DEF RowsOfPrice
<1> QED
  BY <1>2, <1>3, <1>4, <1>6

\* A new catalogue takes the cursor with it.
LEMMA ShowOk ==
  ASSUME NEW P, NEW a, AppOk(P, a), NEW list \in Seq(RowsOfPrice(P))
  PROVE  /\ AppOk(P, Show(a, list)) /\ Show(a, list).products = list
         /\ Show(a, list).balance_gr = a.balance_gr /\ Show(a, list).message = a.message
         /\ Show(a, list).mode = a.mode /\ Show(a, list).pending = a.pending
<1> DEFINE n == IF a.selected < Len(list) THEN a.selected ELSE IF list = <<>> THEN 0 ELSE Len(list) - 1
<1>1. Len(list) \in Nat /\ (list = <<>> <=> Len(list) = 0) /\ a.selected \in Nat
  BY DEF AppOk, AppOf
<1>2. n \in Nat /\ (n < Len(list) \/ (list = <<>> /\ n = 0))
  BY <1>1
<1>3. Show(a, list) = [a EXCEPT !.products = list, !.selected = n]
  BY DEF Show, AppOk, AppOf
<1> HIDE DEF n
<1> QED
  BY <1>2, <1>3 DEF AppOk, AppOf, CursorOk

\* A balance that was read is the only thing that changes in the application.
LEMMA BalanceOk ==
  ASSUME NEW P, NEW a, AppOk(P, a), NEW n \in Nat
  PROVE  /\ AppOk(P, [a EXCEPT !.balance_gr = n]) /\ SamePrompt(a, [a EXCEPT !.balance_gr = n])
         /\ [a EXCEPT !.balance_gr = n].balance_gr = n
         /\ [a EXCEPT !.balance_gr = n].products = a.products
         /\ [a EXCEPT !.balance_gr = n].message = a.message
BY DEF AppOk, AppOf, CursorOk, SamePrompt

\* The connection is lost or tried again.
LEMMA ConnectionOk ==
  ASSUME NEW P, NEW a, AppOk(P, a), NEW x \in BOOLEAN
  PROVE  /\ AppOk(P, [a EXCEPT !.server_down = x]) /\ SamePrompt(a, [a EXCEPT !.server_down = x])
         /\ [a EXCEPT !.server_down = x].server_down = x
         /\ [a EXCEPT !.server_down = x].balance_gr = a.balance_gr
         /\ [a EXCEPT !.server_down = x].products = a.products
         /\ [a EXCEPT !.server_down = x].message = a.message
BY DEF AppOk, AppOf, CursorOk, SamePrompt

\* A failed request leaves its message, which is neither "done" nor "failed".
LEMMA StatusOk ==
  ASSUME NEW P, NEW a, AppOk(P, a), NEW st
  PROVE  /\ AppOk(P, set_status(a, st)) /\ SamePrompt(a, set_status(a, st))
         /\ set_status(a, st).message \in {"unreachable", "other"}
         /\ set_status(a, st).products = a.products
<1>1. CASE st = "network"
  <2> DEFINE b == Say(a, "unreachable")
  <2>1. AppOk(P, b) /\ SamePrompt(a, b) /\ b.message = "unreachable" /\ b.products = a.products
    BY SayOk
  <2>2. set_status(a, st) = [b EXCEPT !.server_down = TRUE]
    BY <1>1 DEF set_status
  <2> HIDE DEF b
  <2>3. /\ AppOk(P, set_status(a, st)) /\ SamePrompt(b, set_status(a, st))
        /\ set_status(a, st).message = "unreachable" /\ set_status(a, st).products = a.products
    BY <2>1, <2>2, ConnectionOk
  <2> QED
    BY <2>1, <2>3 DEF SamePrompt
<1>2. CASE st # "network"
  BY <1>2, SayOk DEF set_status
<1> QED
  BY <1>1, <1>2

\* What a write says of itself.
LEMMA OutcomeOk ==
  ASSUME NEW P, NEW a, AppOk(P, a), NEW st \in {"ok", "http", "network"}
  PROVE  /\ AppOk(P, Outcome(a, st)) /\ SamePrompt(a, Outcome(a, st))
         /\ Outcome(a, st).message = "done" => st = "ok"
         /\ Outcome(a, st).message = "failed" => st = "http"
<1>1. CASE st = "ok"
  BY <1>1, SayOk DEF Outcome
<1>2. CASE st = "http"
  BY <1>2, SayOk DEF Outcome
<1>3. CASE st = "network"
  <2>1. Outcome(a, st) = set_status(a, st)
    BY <1>3 DEF Outcome
  <2>2. set_status(a, st).message \notin {"done", "failed"}
    BY StatusOk
  <2> QED
    BY <2>1, <2>2, StatusOk
<1> QED
  BY <1>1, <1>2, <1>3
-----------------------------------------------------------------------------
(* The key handler.                                                        *)

AdminOps == {"restock", "price"}
PromptOps == {"deposit", "restock", "price"}

\* The handler ends, or asks for the stock, without a write.
Continues ==
  /\ pc' \in {"key", "stock"} /\ UNCHANGED <<issued, moved>>
  /\ app'.products = app.products /\ app'.balance_gr = app.balance_gr
  /\ app'.message \in {app.message, "other"}
  /\ app'.mode = "prompt" => pc' = "key" /\ ~app'.server_down
  /\ app'.pending \in AdminOps =>
       app'.products # <<>> /\ (app.mode = "browse" \/ SamePrompt(app, app'))

\* The handler sends w, an admin's write for the product that is selected.
SendsWrite(w) ==
  /\ issued' = Append(issued, w) /\ w.fate = "open"
  /\ w.op \in PromptOps <=> app.mode = "prompt"
  /\ app.mode = "prompt" => w.op = app.pending
  /\ w.op \in AdminOps => app'.products # <<>> /\ w.slot = Chosen(app').slot
  /\ w.op = "price" => w.n \in 1..INT_MAX

Sends ==
  /\ pc' = "write" /\ moved' = FALSE /\ SamePrompt(app, app') /\ Kept(app, app')
  /\ ~app'.server_down /\ \E w \in Write : SendsWrite(w)

Quits == pc' = "quit" /\ app' = app_init_state /\ UNCHANGED <<issued, moved>>

PromptOpen == app.mode = "prompt" => ~app.server_down /\ pc \in {"key", "write"}

PendingOk == app.pending \in AdminOps => app.products # <<>>

\* A handler that ends here, one that refreshes, one that sends.
LEMMA IdleContinues ==
  ASSUME NEW P, NEW b, AppOk(P, b), Kept(app, b), Idle(b),
         b.mode = "prompt" => ~b.server_down,
         b.pending \in AdminOps => b.products # <<>> /\ (app.mode = "browse" \/ SamePrompt(app, b))
  PROVE  AppOk(P, app') /\ Continues
<1>1. app' = b /\ pc' = "key" /\ UNCHANGED <<issued, moved>>
  BY DEF Idle
<1>2. AppOk(P, app')
  BY <1>1
<1>3. Continues
  BY <1>1 DEF Continues, Kept, SamePrompt
<1> QED
  BY <1>2, <1>3

\* app_refresh goes on to read the stock, with the prompt closed.
LEMMA RefreshContinues ==
  ASSUME NEW P, NEW b, AppOk(P, b), Kept(app, b), b.mode = "browse", NEW msg, app_refresh(b, msg)
  PROVE  AppOk(P, app') /\ Continues
<1>1. app' = [b EXCEPT !.server_down = FALSE] /\ pc' = "stock" /\ UNCHANGED <<issued, moved>>
  BY DEF app_refresh
<1>2. AppOk(P, app') /\ SamePrompt(b, app') /\ app'.products = b.products
      /\ app'.balance_gr = b.balance_gr /\ app'.message = b.message
  BY <1>1, ConnectionOk
<1>3. app'.mode = "browse" /\ app'.pending = "none"
  BY <1>2 DEF SamePrompt, AppOk, AppOf
<1>4. Continues
  BY <1>1, <1>2, <1>3 DEF Continues, Kept, AdminOps
<1> QED
  BY <1>2, <1>4

\* A key that sends a request adds it to the requests, for the product it is about.
LEMMA RequestSends ==
  ASSUME NEW P, NEW a, AppOk(P, a), Kept(app, a), SamePrompt(app, a), ~a.server_down,
         user_id \in UserIds,
         NEW op \in {"purchase", "refund", "deposit", "restock", "price"},
         NEW slot \in Slots \cup {NoSlot}, NEW n \in Nat,
         op \in PromptOps <=> app.mode = "prompt",
         app.mode = "prompt" => op = app.pending,
         op \in AdminOps => a.products # <<>> /\ slot = Chosen(a).slot,
         op = "price" => n \in 1..INT_MAX,
         do_request(a, op, slot, n)
  PROVE  AppOk(P, app') /\ Sends
<1> DEFINE w == [op |-> op, user |-> user_id, slot |-> slot, n |-> n, fate |-> "open"]
<1>1. app' = a /\ pc' = "write" /\ moved' = FALSE /\ issued' = Append(issued, w)
  BY DEF do_request
<1>2. w \in Write
  BY DEF Write
<1>3. w.op = op /\ w.slot = slot /\ w.n = n /\ w.fate = "open"
  OBVIOUS
<1> HIDE DEF w
<1>4. SendsWrite(w)
  BY <1>1, <1>3 DEF SendsWrite, Chosen
<1>5. Sends
  BY <1>1, <1>2, <1>4 DEF Sends
<1> QED
  BY <1>1, <1>5

\* The Enter key of the prompt.
LEMMA ConfirmSteps ==
  ASSUME NEW P, NEW a, AppOk(P, a), Kept(app, a), SamePrompt(app, a), ~a.server_down,
         a.mode = "prompt", user_id \in UserIds, confirm_prompt(a)
  PROVE  AppOk(P, app') /\ (Continues \/ Sends)
<1> DEFINE n == IF a.pending = "restock" THEN parse_pos_int(a.prompt_buf)
                                         ELSE parse_zl_to_gr(a.prompt_buf)
           any == a.pending = "deposit" \/ a.products # <<>>
           slot == IF a.pending = "deposit" THEN NoSlot ELSE Chosen(a).slot
           c == close_prompt(a)
<1>0. a.pending \in PromptOps /\ a.prompt_buf \in Seq(Characters)
  BY DEF AppOk, AppOf, PromptOps
<1>1. n \in Int /\ n <= INT_MAX /\ INT_MAX \in Nat
  BY <1>0, ParsedFits, PromptAssumption
<1>2. AppOk(P, c) /\ Kept(app, c) /\ c.mode = "browse"
  BY CloseOk DEF Kept
<1>3. AppOk(P, Say(c, "other")) /\ Kept(app, Say(c, "other")) /\ Say(c, "other").mode = "browse"
  BY <1>2, SayOk DEF Kept, SamePrompt
<1>4. \/ any /\ n > 0 /\ do_request(a, a.pending, slot, n)
      \/ app_refresh(Say(c, "other"), "keep")
      \/ app_refresh(c, "keep")
  BY DEF confirm_prompt
<1> HIDE DEF n, c
<1>5. CASE any /\ n > 0 /\ do_request(a, a.pending, slot, n)
  <2>1. slot \in Slots \cup {NoSlot}
    BY <1>0, <1>5, SlotsType DEF RowsOfPrice
  <2>2. n \in Nat /\ n \in 1..INT_MAX
    BY <1>1, <1>5
  <2>3. /\ a.pending \in {"purchase", "refund", "deposit", "restock", "price"}
        /\ a.pending \in PromptOps <=> app.mode = "prompt"
        /\ app.mode = "prompt" => a.pending = app.pending
        /\ a.pending \in AdminOps => a.products # <<>> /\ slot = Chosen(a).slot
    BY <1>0, <1>5 DEF SamePrompt, PromptOps, AdminOps
  <2>4. do_request(a, a.pending, slot, n)
    BY <1>5
  <2> HIDE DEF slot, any
  <2> QED
    BY <2>1, <2>2, <2>3, <2>4, RequestSends
<1>6. CASE app_refresh(Say(c, "other"), "keep")
  BY <1>3, <1>6, RefreshContinues
<1>7. CASE app_refresh(c, "keep")
  BY <1>2, <1>7, RefreshContinues
<1> QED
  BY <1>4, <1>5, <1>6, <1>7

\* The Enter key of the browser.
LEMMA BuySteps ==
  ASSUME NEW P, NEW a, AppOk(P, a), Kept(app, a), SamePrompt(app, a), ~a.server_down,
         a.mode = "browse", user_id \in UserIds, do_buy(a)
  PROVE  AppOk(P, app') /\ (Continues \/ Sends)
<1>0. a.pending \notin AdminOps /\ app.mode = "browse"
  BY DEF AppOk, AppOf, AdminOps, SamePrompt
<1>1. CASE Idle(a)
  BY <1>0, <1>1, IdleContinues
<1>2. CASE Idle(Say(a, "other"))
  <2>1. AppOk(P, Say(a, "other")) /\ Kept(app, Say(a, "other")) /\ SamePrompt(a, Say(a, "other"))
    BY SayOk DEF Kept
  <2> QED
    BY <1>0, <1>2, <2>1, IdleContinues DEF SamePrompt
<1>3. CASE a.products # <<>> /\ do_request(a, "purchase", Chosen(a).slot, 0)
  <2>1. Chosen(a).slot \in Slots \cup {NoSlot}
    BY <1>3, SlotsType DEF RowsOfPrice
  <2> QED
    BY <1>0, <1>3, <2>1, RequestSends DEF PromptOps, AdminOps
<1> QED
  BY <1>1, <1>2, <1>3 DEF do_buy

\* Every key.
LEMMA KeySteps ==
  ASSUME NEW P, AppOk(P, app), PromptOpen, PendingOk, user_id \in UserIds,
         NEW key, app_handle_key(key)
  PROVE  AppOk(P, app') /\ (Continues \/ Sends \/ Quits)
<1> DEFINE a == feed_konami(app, key)
<1>1. AppOk(P, a) /\ Kept(app, a) /\ SamePrompt(app, a)
  BY KonamiOk
<1>2. a.mode \in {"browse", "prompt"} /\ (a.mode = "browse" => a.pending = "none")
      /\ (a.mode = "prompt" => ~a.server_down) /\ (a.server_down => a.mode = "browse")
      /\ (a.pending \in AdminOps => a.products # <<>>)
  BY <1>1 DEF AppOk, AppOf, PromptOpen, PendingOk, Kept, SamePrompt
<1>3. \/ app_refresh(a, "keep") /\ a.server_down
      \/ Quit
      \/ Idle(a) /\ a.server_down
      \/ ~a.server_down /\ a.mode = "prompt" /\ confirm_prompt(a)
      \/ ~a.server_down /\ a.mode = "prompt" /\ Idle(edit_prompt(a, key))
      \/ ~a.server_down /\ a.mode = "browse" /\ do_buy(a)
      \/ ~a.server_down /\ a.mode = "browse" /\ do_request(a, "refund", NoSlot, 0)
      \/ ~a.server_down /\ a.mode = "browse" /\ app_refresh(a, "overwrite")
      \/ ~a.server_down /\ a.mode = "browse" /\ Idle(browse(a, key))
  BY DEF app_handle_key
<1> HIDE DEF a
<1>4. CASE a.mode = "browse" /\ (app_refresh(a, "keep") \/ app_refresh(a, "overwrite"))
  BY <1>1, <1>4, RefreshContinues
<1>5. CASE Quit
  BY <1>5, InitAppOk DEF Quit, Quits
<1>6. CASE Idle(a) /\ a.server_down
  BY <1>1, <1>2, <1>6, IdleContinues
<1>7. CASE ~a.server_down /\ a.mode = "prompt" /\ confirm_prompt(a)
  BY <1>1, <1>7, ConfirmSteps
<1>8. CASE ~a.server_down /\ a.mode = "prompt" /\ Idle(edit_prompt(a, key))
  <2> DEFINE b == edit_prompt(a, key)
  <2>1. AppOk(P, b) /\ Kept(a, b) /\ (b.mode = "browse" \/ SamePrompt(a, b))
    BY <1>1, EditOk
  <2> HIDE DEF b
  <2>2. Kept(app, b) /\ (b.mode = "prompt" => ~b.server_down)
    BY <1>1, <1>8, <2>1 DEF Kept
  <2>3. b.pending \in AdminOps => b.products # <<>> /\ (app.mode = "browse" \/ SamePrompt(app, b))
    BY <1>1, <1>2, <2>1 DEF Kept, SamePrompt, AppOk, AdminOps
  <2>4. Idle(b)
    BY <1>8 DEF b
  <2> QED
    BY <2>1, <2>2, <2>3, <2>4, IdleContinues
<1>9. CASE ~a.server_down /\ a.mode = "browse" /\ do_buy(a)
  BY <1>1, <1>9, BuySteps
<1>10. CASE ~a.server_down /\ a.mode = "browse" /\ do_request(a, "refund", NoSlot, 0)
  <2>1. app.mode = "browse" /\ "refund" \notin PromptOps /\ "refund" \notin AdminOps
    BY <1>1, <1>10 DEF SamePrompt, PromptOps, AdminOps
  <2> QED
    BY <1>1, <1>10, <2>1, RequestSends
<1>11. CASE ~a.server_down /\ a.mode = "browse" /\ Idle(browse(a, key))
  <2> DEFINE b == browse(a, key)
  <2>1. AppOk(P, b) /\ Kept(a, b) /\ (b.pending \in AdminOps => a.products # <<>>)
    BY <1>1, <1>11, BrowseOk DEF AdminOps
  <2> HIDE DEF b
  <2>2. Kept(app, b) /\ ~b.server_down /\ app.mode = "browse"
    BY <1>1, <1>11, <2>1 DEF Kept, SamePrompt
  <2>3. b.pending \in AdminOps => b.products # <<>>
    BY <2>1 DEF Kept
  <2>4. Idle(b)
    BY <1>11 DEF b
  <2> QED
    BY <2>1, <2>2, <2>3, <2>4, IdleContinues
<1> QED
  BY <1>2, <1>3, <1>4, <1>5, <1>6, <1>7, <1>8, <1>9, <1>10, <1>11
-----------------------------------------------------------------------------
(* The returns of the requests, and the start.                             *)

\* The write that was waited for returns.  It is reported as done or failed only
\* if it is, and once done the screen is brought up to date.
Reports ==
  /\ pc = "write" /\ pc' \in {"key", "stock"} /\ UNCHANGED <<issued, moved>>
  /\ app'.mode = "browse"
  /\ app'.message = "done" => Last(issued).fate = "done" /\ pc' = "stock"
  /\ app'.message = "failed" => Last(issued).fate = "refused"

\* The stock arrives, or does not.
ReadsStock ==
  /\ pc = "stock" /\ pc' = "balance" /\ UNCHANGED <<issued, moved>>
  /\ app'.mode = app.mode
  /\ app'.message \in {"done", "failed"} => app'.message = app.message /\ app'.products = OnSale

\* The balance arrives, or does not.
ReadsBalance ==
  /\ pc = "balance" /\ pc' = "key" /\ UNCHANGED <<issued, moved>>
  /\ app'.mode = app.mode
  /\ app'.message \in {"done", "failed"} =>
       /\ app'.message = app.message /\ app'.products = app.products
       /\ app'.balance_gr = disk.balance[user_id]

\* The TUI starts.
Starts ==
  /\ pc = "off" /\ pc' = "stock" /\ UNCHANGED <<issued, moved>>
  /\ app'.mode = "browse" /\ app'.message = "other"

\* The answer of a write, with the message that it leaves in b.
LEMMA Answered ==
  ASSUME NEW P, NEW b, AppOk(P, b), b.mode = "browse", pc = "write",
         b.message = "done" => Last(issued).fate = "done",
         b.message = "failed" => Last(issued).fate = "refused",
         \/ Idle(b) /\ b.message # "done"
         \/ app_refresh(b, "keep")
  PROVE  AppOk(P, app') /\ Reports
<1>1. CASE Idle(b) /\ b.message # "done"
  BY <1>1 DEF Idle, Reports
<1>2. CASE app_refresh(b, "keep")
  <2>1. app' = [b EXCEPT !.server_down = FALSE] /\ pc' = "stock" /\ UNCHANGED <<issued, moved>>
    BY <1>2 DEF app_refresh
  <2>2. AppOk(P, app') /\ SamePrompt(b, app') /\ app'.message = b.message
    BY <2>1, ConnectionOk
  <2> QED
    BY <2>1, <2>2 DEF Reports, SamePrompt
<1> QED
  BY <1>1, <1>2

\* The answer to a write sets the message that tells its outcome, and a refresh follows.
LEMMA WriteReturns ==
  ASSUME NEW P, AppOk(P, app), PromptOpen, NEW st \in {"ok", "http", "network"},
         pc = "write" => (Last(issued).op \in PromptOps <=> app.mode = "prompt"),
         BuyReturns(st) \/ CashoutReturns(st) \/ PromptReturns(st)
  PROVE  AppOk(P, app') /\ Reports
<1> DEFINE b == Outcome(app, st)
<1>1. /\ AppOk(P, b) /\ SamePrompt(app, b)
      /\ b.message = "done" => st = "ok"
      /\ b.message = "failed" => st = "http"
  BY OutcomeOk
<1>2. pc = "write" /\ Returned(st)
  BY DEF BuyReturns, CashoutReturns, PromptReturns
<1>3. /\ b.message = "done" => Last(issued).fate = "done"
      /\ b.message = "failed" => Last(issued).fate = "refused"
  BY <1>1, <1>2 DEF Returned
<1>4. CASE BuyReturns(st) \/ CashoutReturns(st)
  <2>1. Last(issued).op \notin PromptOps
    BY <1>4 DEF BuyReturns, CashoutReturns, PromptOps
  <2>2. b.mode = "browse"
    BY <1>1, <1>2, <2>1 DEF AppOk, AppOf, SamePrompt
  <2>3. (Idle(b) /\ st # "ok") \/ app_refresh(b, "keep")
    BY <1>4 DEF BuyReturns, CashoutReturns
  <2> HIDE DEF b
  <2> QED
    BY <1>1, <1>2, <1>3, <2>2, <2>3, Answered
<1>5. CASE PromptReturns(st)
  <2> DEFINE c == close_prompt(b)
  <2>1. /\ AppOk(P, c) /\ Kept(b, c) /\ c.mode = "browse" /\ c.message = b.message
    BY <1>1, CloseOk
  <2>2. ~app.server_down
    BY <1>2, <1>5 DEF PromptReturns, PromptOps, PromptOpen
  <2>3. b.server_down => b.message # "done"
    <3>1. CASE st = "ok"
      <4>1. b.server_down = app.server_down
        BY <3>1, SayOk DEF Outcome
      <4> QED
        BY <2>2, <4>1
    <3>2. CASE st # "ok"
      BY <1>1, <3>2
    <3> QED
      BY <3>1, <3>2
  <2>4. IF c.server_down THEN Idle(c) ELSE app_refresh(c, "keep")
    BY <1>5 DEF PromptReturns
  <2> HIDE DEF b, c
  <2>5. (Idle(c) /\ c.message # "done") \/ app_refresh(c, "keep")
    BY <2>1, <2>3, <2>4 DEF Kept
  <2> QED
    BY <1>2, <1>3, <2>1, <2>5, Answered
<1> QED
  BY <1>4, <1>5

\* The answer about the stock replaces the products and brings the cursor inside.
LEMMA StockSteps ==
  ASSUME NEW P, ServerOk(P), AppOk(P, app), NEW st, StockReturns(st)
  PROVE  AppOk(P, app') /\ ReadsStock
<1>0. pc = "stock" /\ pc' = "balance" /\ UNCHANGED <<issued, moved>>
      /\ app' = IF st = "ok" THEN Show(app, OnSale) ELSE set_status(app, st)
  BY DEF StockReturns
<1>1. CASE st = "ok"
  <2>1. app' = Show(app, OnSale) /\ OnSale \in Seq(RowsOfPrice(P))
    BY <1>0, <1>1, OnSaleType
  <2>2. AppOk(P, app') /\ app'.products = OnSale /\ app'.message = app.message /\ app'.mode = app.mode
    BY <2>1, ShowOk
  <2> QED
    BY <1>0, <2>2 DEF ReadsStock
<1>2. CASE st # "ok"
  <2>1. AppOk(P, app') /\ SamePrompt(app, app') /\ app'.message \in {"unreachable", "other"}
    BY <1>0, <1>2, StatusOk
  <2> QED
    BY <1>0, <2>1 DEF ReadsStock, SamePrompt
<1> QED
  BY <1>1, <1>2

\* The answer about the balance ends the refresh.
LEMMA BalanceSteps ==
  ASSUME NEW P, ServerOk(P), AppOk(P, app), user_id \in UserIds, NEW st, BalanceReturns(st)
  PROVE  AppOk(P, app') /\ ReadsBalance
<1> DEFINE n == disk.balance[user_id]
           a == IF st = "ok" THEN [app EXCEPT !.balance_gr = n] ELSE set_status(app, st)
<1>1. n \in Nat
  BY DEF ServerOk, ImageOf
<1>2. /\ AppOk(P, a) /\ a.mode = app.mode
      /\ a.message \in {"done", "failed"} =>
           a.message = app.message /\ a.products = app.products /\ a.balance_gr = n
  <2>1. CASE st = "ok"
    <3>1. a = [app EXCEPT !.balance_gr = n]
      BY <2>1
    <3> HIDE DEF a, n
    <3> QED
      BY <1>1, <3>1, BalanceOk DEF SamePrompt
  <2>2. CASE st # "ok"
    <3>1. a = set_status(app, st)
      BY <2>2
    <3> HIDE DEF a
    <3> QED
      BY <3>1, StatusOk DEF SamePrompt
  <2> QED
    BY <2>1, <2>2
<1>3. pc = "balance" /\ Idle(IF after = "keep" THEN a ELSE Say(a, "other"))
  BY DEF BalanceReturns
<1> HIDE DEF a, n
<1>4. CASE after = "keep"
  BY <1>2, <1>3, <1>4 DEF Idle, ReadsBalance, n
<1>5. CASE after # "keep"
  <2>1. app' = Say(a, "other") /\ pc' = "key" /\ UNCHANGED <<issued, moved>>
    BY <1>3, <1>5 DEF Idle
  <2>2. AppOk(P, app') /\ SamePrompt(a, app') /\ app'.message = "other"
    BY <1>2, <2>1, SayOk
  <2> QED
    BY <1>2, <1>3, <2>1, <2>2 DEF ReadsBalance, SamePrompt
<1> QED
  BY <1>4, <1>5

\* main starts with the state of app_init and a refresh.
LEMMA LoginSteps == ASSUME NEW P, Login PROVE AppOk(P, app') /\ Starts
<1>1. /\ pc = "off" /\ pc' = "stock" /\ UNCHANGED <<issued, moved>>
      /\ app' = [app_init_state EXCEPT !.server_down = FALSE]
  BY DEF Login, main, app_refresh
<1>2. /\ AppOk(P, app') /\ SamePrompt(app_init_state, app') /\ app'.message = app_init_state.message
  BY <1>1, InitAppOk, ConnectionOk
<1>3. app_init_state.mode = "browse" /\ app_init_state.message = "other"
  BY DEF app_init_state
<1> QED
  BY <1>1, <1>2, <1>3 DEF Starts, SamePrompt

\* A step of the client is one of these.
ClientDoes ==
  \/ pc = "key" /\ (Continues \/ Sends \/ Quits)
  \/ Reports \/ ReadsStock \/ ReadsBalance \/ Starts

\* The slot for which a prompt was opened.
Targets ==
  \/ /\ pc = "key"
     /\ target' = IF app.mode = "browse" /\ app'.mode = "prompt" /\ app'.products # <<>>
                  THEN Chosen(app').slot ELSE target
  \/ pc # "key" /\ target' \in {target, NoSlot} /\ app'.mode = "browse"

\* Every step of the client is one of the cases above.
LEMMA ClientSteps ==
  ASSUME NEW P, ServerOk(P), ClientOk(P), PromptInv, ClientStep
  PROVE  AppOk(P, app') /\ ClientDoes /\ Targets
<1>0. /\ AppOk(P, app) /\ user_id \in UserIds /\ PromptOpen /\ PendingOk
      /\ pc = "write" => (Last(issued).op \in PromptOps <=> app.mode = "prompt")
  BY DEF ClientOk, PromptInv, PromptOpen, PendingOk, AdminOps, PromptOps
<1>a. app.mode \in {"browse", "prompt"} /\ (pc \notin {"key", "write"} => app.mode = "browse")
  BY <1>0 DEF AppOk, AppOf, PromptOpen
<1>1. ASSUME NEW key \in Keys, app_handle_key(key) PROVE AppOk(P, app') /\ ClientDoes /\ Targets
  <2>1. AppOk(P, app') /\ (Continues \/ Sends \/ Quits)
    BY <1>0, <1>1, KeySteps
  <2>2. pc = "key" /\ Targets
    BY <1>1 DEF app_handle_key, Targets
  <2> QED
    BY <2>1, <2>2 DEF ClientDoes
<1>2. ASSUME NEW st \in {"ok", "http", "network"},
             BuyReturns(st) \/ CashoutReturns(st) \/ PromptReturns(st)
      PROVE  AppOk(P, app') /\ ClientDoes /\ Targets
  <2>1. AppOk(P, app') /\ Reports
    BY <1>0, <1>2, WriteReturns
  <2>2. target' \in {target, NoSlot}
    BY <1>2 DEF BuyReturns, CashoutReturns, PromptReturns
  <2> QED
    BY <2>1, <2>2 DEF ClientDoes, Targets, Reports
<1>3. ASSUME NEW st, StockReturns(st) PROVE AppOk(P, app') /\ ClientDoes /\ Targets
  <2>1. AppOk(P, app') /\ ReadsStock
    BY <1>0, <1>3, StockSteps
  <2>2. target' = target
    BY <1>3 DEF StockReturns
  <2> QED
    BY <1>a, <2>1, <2>2 DEF ClientDoes, Targets, ReadsStock
<1>4. ASSUME NEW st, BalanceReturns(st) PROVE AppOk(P, app') /\ ClientDoes /\ Targets
  <2>1. AppOk(P, app') /\ ReadsBalance
    BY <1>0, <1>4, BalanceSteps
  <2>2. target' = target
    BY <1>4 DEF BalanceReturns
  <2> QED
    BY <1>a, <2>1, <2>2 DEF ClientDoes, Targets, ReadsBalance
<1>5. CASE Login
  <2>1. AppOk(P, app') /\ Starts
    BY <1>5, LoginSteps
  <2>2. target' = target
    BY <1>5 DEF Login, main
  <2> QED
    BY <2>1, <2>2 DEF ClientDoes, Targets, Starts
<1> QED
  BY <1>1, <1>2, <1>3, <1>4, <1>5 DEF ClientStep, Returns
-----------------------------------------------------------------------------
(* Each part of the invariant is kept.                                     *)

\* A request that is carried out or refused stays the request it was.
LEMMA ServedWrites ==
  ASSUME NEW P, WritesOk(P), NEW i \in DOMAIN issued, NEW f \in {"done", "refused"},
         issued' = [issued EXCEPT ![i].fate = f]
  PROVE  /\ WritesOk(P)' /\ Len(issued') = Len(issued) /\ DOMAIN issued' = DOMAIN issued
         /\ \A k \in DOMAIN issued :
              /\ issued'[k].op = issued[k].op /\ issued'[k].slot = issued[k].slot
              /\ k # i => issued'[k] = issued[k]
<1>1. issued \in Seq(Write) /\ \A k \in DOMAIN issued : issued[k] \in Write
  BY DEF WritesOk
<1>2. DOMAIN issued' = DOMAIN issued /\ \A k \in DOMAIN issued :
        issued'[k] = IF k = i THEN [issued[k] EXCEPT !.fate = f] ELSE issued[k]
  OBVIOUS
<1>3. \A w \in Write : /\ [w EXCEPT !.fate = f] \in Write
                       /\ [w EXCEPT !.fate = f].op = w.op /\ [w EXCEPT !.fate = f].slot = w.slot
                       /\ [w EXCEPT !.fate = f].n = w.n
  BY DEF Write
<1>4. \A k \in DOMAIN issued :
        /\ issued'[k] \in Write /\ issued'[k].op = issued[k].op /\ issued'[k].slot = issued[k].slot
        /\ issued'[k].n = issued[k].n
  BY <1>1, <1>2, <1>3
<1>5. issued' \in Seq(Write) /\ Len(issued') = Len(issued)
  BY <1>1, <1>2, <1>4
<1> QED
  BY <1>2, <1>4, <1>5 DEF WritesOk

\* A reseed of the database leaves every request the request it was.
LEMMA LostWrites ==
  ASSUME NEW P, WritesOk(P), Reseed
  PROVE  /\ WritesOk(P)' /\ Len(issued') = Len(issued) /\ DOMAIN issued' = DOMAIN issued
         /\ \A k \in DOMAIN issued :
              /\ issued'[k].op = issued[k].op /\ issued'[k].slot = issued[k].slot
              /\ issued[k].fate # "open" => issued'[k] = issued[k]
<1>1. issued \in Seq(Write) /\ \A k \in DOMAIN issued : issued[k] \in Write
  BY DEF WritesOk
<1>2. DOMAIN issued' = DOMAIN issued /\ \A k \in DOMAIN issued :
        issued'[k] = IF issued[k].fate = "open" THEN [issued[k] EXCEPT !.fate = "lost"] ELSE issued[k]
  BY DEF Reseed
<1>3. \A w \in Write : /\ [w EXCEPT !.fate = "lost"] \in Write
                       /\ [w EXCEPT !.fate = "lost"].op = w.op /\ [w EXCEPT !.fate = "lost"].slot = w.slot
                       /\ [w EXCEPT !.fate = "lost"].n = w.n
  BY DEF Write
<1>4. \A k \in DOMAIN issued :
        /\ issued'[k] \in Write /\ issued'[k].op = issued[k].op /\ issued'[k].slot = issued[k].slot
        /\ issued'[k].n = issued[k].n
  BY <1>1, <1>2, <1>3
<1>5. issued' \in Seq(Write) /\ Len(issued') = Len(issued)
  <2>1. issued' = [k \in DOMAIN issued |->
                     IF issued[k].fate = "open" THEN [issued[k] EXCEPT !.fate = "lost"] ELSE issued[k]]
    BY DEF Reseed
  <2>2. DOMAIN issued = 1..Len(issued) /\ Len(issued) \in Nat
    BY <1>1
  <2>3. \A k \in 1..Len(issued) :
          (IF issued[k].fate = "open" THEN [issued[k] EXCEPT !.fate = "lost"] ELSE issued[k]) \in Write
    BY <1>1, <1>3, <2>2
  <2> QED
    BY <2>1, <2>2, <2>3
<1> QED
  BY <1>2, <1>4, <1>5 DEF WritesOk

\* What the other clients and the server do to the writes of this one: a write
\* that was answered keeps its answer.
LEMMA WritesKept ==
  ASSUME NEW P, WritesOk(P), ServerStep
  PROVE  /\ WritesOk(P)' /\ Len(issued') = Len(issued) /\ DOMAIN issued' = DOMAIN issued
         /\ \A k \in DOMAIN issued :
              /\ issued'[k].op = issued[k].op /\ issued'[k].slot = issued[k].slot
              /\ issued[k].fate # "open" => issued'[k] = issued[k]
<1>1. CASE UNCHANGED issued
  BY <1>1 DEF WritesOk
<1>2. CASE Reseed
  BY <1>2, LostWrites
<1>3. ASSUME NEW i \in DOMAIN issued, Serve(i)
      PROVE  /\ WritesOk(P)' /\ Len(issued') = Len(issued) /\ DOMAIN issued' = DOMAIN issued
             /\ \A k \in DOMAIN issued :
                  /\ issued'[k].op = issued[k].op /\ issued'[k].slot = issued[k].slot
                  /\ issued[k].fate # "open" => issued'[k] = issued[k]
  <2>1. issued[i].fate = "open" /\ \E f \in {"done", "refused"} : issued' = [issued EXCEPT ![i].fate = f]
    BY <1>3 DEF Serve
  <2> QED
    BY <2>1, ServedWrites
<1>4. \/ UNCHANGED issued \/ Reseed \/ \E i \in DOMAIN issued : Serve(i)
  BY DEF ServerStep, Others, Identify, IdentifyLate, Commit, Visitor, Elsewhere
<1> QED
  BY <1>1, <1>2, <1>3, <1>4

\* Every step keeps WritesOk.
LEMMA NextWrites ==
  ASSUME NEW P, Prices(P), ServerOk(P), WritesOk(P), ClientOk(P), PromptInv, [Next]_svars
  PROVE  WritesOk(P)'
<1>1. CASE UNCHANGED issued
  BY <1>1 DEF WritesOk
<1>2. CASE ServerStep
  BY <1>2, WritesKept
<1>3. CASE ClientStep
  <2>1. ClientDoes
    BY <1>3, ClientSteps
  <2>2. CASE Sends
    <3>1. PICK w \in Write : SendsWrite(w)
      BY <2>2 DEF Sends
    <3>2. issued' = Append(issued, w) /\ (w.op = "price" => w.n \in P)
      BY <3>1 DEF SendsWrite, Prices
    <3>3. issued \in Seq(Write) /\ issued' \in Seq(Write)
      BY <3>2 DEF WritesOk
    <3>4. \A k \in DOMAIN issued' : issued'[k].op = "price" => issued'[k].n \in P
      <4> SUFFICES ASSUME NEW k \in DOMAIN issued' PROVE issued'[k].op = "price" => issued'[k].n \in P
        OBVIOUS
      <4>1. CASE k \in DOMAIN issued
        <5>1. issued'[k] = issued[k]
          BY <3>2, <3>3, <4>1
        <5> QED
          BY <4>1, <5>1 DEF WritesOk
      <4>2. CASE k \notin DOMAIN issued
        <5>1. issued'[k] = w
          BY <3>2, <3>3, <4>2
        <5> QED
          BY <3>2, <5>1
      <4> QED
        BY <4>1, <4>2
    <3> QED
      BY <3>3, <3>4 DEF WritesOk
  <2> QED
    BY <1>1, <2>1, <2>2 DEF ClientDoes, Continues, Quits, Reports, ReadsStock, ReadsBalance, Starts
<1>4. ScriptStep \/ UNCHANGED svars => UNCHANGED issued
  BY ScriptLeavesBoth DEF svars, vars
<1> QED
  BY <1>1, <1>2, <1>3, <1>4, Steps

\* The remaining variables of the client.
LEMMA ClientTypes ==
  ASSUME NEW P, ClientOk(P), ClientStep, cmd \in UserIds \cup {0}
  PROVE  /\ pressed' \in 0..MaxKeys /\ after' \in {"keep", "overwrite"} /\ user_id' \in UserIds
         /\ moved' \in BOOLEAN
<1>0. pressed \in 0..MaxKeys /\ after \in {"keep", "overwrite"} /\ user_id \in UserIds /\ moved \in BOOLEAN
  BY DEF ClientOk
<1>1. CASE Login
  BY <1>0, <1>1, TuiAssumption, TablesAssumption DEF Login, main, app_refresh
<1>2. ASSUME NEW key \in Keys, app_handle_key(key)
      PROVE  /\ pressed' \in 0..MaxKeys /\ after' \in {"keep", "overwrite"} /\ user_id' \in UserIds
             /\ moved' \in BOOLEAN
  <2>1. pressed' \in 0..MaxKeys /\ user_id' \in UserIds
    <3>1. pressed < MaxKeys /\ pressed' = pressed + 1 /\ user_id' = user_id
      BY <1>2 DEF app_handle_key
    <3> QED
      BY <1>0, <3>1, TuiAssumption
  <2>2. after' \in {"keep", "overwrite"} /\ moved' \in BOOLEAN
    BY <1>0, <1>2 DEF app_handle_key, app_refresh, Quit, Idle, confirm_prompt, do_buy, do_request
  <2> QED
    BY <2>1, <2>2
<1>3. ASSUME Returns
      PROVE  /\ pressed' \in 0..MaxKeys /\ after' \in {"keep", "overwrite"} /\ user_id' \in UserIds
             /\ moved' \in BOOLEAN
  BY <1>0, <1>3 DEF Returns, BuyReturns, CashoutReturns, PromptReturns, StockReturns, BalanceReturns,
                    Idle, app_refresh
<1> QED
  BY <1>1, <1>2, <1>3 DEF ClientStep

\* Every step keeps ClientOk.
LEMMA NextClient ==
  ASSUME NEW P, ServerOk(P), ClientOk(P), PromptInv, GateInv, [Next]_svars
  PROVE  ClientOk(P)'
<1>1. CASE ClientStep
  <2>1. AppOk(P, app') /\ ClientDoes /\ Targets
    BY <1>1, ClientSteps
  <2>2. pc' \in {"off", "key", "write", "stock", "balance", "quit"}
    BY <2>1 DEF ClientDoes, Continues, Sends, Quits, Reports, ReadsStock, ReadsBalance, Starts
  <2>3. app'.products # <<>> => Chosen(app').slot \in Slots
    BY <2>1, SlotsType DEF RowsOfPrice
  <2>4. target' \in Slots \cup {NoSlot}
    BY <2>1, <2>3 DEF Targets, ClientOk
  <2>5. /\ pressed' \in 0..MaxKeys /\ after' \in {"keep", "overwrite"} /\ user_id' \in UserIds
        /\ moved' \in BOOLEAN
    BY <1>1, ClientTypes DEF GateInv
  <2>6. AppOk(P, app)'
    BY <2>1 DEF AppOk, CursorOk
  <2> QED
    BY <2>2, <2>4, <2>5, <2>6 DEF ClientOk
<1>2. CASE UNCHANGED <<pressed, pc, after, user_id, app, target>> /\ moved' \in BOOLEAN
  BY <1>2 DEF ClientOk, AppOk, CursorOk
<1>3. ServerStep => UNCHANGED <<pressed, pc, after, user_id, app, target>> /\ moved' \in BOOLEAN
  <2>1. moved \in BOOLEAN
    BY DEF ClientOk
  <2>2. ServerStep => moved' \in BOOLEAN
    BY <2>1 DEF ServerStep, Identify, IdentifyLate, Visitor, Commit, Others, Elsewhere, Reseed, Serve
  <2> QED
    BY <2>2, ServerLeavesClient
<1>4. (ScriptStep \/ UNCHANGED svars) => UNCHANGED <<pressed, pc, after, user_id, app, target>> /\ moved' \in BOOLEAN
  BY ScriptLeavesBoth DEF svars, vars, ClientOk
<1> QED
  BY <1>1, <1>2, <1>3, <1>4, Steps
\* Every step keeps PromptInv.
LEMMA NextPrompt ==
  ASSUME NEW P, ServerOk(P), WritesOk(P), ClientOk(P), PromptInv, [Next]_svars
  PROVE  PromptInv'
<1>1. CASE ClientStep
  <2>1. AppOk(P, app') /\ ClientDoes /\ Targets
    BY <1>1, ClientSteps
  <2>2. app'.mode \in {"browse", "prompt"} /\ (app'.mode = "prompt" <=> app'.pending # "none")
        /\ app.mode \in {"browse", "prompt"}
    BY <2>1 DEF AppOk, AppOf, ClientOk
  <2>3. CASE app'.mode = "browse" /\ pc' # "write"
    <3>1. app'.pending \notin {"restock", "price"}
      BY <2>2, <2>3
    <3> QED
      BY <2>3, <3>1 DEF PromptInv, PromptTarget
  <2>4. CASE pc = "key" /\ Continues
    <3>1. target' = IF app.mode = "browse" /\ app'.mode = "prompt" /\ app'.products # <<>>
                    THEN Chosen(app').slot ELSE target
      BY <2>1, <2>4 DEF Targets
    <3>2. ASSUME app'.pending \in AdminOps PROVE app'.products # <<>> /\ Chosen(app').slot = target'
      <4>1. app'.products # <<>> /\ (app.mode = "browse" \/ SamePrompt(app, app'))
            /\ app'.products = app.products /\ app'.mode = "prompt"
        BY <2>2, <2>4, <3>2 DEF Continues, AdminOps
      <4>2. CASE app.mode = "browse"
        BY <3>1, <4>1, <4>2
      <4>3. CASE app.mode = "prompt" /\ SamePrompt(app, app')
        <5>1. app.pending \in {"restock", "price"}
          BY <3>2, <4>3 DEF SamePrompt, AdminOps
        <5>2. Chosen(app).slot = target
          BY <5>1 DEF PromptInv
        <5>3. Chosen(app') = Chosen(app) /\ target' = target
          BY <3>1, <4>1, <4>3 DEF Chosen, SamePrompt
        <5> QED
          BY <4>1, <5>2, <5>3
      <4> QED
        BY <2>2, <4>1, <4>2, <4>3
    <3>3. app'.mode = "prompt" => pc' = "key" /\ ~app'.server_down
      BY <2>4 DEF Continues
    <3>4. pc' # "write"
      BY <2>4 DEF Continues
    <3>5. Chosen(app)' = Chosen(app')
      BY DEF Chosen
    <3> QED
      BY <3>2, <3>3, <3>4, <3>5 DEF PromptInv, PromptTarget, AdminOps
  <2>5. CASE pc = "key" /\ Sends
    <3>1. PICK w \in Write : SendsWrite(w)
      BY <2>5 DEF Sends
    <3>2. issued' # <<>> /\ Last(issued') = w
      <4>1. issued' = Append(issued, w) /\ issued \in Seq(Write)
        BY <3>1 DEF SendsWrite, WritesOk
      <4> QED
        BY <4>1 DEF Last
    <3>3. /\ app'.mode = app.mode /\ app'.pending = app.pending /\ Chosen(app') = Chosen(app)
          /\ app'.products = app.products /\ ~app'.server_down /\ pc' = "write"
      BY <2>5 DEF Sends, SamePrompt, Kept, Chosen
    <3>4. target' = target
      <4>1. ~(app.mode = "browse" /\ app'.mode = "prompt")
        BY <3>3
      <4> QED
        BY <2>1, <2>5, <4>1 DEF Targets
    <3>5. app'.pending \in AdminOps => app'.products # <<>> /\ Chosen(app').slot = target'
      BY <3>3, <3>4 DEF PromptInv, AdminOps
    <3>6. w.op \in PromptOps <=> app'.mode = "prompt"
      BY <3>1, <3>3 DEF SendsWrite
    <3>7. w.op \in AdminOps => w.slot = target'
      <4>1. w.op \in AdminOps => w.slot = Chosen(app').slot /\ w.op = app.pending
        BY <3>1 DEF SendsWrite, AdminOps, PromptOps
      <4> QED
        BY <3>3, <3>5, <4>1
    <3>8. Chosen(app)' = Chosen(app') /\ Last(issued)' = Last(issued')
      BY DEF Chosen, Last
    <3> QED
      BY <3>2, <3>3, <3>5, <3>6, <3>7, <3>8 DEF PromptInv, PromptTarget, AdminOps, PromptOps
  <2>6. (pc = "key" /\ Quits) \/ Reports \/ Starts => app'.mode = "browse" /\ pc' # "write"
    BY DEF Quits, Reports, Starts, app_init_state
  <2>7. ReadsStock \/ ReadsBalance => app'.mode = "browse" /\ pc' # "write"
    BY <2>2 DEF ReadsStock, ReadsBalance, PromptInv
  <2> QED
    BY <2>1, <2>3, <2>4, <2>5, <2>6, <2>7 DEF ClientDoes
<1>2. CASE UNCHANGED <<pc, app, target, issued>>
  BY <1>2 DEF PromptInv, PromptTarget, Chosen, Last
<1>3. CASE ServerStep
  <2>1. UNCHANGED <<pc, app, target>>
    BY <1>3, ServerLeavesClient
  <2>2. issued # <<>> => /\ issued' # <<>> /\ Last(issued').op = Last(issued).op
                         /\ Last(issued').slot = Last(issued).slot
    <3>1. issued \in Seq(Write) /\ issued' \in Seq(Write) /\ Len(issued') = Len(issued)
          /\ \A k \in DOMAIN issued : issued'[k].op = issued[k].op /\ issued'[k].slot = issued[k].slot
      BY <1>3, WritesKept DEF WritesOk
    <3>2. issued # <<>> => Len(issued) \in DOMAIN issued /\ issued' # <<>>
      BY <3>1
    <3> QED
      BY <3>1, <3>2 DEF Last
  <2>3. Last(issued)' = Last(issued') /\ Chosen(app)' = Chosen(app)
    BY <2>1 DEF Last, Chosen
  <2> QED
    BY <2>1, <2>2, <2>3 DEF PromptInv, PromptTarget
<1>4. ScriptStep \/ UNCHANGED svars => UNCHANGED <<pc, app, target, issued>>
  BY ScriptLeavesBoth DEF svars, vars
<1> QED
  BY <1>1, <1>2, <1>3, <1>4, Steps

\* Every step keeps Told.
LEMMA NextTold ==
  ASSUME NEW P, ServerOk(P), WritesOk(P), ClientOk(P), PromptInv, Told, [Next]_svars
  PROVE  Told'
<1>0. Last(issued)' = Last(issued')
  BY DEF Last
<1>1. CASE ClientStep
  <2>1. ClientDoes
    BY <1>1, ClientSteps
  <2>2. CASE pc' = "write"
    BY <2>2 DEF Told
  <2>3. CASE pc # "write" /\ issued' = issued /\ app'.message \in {app.message, "other"}
    BY <1>0, <2>3 DEF Told
  <2>4. CASE app'.message \notin {"done", "failed"}
    BY <2>4 DEF Told
  <2>5. CASE Reports
    BY <1>0, <2>5 DEF Told, Reports
  <2>6. CASE ReadsStock \/ ReadsBalance
    <3>1. pc # "write" /\ issued' = issued
          /\ (app'.message \in {app.message, "other"} \/ app'.message \notin {"done", "failed"})
      BY <2>6 DEF ReadsStock, ReadsBalance
    <3> QED
      BY <2>3, <2>4, <3>1
  <2>7. CASE pc = "key" /\ Continues
    BY <2>3, <2>7 DEF Continues
  <2>8. Sends => pc' = "write"
    BY DEF Sends
  <2>9. Quits \/ Starts => app'.message \notin {"done", "failed"}
    BY DEF Quits, Starts, app_init_state
  <2> QED
    BY <2>1, <2>2, <2>4, <2>5, <2>6, <2>7, <2>8, <2>9 DEF ClientDoes
<1>2. CASE UNCHANGED <<pc, app, issued>>
  BY <1>2 DEF Told, Last
<1>3. CASE ServerStep
  <2>1. UNCHANGED <<pc, app>>
    BY <1>3, ServerLeavesClient
  <2>2. issued \in Seq(Write) /\ issued' \in Seq(Write) /\ Len(issued') = Len(issued)
        /\ \A k \in DOMAIN issued : issued[k].fate # "open" => issued'[k] = issued[k]
    BY <1>3, WritesKept DEF WritesOk
  <2>3. issued' # <<>> => issued # <<>> /\ (Last(issued).fate # "open" => Last(issued') = Last(issued))
    BY <2>2 DEF Last
  <2> QED
    BY <1>0, <2>1, <2>3 DEF Told
<1>4. ScriptStep \/ UNCHANGED svars => UNCHANGED <<pc, app, issued>>
  BY ScriptLeavesBoth DEF svars, vars
<1> QED
  BY <1>1, <1>2, <1>3, <1>4, Steps
\* Every step keeps ScreenInv.
LEMMA NextScreen ==
  ASSUME NEW P, ServerOk(P), WritesOk(P), ClientOk(P), PromptInv, Told, ScreenInv, [Next]_svars
  PROVE  ScreenInv'
<1>0. UNCHANGED <<disk, shelf>> => OnSale' = OnSale
  BY DEF OnSale
<1>1. CASE ClientStep
  <2>1. ClientDoes /\ UNCHANGED <<disk, shelf>>
    BY <1>1, ClientSteps, ClientLeavesServer DEF server
  <2>2. CASE Sends
    <3>1. issued' # <<>> /\ pc' = "write"
      BY <2>2 DEF Sends, SendsWrite, WritesOk
    <3> QED
      BY <3>1 DEF ScreenInv, ScreenAfterWrite
  <2>3. CASE app'.message \notin {"done", "failed"}
    BY <2>3 DEF ScreenInv, ScreenAfterWrite
  <2>4. CASE pc = "key" /\ Continues /\ app'.message \in {"done", "failed"}
    <3>0. user_id' = user_id
      BY <1>1, <2>4 DEF ClientStep, Login, main, Returns, BuyReturns, CashoutReturns, PromptReturns,
                        StockReturns, BalanceReturns, app_handle_key
    <3>1. app'.products = app.products /\ app'.balance_gr = app.balance_gr /\ app'.message = app.message
          /\ UNCHANGED <<issued, moved>> /\ pc' \in {"key", "stock"}
      BY <2>4 DEF Continues
    <3> QED
      BY <1>0, <2>1, <2>4, <3>0, <3>1 DEF ScreenInv, ScreenAfterWrite
  <2>5. CASE Reports /\ app'.message \in {"done", "failed"}
    <3>1. issued' # <<>>
      BY <2>5 DEF Reports, PromptInv
    <3>2. app'.message = "done" => pc' = "stock"
      BY <2>5 DEF Reports
    <3> QED
      BY <3>1, <3>2 DEF ScreenInv, ScreenAfterWrite
  <2>6. CASE ReadsStock /\ app'.message \in {"done", "failed"}
    <3>1. pc' = "balance" /\ issued' = issued /\ app'.message = app.message /\ app'.products = OnSale
      BY <2>6 DEF ReadsStock
    <3> QED
      BY <1>0, <2>1, <2>6, <3>1 DEF ScreenInv, ScreenAfterWrite
  <2>7. CASE ReadsBalance /\ app'.message \in {"done", "failed"}
    <3>0. user_id' = user_id
      BY <1>1, <2>7 DEF ReadsBalance, ClientStep, Login, main, Returns, BuyReturns, CashoutReturns,
                        PromptReturns, StockReturns, BalanceReturns, app_handle_key
    <3>1. pc = "balance" /\ pc' = "key" /\ UNCHANGED <<issued, moved>> /\ app'.message = app.message
          /\ app'.products = app.products /\ app'.balance_gr = disk.balance[user_id]
      BY <2>7 DEF ReadsBalance
    <3> QED
      BY <1>0, <2>1, <2>7, <3>0, <3>1 DEF ScreenInv, ScreenAfterWrite
  <2>8. Quits \/ Starts => app'.message \notin {"done", "failed"}
    BY DEF Quits, Starts, app_init_state
  <2> QED
    BY <2>1, <2>2, <2>3, <2>4, <2>5, <2>6, <2>7, <2>8 DEF ClientDoes
<1>2. CASE UNCHANGED <<pc, app, issued, disk, shelf, user_id, moved>>
  BY <1>0, <1>2 DEF ScreenInv, ScreenAfterWrite
<1>3. CASE ServerStep
  <2>1. UNCHANGED <<pc, app, user_id>>
    BY <1>3, ServerLeavesClient
  <2>2. issued # <<>> => issued' # <<>>
    BY <1>3, WritesKept DEF WritesOk
  <2>3. CASE moved'
    BY <2>1, <2>2, <2>3 DEF ScreenInv, ScreenAfterWrite
  <2>4. ASSUME NEW i \in DOMAIN issued, Serve(i), ~moved' PROVE ScreenInv'
    <3>1. CASE UNCHANGED <<disk, moved>>
      <4>1. UNCHANGED shelf
        BY <2>4 DEF Serve
      <4> QED
        BY <1>0, <2>1, <2>2, <3>1, <4>1 DEF ScreenInv, ScreenAfterWrite
    <3>2. CASE moved' = (moved \/ i < Len(issued))
      <4>0. issued \in Seq(Write) /\ i \in 1..Len(issued)
        BY <2>4 DEF WritesOk
      <4>a. ~(i < Len(issued))
        BY <2>4, <3>2
      <4>1. i = Len(issued)
        BY <4>0, <4>a
      <4>2. Last(issued).fate = "open" /\ issued # <<>>
        BY <2>4, <4>0, <4>1 DEF Serve, Last
      <4>3. pc \in {"key", "balance"} => app.message # "done"
        BY <4>2 DEF Told
      <4> QED
        BY <2>1, <2>2, <4>3 DEF ScreenInv, ScreenAfterWrite
    <3> QED
      BY <2>4, <3>1, <3>2 DEF Serve
  <2>5. moved' \/ \E i \in DOMAIN issued : Serve(i)
    BY <1>3 DEF ServerStep, Others, Identify, IdentifyLate, Visitor, Commit, Elsewhere, Reseed
  <2> QED
    BY <2>3, <2>4, <2>5
<1>4. ScriptStep \/ UNCHANGED svars => UNCHANGED <<pc, app, issued, disk, shelf, user_id, moved>>
  BY ScriptLeavesBoth DEF svars, vars
<1> QED
  BY <1>1, <1>2, <1>3, <1>4, Steps

\* The accounts of the keys: a step either leaves them alone, or seeds the
\* database anew, or gives a key that had none the next number.
LEMMA OwnerSteps ==
  ASSUME NEW P, Prices(P), ServerOk(P), WritesOk(P), ClientOk(P), [Next]_svars
  PROVE  \/ disk'.owner = disk.owner
         \/ Reseed
         \/ \E f \in Fingerprints : disk' = Upsert(disk, f) /\ disk.seq + 1 \in UserIds
<1>0. shelf \subseteq Slots /\ disk \in ImageOf(P)
  BY ShelfSlots DEF ServerOk
<1>1. CASE UNCHANGED server
  BY <1>1 DEF server
<1>2. CASE Identify \/ IdentifyLate
  BY <1>2, SessionAssumption DEF Identify, IdentifyLate, Commit
<1>3. CASE Visitor
  BY <1>3 DEF Visitor
<1>4. CASE Elsewhere
  <2>1. ASSUME NEW s \in shelf, disk.qty[s] > 0, disk' = Dispense(disk, s) PROVE disk'.owner = disk.owner
    BY <1>0, <2>1, DispenseType
  <2>2. ASSUME NEW s \in shelf, NEW p \in Amounts, disk' = SetPrice(disk, ItemOf[s], p)
        PROVE  disk'.owner = disk.owner
    <3>1. ItemOf[s] \in Items /\ p \in P
      BY <1>0, TablesAssumption DEF Prices
    <3> QED
      BY <1>0, <2>2, <3>1, SetPriceType
  <2>3. ASSUME disk' = Zero(disk, user_id) PROVE disk'.owner = disk.owner
    BY <1>0, <2>3, ZeroType DEF ClientOk
  <2> QED
    BY <1>4, <2>1, <2>2, <2>3 DEF Elsewhere
<1>5. ASSUME NEW i \in DOMAIN issued, Serve(i) PROVE disk'.owner = disk.owner
  <2>1. issued[i] \in Write /\ (issued[i].op = "price" => issued[i].n \in P)
    BY DEF WritesOk
  <2>2. CASE UNCHANGED disk
    BY <2>2
  <2>3. CASE Accepts(issued[i]) /\ disk' = Carried(issued[i])
    BY <1>0, <2>1, <2>3, CarriedType
  <2> QED
    BY <1>5, <2>2, <2>3 DEF Serve
<1>6. (ClientStep \/ ScriptStep \/ UNCHANGED svars) => UNCHANGED server
  BY ClientLeavesServer, ScriptLeavesBoth DEF server, svars, vars
<1> QED
  BY <1>1, <1>2, <1>3, <1>4, <1>5, <1>6, Steps DEF ServerStep, Others

\* An upsert numbers a key that had no account, and changes no other.
LEMMA UpsertOwner ==
  ASSUME NEW P, ServerOk(P), GateInv, NEW f \in Fingerprints, disk.seq + 1 \in UserIds,
         disk' = Upsert(disk, f)
  PROVE  /\ \A h \in Fingerprints : disk'.owner[h] # NoUser => disk'.owner[h] > 0
         /\ \A h \in Fingerprints : disk.owner[h] # NoUser => disk'.owner[h] = disk.owner[h]
         /\ \A h \in Fingerprints : h # f => disk'.owner[h] = disk.owner[h]
         /\ disk'.owner[f] \in UserIds /\ disk'.owner[f] > 0
<1>1. /\ disk'.owner[f] = IF disk.owner[f] = NoUser THEN disk.seq + 1 ELSE disk.owner[f]
      /\ \A h \in Fingerprints : h # f => disk'.owner[h] = disk.owner[h]
  BY UpsertType DEF ServerOk
<1>2. disk.seq + 1 > 0 /\ \A h \in Fingerprints : disk.owner[h] \in UserIds \cup {NoUser}
  BY DEF ServerOk, ImageOf
<1>3. \A h \in Fingerprints : disk.owner[h] # NoUser => disk.owner[h] > 0
  BY DEF GateInv
<1> QED
  BY <1>1, <1>2, <1>3

\* Every step keeps GateInv.
LEMMA NextGate ==
  ASSUME NEW P, Prices(P), ServerOk(P), WritesOk(P), ClientOk(P), PromptInv, GateInv, [Next]_svars
  PROVE  GateInv'
<1>a. UserIds \subseteq Int /\ NoUser \notin UserIds /\ Key \in Fingerprints
  BY TablesAssumption, SessionAssumption
<1>1. CASE ClientStep /\ ~Login
  <2>1. UNCHANGED <<gate, reply, cmd, user_id>>
    BY <1>1 DEF ClientStep, Returns, BuyReturns, CashoutReturns, PromptReturns, StockReturns,
                BalanceReturns, app_handle_key
  <2>2. UNCHANGED <<disk, wiped>>
    BY <1>1, ClientLeavesServer DEF server
  <2>3. pc # "off"
    BY <1>1 DEF ClientStep, Returns, BuyReturns, CashoutReturns, PromptReturns, StockReturns,
                BalanceReturns, app_handle_key
  <2>4. pc' # "off"
    <3>1. ClientDoes
      BY <1>1, ClientSteps
    <3> QED
      BY <2>3, <3>1 DEF ClientDoes, Continues, Sends, Quits, Reports, ReadsStock, ReadsBalance, Starts
  <2> QED
    BY <2>1, <2>2, <2>3, <2>4 DEF GateInv
<1>2. CASE Login
  <2>1. /\ pc = "off" /\ pc' = "stock" /\ gate' = "done" /\ reply' = 0 /\ cmd' = cmd
        /\ UNCHANGED <<disk, wiped>>
        /\ user_id' = IF cmd > 0 THEN cmd ELSE IF EnvUser > 0 THEN EnvUser ELSE DefaultUser
    BY <1>2 DEF Login, main, app_refresh, server
  <2> QED
    BY <1>a, <2>1 DEF GateInv
<1>3. CASE UNCHANGED vars /\ (ScriptStep \/ UNCHANGED svars)
  <2>1. /\ gate' = "done" <=> gate = "done"
        /\ reply' \in {0, reply} /\ cmd' \in {cmd, reply}
        /\ cmd' # cmd => pc = "off" /\ cmd' = reply
    BY <1>3 DEF ScriptStep, Ask, Resolved, AttemptFails, svars, gvars, GateInv
  <2>2. UNCHANGED <<disk, pc, wiped, user_id>>
    BY <1>3 DEF vars
  <2> QED
    BY <1>a, <2>1, <2>2 DEF GateInv
<1>4. CASE ServerStep
  <2>1. UNCHANGED <<pc, user_id, cmd, gate>>
    BY <1>4, ServerLeavesClient
  <2>2. CASE Reseed /\ UNCHANGED reply
    <3>1. wiped' = TRUE /\ disk' = Seed /\ pc # "off"
      BY <2>2 DEF Reseed
    <3>2. \A f \in Fingerprints : disk'.owner[f] = NoUser
      BY <3>1 DEF Seed
    <3> QED
      BY <2>1, <2>2, <3>1, <3>2 DEF GateInv
  <2>3. CASE disk'.owner = disk.owner /\ UNCHANGED <<reply, wiped>>
    BY <2>1, <2>3 DEF GateInv
  <2>4. ASSUME NEW f \in Fingerprints, disk' = Upsert(disk, f), disk.seq + 1 \in UserIds,
               UNCHANGED <<reply, wiped>>
        PROVE  GateInv'
    <3>1. /\ \A h \in Fingerprints : disk'.owner[h] # NoUser => disk'.owner[h] > 0
          /\ \A h \in Fingerprints : disk.owner[h] # NoUser => disk'.owner[h] = disk.owner[h]
      BY <2>4, UpsertOwner
    <3> QED
      BY <1>a, <2>1, <2>4, <3>1 DEF GateInv
  <2>5. CASE Identify
    <3>1. /\ disk' = Upsert(disk, Key) /\ disk.seq + 1 \in UserIds /\ reply' = disk'.owner[Key]
          /\ wiped' = wiped
      BY <2>5 DEF Identify, Commit
    <3>2. /\ \A h \in Fingerprints : disk'.owner[h] # NoUser => disk'.owner[h] > 0
          /\ \A h \in Fingerprints : disk.owner[h] # NoUser => disk'.owner[h] = disk.owner[h]
          /\ disk'.owner[Key] \in UserIds /\ disk'.owner[Key] > 0
      BY <1>a, <3>1, UpsertOwner
    <3>3. reply' \in UserIds \cup {0} /\ reply' >= 0
      <4>1. reply' \in UserIds /\ reply' > 0
        BY <3>1, <3>2
      <4>2. reply' \in Int
        BY <1>a, <4>1
      <4> QED
        BY <4>1, <4>2
    <3>4. ~wiped /\ cmd # 0 => disk'.owner[Key] = cmd
      BY <1>a, <3>2 DEF GateInv
    <3>5. cmd \in UserIds \cup {0} /\ cmd >= 0 /\ (pc = "off" <=> gate # "done") /\ (pc = "off" => ~wiped)
          /\ (pc # "off" /\ cmd # 0 => user_id = cmd)
      BY DEF GateInv
    <3> QED
      BY <2>1, <3>1, <3>2, <3>3, <3>4, <3>5 DEF GateInv
  <2>6. ~Reseed /\ ~Identify => UNCHANGED <<reply, wiped>>
    BY <1>4 DEF ServerStep, IdentifyLate, Visitor, Commit, Others, Elsewhere, Serve, gvars
  <2>7. Reseed => UNCHANGED reply
    <3>1. Reseed => pc # "off" /\ gate = "done"
      BY DEF Reseed, GateInv
    <3>2. Identify => gate = "wait"
      BY DEF Identify
    <3> QED
      BY <1>4, <3>1, <3>2 DEF ServerStep, IdentifyLate, Visitor, gvars
  <2> QED
    BY <2>2, <2>3, <2>4, <2>5, <2>6, <2>7, OwnerSteps
<1> QED
  BY <1>1, <1>2, <1>3, <1>4, Steps, ScriptLeavesBoth DEF svars
-----------------------------------------------------------------------------
(* The theorems.                                                           *)

\* The invariant holds when the user connects.
LEMMA InitIInv == ASSUME NEW P, Prices(P), SInit PROVE IInv(P)
<1>0. /\ disk = Seed /\ shelf = Slots /\ issued = <<>> /\ pressed = 0 /\ others = 0 /\ wiped = FALSE
      /\ pc = "off" /\ after = "overwrite" /\ user_id = DefaultUser /\ app = app_init_state
      /\ target = NoSlot /\ moved = FALSE
      /\ gate # "done" /\ reply = 0 /\ cmd = 0
  BY DEF SInit, Init
<1>1. ServerOk(P)
  <2>1. disk \in ImageOf(P) /\ 0 \in 0..MaxOthers
    BY <1>0, SeedType, TuiAssumption
  <2> QED
    BY <1>0, <2>1 DEF ServerOk, ShelfInside
<1>2. WritesOk(P)
  BY <1>0 DEF WritesOk
<1>3. ClientOk(P)
  <2>1. AppOk(P, app) /\ 0 \in 0..MaxKeys /\ DefaultUser \in UserIds
    BY <1>0, InitAppOk, TuiAssumption
  <2> QED
    BY <1>0, <2>1 DEF ClientOk
<1>4. GateInv
  <2>1. \A f \in Fingerprints : disk.owner[f] = NoUser
    BY <1>0 DEF Seed
  <2> QED
    BY <1>0, <2>1 DEF GateInv
<1>5. PromptInv /\ Told /\ ScreenInv
  BY <1>0 DEF PromptInv, PromptTarget, Told, ScreenInv, ScreenAfterWrite, app_init_state
<1> QED
  BY <1>1, <1>2, <1>3, <1>4, <1>5 DEF IInv

\* Every step keeps the invariant.
LEMMA NextIInv == ASSUME NEW P, Prices(P), IInv(P), [Next]_svars PROVE IInv(P)'
<1>1. ServerOk(P) /\ WritesOk(P) /\ ClientOk(P) /\ GateInv /\ PromptInv /\ Told /\ ScreenInv
  BY DEF IInv
<1>2. ServerOk(P)' /\ WritesOk(P)' /\ ClientOk(P)' /\ GateInv'
  BY <1>1, NextServer, NextWrites, NextClient, NextGate
<1>3. PromptInv' /\ Told' /\ ScreenInv'
  BY <1>1, NextPrompt, NextTold, NextScreen
<1> QED
  BY <1>2, <1>3 DEF IInv

\* The positive numbers include every price that anybody can set.
LEMMA AnyPrice == Prices(Nat \ {0})
BY TablesAssumption, PromptAssumption DEF Prices

\* The invariant holds in every session, with any prices that others may set.
THEOREM SessionInvariance == Spec => []IInv(Nat \ {0})
<1>1. SInit => IInv(Nat \ {0})
  BY AnyPrice, InitIInv
<1>2. IInv(Nat \ {0}) /\ [Next]_svars => IInv(Nat \ {0})'
  BY AnyPrice, NextIInv
<1> QED
  BY <1>1, <1>2, PTL DEF Spec

\* The fields of app_t keep their types and the server its tables, when Amounts
\* holds every price that fits an int (init.sql, parse_zl_to_gr).
THEOREM SessionTypeCorrect == ASSUME 1..INT_MAX \subseteq Amounts PROVE Spec => []TypeOK
<1>1. Prices(Amounts)
  BY TablesAssumption DEF Prices
<1>2. IInv(Amounts) => TypeOK
  <2> SUFFICES ASSUME IInv(Amounts) PROVE TypeOK
    OBVIOUS
  <2>1. disk \in Image /\ app \in App
    BY ImageIs DEF IInv, ServerOk, ClientOk, AppOk
  <2>2. /\ shelf \in Shelves \cup {Slots} /\ issued \in Seq(Write)
        /\ others \in 0..MaxOthers /\ wiped \in BOOLEAN
    BY DEF IInv, ServerOk, ShelfInside, WritesOk
  <2>3. /\ pressed \in 0..MaxKeys /\ pc \in {"off", "key", "write", "stock", "balance", "quit"}
        /\ after \in {"keep", "overwrite"} /\ user_id \in UserIds
        /\ Len(app.prompt_buf) < PROMPT_BUF_LEN /\ Len(app.konami) <= Len(KONAMI_SEQ)
        /\ target \in Slots \cup {NoSlot} /\ moved \in BOOLEAN
    BY DEF IInv, ClientOk, AppOk
  <2> QED
    BY <2>1, <2>2, <2>3 DEF TypeOK
<1>3. SInit => IInv(Amounts)
  BY <1>1, InitIInv
<1>4. IInv(Amounts) /\ [Next]_svars => IInv(Amounts)'
  BY <1>1, NextIInv
<1> QED
  BY <1>2, <1>3, <1>4, PTL DEF Spec

\* products[selected] is never out of bounds (app_refresh, move_horizontal,
\* move_vertical), on any catalogue that a server may send.
THEOREM SelectionStays == Spec => []SelectionInside
<1>1. IInv(Nat \ {0}) => SelectionInside
  BY DEF IInv, ClientOk, AppOk, CursorOk, SelectionInside
<1> QED
  BY <1>1, SessionInvariance, PTL

\* An admin's write goes to the slot for which the prompt was opened
\* (app_handle_key, confirm_prompt).
THEOREM PromptTargetKept == Spec => []PromptTarget
<1>1. IInv(Nat \ {0}) => PromptTarget
  BY DEF IInv, PromptInv
<1> QED
  BY <1>1, SessionInvariance, PTL

\* "done" and "failed" are said only of a write of which they are true (do_buy,
\* do_cashout, confirm_prompt, set_status).
THEOREM TruthTold == Spec => []Told
<1>1. IInv(Nat \ {0}) => Told
  BY DEF IInv
<1> QED
  BY <1>1, SessionInvariance, PTL

\* A write that is reported as done is on the screen, when nobody else changed
\* anything (app_refresh after do_buy, do_cashout and confirm_prompt).
THEOREM ScreenIsCurrent == Spec => []ScreenAfterWrite
<1>1. IInv(Nat \ {0}) => ScreenAfterWrite
  BY DEF IInv, ScreenInv
<1> QED
  BY <1>1, SessionInvariance, PTL

\* A session acts as the account of its key, and no lookup gives the key
\* another one (authencesn.py, load_config, users_lookup).
THEOREM IdentityKept == Spec => []GateIdentity
<1>1. IInv(Nat \ {0}) => GateIdentity
  BY DEF IInv, GateInv, GateIdentity
<1> QED
  BY <1>1, SessionInvariance, PTL

\* move_vertical goes where the cursor of a grid belongs, on every shelf.
THEOREM CursorsExact == Spec => []CursorExact
<1>1. CursorExact
  <2> SUFFICES ASSUME NEW S \in SUBSET Cells \ {{}}, NEW dir \in {-1, 1}, NEW i \in Positions(OrderBy(S))
               PROVE  IsVerticalStep(OrderBy(S), i, dir, move_vertical(OrderBy(S), i, dir))
    BY DEF CursorExact
  <2>0. IsFiniteSet(Cells) /\ Cells \subseteq Nat /\ S \subseteq Cells
    BY TuiAssumption
  <2>a. IsFiniteSet(S)
    BY <2>0, FS_Subset
  <2>1. S \in SUBSET Int /\ S \in SUBSET Nat /\ IsFiniteSet(S)
    BY <2>0, <2>a
  <2>2. OrderBy(S) \in Seq(Nat)
    <3>1. /\ Len(OrderBy(S)) \in Nat /\ OrderBy(S) = [k \in 1..Len(OrderBy(S)) |-> OrderBy(S)[k]]
          /\ \A k \in 1..Len(OrderBy(S)) : OrderBy(S)[k] \in Nat
      BY <2>1, OrderBySequence, OrderByInOrder
    <3> QED
      BY <3>1
  <2> QED
    BY <2>2, VerticalExact
<1> QED
  BY <1>1, PTL

\* The prompt takes every text of digits and dots for its value as a decimal
\* number, or refuses it (parse_zl_to_gr, parse_pos_int).
THEOREM TextsReadAsTyped == Spec => []PromptExact
<1>1. PromptExact
  BY TuiAssumption, AnyTextReadAsTyped DEF PromptExact
<1> QED
  BY <1>1, PTL
=============================================================================
