-------------------------------- MODULE Tui --------------------------------
(***************************************************************************)
(* The terminal client (tui/src/tui.c, app.c, api_client.c) against a      *)
(* server that other clients use as well.  The client is single-threaded:  *)
(* it handles one key, and inside a handler it waits for one request at a  *)
(* time, for five seconds at most.  A request that it gave up may still be *)
(* carried out, now or after any number of later keys.                     *)
(*                                                                         *)
(* The server is what Machine promises of it: an image of the database     *)
(* that changes by whole operations.                                       *)
(***************************************************************************)
EXTENDS Tables, Prompt, Grid

CONSTANTS
  KONAMI_SEQ,       \* the keys that unlock and lock the admin panel
  PROMPT_BUF_LEN,   \* size of prompt_buf, the final 0 included
  Keys,             \* keys that are pressed (a bound: every key in the code)
  Texts, Cells,     \* texts and slots for which Prompt and Grid are checked
  DefaultUser,      \* 67, the user without --user and SSHNACK_USER_ID
  EnvUser,          \* SSHNACK_USER_ID, 0 when it is not set
  Shelves,          \* the sets of slots that a later init.sql may put on sale
  MaxKeys, MaxOthers  \* bounds: keys pressed, changes by others

ASSUME TuiAssumption ==
  /\ KONAMI_SEQ \in Seq(Keys) \ {<<>>} /\ PROMPT_BUF_LEN \in Nat \ {0}
  /\ DefaultUser \in UserIds /\ EnvUser \in UserIds \cup {0}
  /\ {} \notin Shelves /\ \A S \in Shelves : S \subseteq Slots
  /\ IsFiniteSet(Slots) /\ Slots \subseteq Nat \ {0} /\ IsFiniteSet(Cells) /\ Cells \subseteq Nat
  /\ MaxKeys \in Nat /\ MaxOthers \in Nat
  /\ Texts \subseteq Seq(Characters)   \* the prompt lets digits and dots in

VARIABLES
  disk, shelf,  \* the server: its committed image, and the slots on sale
  issued,       \* every write the client sent, and what became of it
  pressed, others,  \* counted for the bounds
  wiped,        \* the database has been seeded anew
  pc,           \* "off", "key" (in ui_get_key), "write", "stock", "balance", "quit"
  after,        \* whether the caller of app_refresh has a message of its own: "keep", "overwrite"
  user_id,
  app,          \* app_t
  target,       \* history: the slot selected when the prompt was opened
  moved         \* history: somebody else changed the server since the last write

server == <<disk, shelf, others, wiped>>
vars == <<disk, shelf, issued, pressed, others, wiped, pc, after, user_id, app, target, moved>>

NoSlot == 0

\* message is reduced to what it says of the last request.
App == [products : Seq([slot : Slots, price : Amounts, qty : Nat]),
        balance_gr : Nat, selected : Nat, admin : BOOLEAN, server_down : BOOLEAN,
        mode : {"browse", "prompt"}, pending : {"none", "deposit", "restock", "price"},
        prompt_buf : Seq(Characters), konami : Seq(ToSet(KONAMI_SEQ) \cup {"other"}),
        message : {"done", "failed", "unreachable", "other"}]

Write == [op : {"purchase", "refund", "deposit", "restock", "price"}, user : UserIds,
          slot : Slots \cup {NoSlot}, n : Nat, fate : {"open", "done", "refused", "lost"}]

app_init_state ==
  [products |-> <<>>, balance_gr |-> 0, selected |-> 0, admin |-> FALSE,
   server_down |-> FALSE, mode |-> "browse", pending |-> "none",
   prompt_buf |-> <<>>, konami |-> <<>>, message |-> "other"]

Init ==
  /\ disk = Seed /\ shelf = Slots
  /\ issued = <<>> /\ pressed = 0 /\ others = 0 /\ wiped = FALSE
  /\ pc = "off" /\ after = "overwrite" /\ user_id = DefaultUser /\ app = app_init_state
  /\ target = NoSlot /\ moved = FALSE

-----------------------------------------------------------------------------
(* The server.                                                             *)

\* Whether the server can carry out w, and the image that this leaves.
Accepts(w) ==
  CASE w.op = "purchase" -> /\ w.slot \in shelf /\ w.user \in disk.exists
                            /\ disk.qty[w.slot] > 0
                            /\ disk.balance[w.user] >= disk.price[ItemOf[w.slot]]
    [] w.op = "refund"   -> w.user \in disk.exists
    [] w.op = "deposit"  -> TRUE
    [] OTHER             -> w.slot \in shelf

Carried(w) ==
  CASE w.op = "purchase" ->
         LET p == disk.price[ItemOf[w.slot]] IN
         LogStock(LogCash(Dispense(Debit(disk, w.user, p), w.slot), w.user, -p), w.slot, -1)
    [] w.op = "refund"   -> LogCash(Zero(disk, w.user), w.user, -disk.balance[w.user])
    [] w.op = "deposit"  -> LogCash(Credit(disk, w.user, w.n), w.user, w.n)
    [] w.op = "restock"  -> LogStock(Refill(disk, w.slot, w.n), w.slot, w.n)
    [] w.op = "price"    -> SetPrice(disk, ItemOf[w.slot], w.n)

\* A request is carried out or refused, whether or not the client still waits.
Serve(i) ==
  /\ issued[i].fate = "open"
  /\ \/ /\ Accepts(issued[i])
        /\ disk' = Carried(issued[i])
        /\ issued' = [issued EXCEPT ![i].fate = "done"]
        /\ moved' = (moved \/ i < Len(issued))
     \/ /\ issued' = [issued EXCEPT ![i].fate = "refused"]
        /\ UNCHANGED <<disk, moved>>
  /\ UNCHANGED <<shelf, pressed, others, wiped, pc, after, user_id, app, target>>

\* Another client sells a piece, changes a price, or uses the same account.
Elsewhere ==
  /\ pc # "off" /\ others < MaxOthers /\ others' = others + 1
  /\ \/ \E s \in shelf : disk.qty[s] > 0 /\ disk' = Dispense(disk, s)
     \/ \E s \in shelf, p \in Amounts : disk' = SetPrice(disk, ItemOf[s], p)
     \/ user_id \in disk.exists /\ disk' = Zero(disk, user_id)
  /\ disk' # disk /\ moved' = TRUE
  /\ UNCHANGED <<shelf, issued, pressed, wiped, pc, after, user_id, app, target>>

\* The server is replaced and its database seeded anew (SSHNACK_REINIT_DB),
\* maybe with another init.sql.  Requests that it had not answered are lost.
Reseed ==
  /\ pc # "off" /\ others < MaxOthers /\ others' = others + 1 /\ wiped' = TRUE
  /\ disk' = Seed /\ shelf' \in Shelves
  /\ issued' = [i \in DOMAIN issued |->
                  IF issued[i].fate = "open" THEN [issued[i] EXCEPT !.fate = "lost"]
                                             ELSE issued[i]]
  /\ moved' = TRUE
  /\ UNCHANGED <<pressed, pc, after, user_id, app, target>>

-----------------------------------------------------------------------------
(* What a handler does to app_t, without a request.                        *)

\* Mutant: the selection is not brought back into a shorter catalogue.
ShowUnclamped(a, list) == [a EXCEPT !.products = list]

Show(a, list) ==
  [a EXCEPT !.products = list,
            !.selected = IF @ < Len(list) THEN @ ELSE IF list = <<>> THEN 0 ELSE Len(list) - 1]

Say(a, m) == [a EXCEPT !.message = m]

set_status(a, st) ==
  IF st = "network" THEN [Say(a, "unreachable") EXCEPT !.server_down = TRUE] ELSE Say(a, "other")

feed_konami(a, key) ==
  LET k   == IF key \in ToSet(KONAMI_SEQ) THEN key ELSE "other"
      buf == Append(IF Len(a.konami) < Len(KONAMI_SEQ) THEN a.konami ELSE Tail(a.konami), k)
  IN  IF buf = KONAMI_SEQ THEN [Say(a, "other") EXCEPT !.admin = ~@, !.konami = <<>>]
                          ELSE [a EXCEPT !.konami = buf]

slots(a) == [k \in DOMAIN a.products |-> a.products[k].slot]
Chosen(a) == a.products[a.selected + 1]

open_prompt(a, action) ==
  IF a.products = <<>> /\ action # "deposit" THEN Say(a, "other")
  ELSE [a EXCEPT !.mode = "prompt", !.pending = action, !.prompt_buf = <<>>]

close_prompt(a) == [a EXCEPT !.mode = "browse", !.pending = "none", !.prompt_buf = <<>>]

\* Mutant: one character more than the buffer holds.
edit_prompt_unbounded(a, key) ==
  IF key \in Characters /\ Len(a.prompt_buf) < PROMPT_BUF_LEN
  THEN [a EXCEPT !.prompt_buf = Append(@, key)] ELSE a

\* A key of the prompt other than Enter.
edit_prompt(a, key) ==
  CASE key = "esc" -> Say(close_prompt(a), "other")
    [] key = "backspace" /\ a.prompt_buf # <<>> -> [a EXCEPT !.prompt_buf = Front(@)]
    [] key \in Characters /\ Len(a.prompt_buf) < PROMPT_BUF_LEN - 1 ->
         [a EXCEPT !.prompt_buf = Append(@, key)]
    [] OTHER -> a

\* A key of the browser that sends nothing.
browse(a, key) ==
  CASE key = "left"  -> [a EXCEPT !.selected = move_horizontal(slots(a), @, -1)]
    [] key = "right" -> [a EXCEPT !.selected = move_horizontal(slots(a), @, 1)]
    [] key = "up"    -> [a EXCEPT !.selected = move_vertical(slots(a), @, -1)]
    [] key = "down"  -> [a EXCEPT !.selected = move_vertical(slots(a), @, 1)]
    [] key = "d"     -> open_prompt(a, "deposit")
    [] key = "s" /\ a.admin -> open_prompt(a, "restock")
    [] key = "p" /\ a.admin -> open_prompt(a, "price")
    [] key = "esc" /\ a.admin -> [Say(a, "other") EXCEPT !.admin = FALSE]
    [] OTHER -> a

-----------------------------------------------------------------------------
(* Where a handler goes on.                                                *)

Idle(a) == pc' = "key" /\ app' = a /\ UNCHANGED <<after, issued, moved>>

\* app_free; the process ends.
Quit == pc' = "quit" /\ app' = app_init_state /\ UNCHANGED <<after, issued, moved>>

\* app_refresh asks for the stock first.
app_refresh(a, msg) ==
  /\ pc' = "stock" /\ after' = msg /\ app' = [a EXCEPT !.server_down = FALSE]
  /\ UNCHANGED <<issued, moved>>

do_request(a, op, slot, n) ==
  /\ pc' = "write" /\ app' = a /\ moved' = FALSE
  /\ issued' = Append(issued, [op |-> op, user |-> user_id, slot |-> slot, n |-> n, fate |-> "open"])
  /\ UNCHANGED after

\* load_config, then app_init.  arg is the number behind --user, 0 without it.
main(arg) ==
  /\ pc = "off"
  /\ user_id' = IF arg > 0 THEN arg ELSE IF EnvUser > 0 THEN EnvUser ELSE DefaultUser
  /\ app_refresh(app_init_state, "overwrite")
  /\ UNCHANGED <<server, pressed, target>>

do_buy(a) ==
  \/ a.products = <<>> /\ Idle(a)
  \/ /\ a.products # <<>> /\ (Chosen(a).qty <= 0 \/ a.balance_gr < Chosen(a).price)
     /\ Idle(Say(a, "other"))
  \/ /\ a.products # <<>> /\ Chosen(a).qty > 0 /\ a.balance_gr >= Chosen(a).price
     /\ do_request(a, "purchase", Chosen(a).slot, 0)

\* Mutant: the product is taken from the end of the catalogue.
confirm_prompt_last(a) ==
  LET n == IF a.pending = "restock" THEN parse_pos_int(a.prompt_buf)
                                    ELSE parse_zl_to_gr(a.prompt_buf)
  IN  \/ n > 0 /\ do_request(a, a.pending, IF a.pending = "deposit" THEN NoSlot
                                           ELSE Last(a.products).slot, n)
      \/ n <= 0 /\ app_refresh(Say(close_prompt(a), "other"), "keep")

confirm_prompt(a) ==
  LET n   == IF a.pending = "restock" THEN parse_pos_int(a.prompt_buf)
                                      ELSE parse_zl_to_gr(a.prompt_buf)
      any == a.pending = "deposit" \/ a.products # <<>>
  IN  \/ any /\ n > 0
         /\ do_request(a, a.pending, IF a.pending = "deposit" THEN NoSlot ELSE Chosen(a).slot, n)
      \/ any /\ n <= 0 /\ app_refresh(Say(close_prompt(a), "other"), "keep")
      \/ ~any /\ app_refresh(close_prompt(a), "keep")

\* The key handler up to its first request, if it makes one.
app_handle_key(key) ==
  LET a == feed_konami(app, key) IN
  /\ pc = "key" /\ pressed < MaxKeys /\ pressed' = pressed + 1
  /\ \/ /\ a.server_down
        /\ \/ key \in {"r", "R"} /\ app_refresh(a, "keep")
           \/ key \in {"q", "Q"} /\ Quit
           \/ key \notin {"r", "R", "q", "Q"} /\ Idle(a)
     \/ /\ ~a.server_down /\ a.mode = "prompt"
        /\ \/ key = "enter" /\ confirm_prompt(a)
           \/ key # "enter" /\ Idle(edit_prompt(a, key))
     \/ /\ ~a.server_down /\ a.mode = "browse"
        /\ \/ key \in {"enter", " "} /\ do_buy(a)
           \/ key = "c" /\ do_request(a, "refund", NoSlot, 0)
           \/ key = "r" /\ app_refresh(a, "overwrite")
           \/ key = "q" /\ Quit
           \/ key \notin {"enter", " ", "c", "r", "q"} /\ Idle(browse(a, key))
  /\ target' = IF app.mode = "browse" /\ app'.mode = "prompt" /\ app'.products # <<>>
               THEN Chosen(app').slot ELSE target
  /\ UNCHANGED <<server, user_id>>

-----------------------------------------------------------------------------
(* The returns of api_client.c: "ok", "http" for a status of 400 and more, *)
(* "network" when curl fails: no connection, no answer, five seconds over. *)
(* Answers are the server's own JSON, so a parse error is left out.        *)

\* Mutant: no limit on the time that a request may take.
ReturnedUntimed(st) ==
  \/ st = "ok" /\ Last(issued).fate = "done"
  \/ st = "http" /\ Last(issued).fate = "refused"
  \/ st = "network" /\ Last(issued).fate = "lost"

\* Mutant: an answer that does not come counts as a refusal.
ReturnedHasty(st) ==
  \/ st = "ok" /\ Last(issued).fate = "done"
  \/ st = "http"

Returned(st) ==
  \/ st = "ok" /\ Last(issued).fate = "done"
  \/ st = "http" /\ Last(issued).fate = "refused"
  \/ st = "network"

\* What the three kinds of writes say of their outcome.
Outcome(a, st) ==
  CASE st = "ok" -> Say(a, "done") [] st = "http" -> Say(a, "failed")
    [] st = "network" -> set_status(a, st)

BuyReturns(st) ==
  /\ pc = "write" /\ Last(issued).op = "purchase" /\ Returned(st)
  /\ IF st = "network" THEN Idle(Outcome(app, st)) ELSE app_refresh(Outcome(app, st), "keep")
  /\ UNCHANGED <<server, pressed, user_id, target>>

CashoutReturns(st) ==
  /\ pc = "write" /\ Last(issued).op = "refund" /\ Returned(st)
  /\ IF st = "ok" THEN app_refresh(Outcome(app, st), "keep") ELSE Idle(Outcome(app, st))
  /\ UNCHANGED <<server, pressed, user_id, target>>

\* Mutant: the screen is not brought up to date.
PromptReturnsStale(st) ==
  /\ pc = "write" /\ Last(issued).op \in {"deposit", "restock", "price"} /\ Returned(st)
  /\ Idle(close_prompt(Outcome(app, st)))
  /\ target' = NoSlot
  /\ UNCHANGED <<server, pressed, user_id>>

PromptReturns(st) ==
  /\ pc = "write" /\ Last(issued).op \in {"deposit", "restock", "price"} /\ Returned(st)
  /\ LET a == close_prompt(Outcome(app, st)) IN
     IF a.server_down THEN Idle(a) ELSE app_refresh(a, "keep")
  /\ target' = NoSlot
  /\ UNCHANGED <<server, pressed, user_id>>

\* GET /stock: the slots on sale in the order of their ids.
OnSale ==
  LET ids == OrderBy(shelf) IN
  [k \in DOMAIN ids |-> [slot |-> ids[k], price |-> disk.price[ItemOf[ids[k]]],
                         qty |-> disk.qty[ids[k]]]]

StockReturns(st) ==
  /\ pc = "stock" /\ pc' = "balance"
  /\ app' = IF st = "ok" THEN Show(app, OnSale) ELSE set_status(app, st)
  /\ UNCHANGED <<server, pressed, user_id, target, after, issued, moved>>

\* GET /balance, which is 404 for a user without a row; and what app_init and
\* the key `r' write over the message once the refresh is through.
BalanceReturns(st) ==
  /\ pc = "balance" /\ (st = "ok" => user_id \in disk.exists)
  /\ LET a == IF st = "ok" THEN [app EXCEPT !.balance_gr = disk.balance[user_id]]
                           ELSE set_status(app, st)
     IN  Idle(IF after = "keep" THEN a ELSE Say(a, "other"))
  /\ UNCHANGED <<server, pressed, user_id, target>>

Returns == \E st \in {"ok", "http", "network"} :
  BuyReturns(st) \/ CashoutReturns(st) \/ PromptReturns(st) \/ StockReturns(st) \/ BalanceReturns(st)

Others == Elsewhere \/ Reseed \/ \E i \in DOMAIN issued : Serve(i)

Running == Returns \/ Others \/ \E key \in Keys : app_handle_key(key)

-----------------------------------------------------------------------------
(* Properties.                                                             *)

\* The fields of app_t keep their types: the prompt holds no more than its
\* buffer, and the code is compared once the ring of keys is full.
TypeOK ==
  /\ disk \in Image /\ shelf \in Shelves \cup {Slots}
  /\ issued \in Seq(Write) /\ pressed \in 0..MaxKeys /\ others \in 0..MaxOthers /\ wiped \in BOOLEAN
  /\ pc \in {"off", "key", "write", "stock", "balance", "quit"}
  /\ after \in {"keep", "overwrite"} /\ user_id \in UserIds
  /\ app \in App /\ Len(app.prompt_buf) < PROMPT_BUF_LEN /\ Len(app.konami) <= Len(KONAMI_SEQ)
  /\ target \in Slots \cup {NoSlot} /\ moved \in BOOLEAN

\* The cursor is on a product whenever there is one, also after a refresh that
\* brought a shorter catalogue: products[selected] is never out of bounds.
SelectionInside == app.selected < Len(app.products) \/ (app.products = <<>> /\ app.selected = 0)

\* An admin's write goes to the slot that was selected when the prompt opened.
PromptTarget ==
  pc = "write" /\ Last(issued).op \in {"restock", "price"} => Last(issued).slot = target

\* The client says that a write was done, or that it failed, only when that is
\* so; of a request whose answer did not come in time it says neither.
Told ==
  pc # "write" /\ issued # <<>> =>
    /\ app.message = "done" => Last(issued).fate = "done"
    /\ app.message = "failed" => Last(issued).fate = "refused"

\* When a write is reported as done and nobody else changed anything meanwhile,
\* the screen shows the machine as the write left it.
ScreenAfterWrite ==
  pc = "key" /\ app.message = "done" /\ ~moved =>
    app.products = OnSale /\ app.balance_gr = disk.balance[user_id]

\* A text is taken for the number that it denotes, or refused when it denotes
\* none or one beyond INT_MAX (parse_zl_to_gr, parse_pos_int).
PromptExact == pc = "off" => \A s \in Texts : ReadAsTyped(s)

\* A vertical step goes to the next row with slots and to the nearest column,
\* on every shelf of the Cells (move_vertical, find_in_row).
CursorExact ==
  pc = "off" => \A S \in SUBSET Cells \ {{}}, dir \in {-1, 1} :
    \A i \in Positions(OrderBy(S)) :
      IsVerticalStep(OrderBy(S), i, dir, move_vertical(OrderBy(S), i, dir))

\* A key is handled to its end whatever the server does, since every request
\* has its time limit.
KeyAnswered == (pc \in {"write", "stock", "balance"}) ~> (pc = "key")
=============================================================================
