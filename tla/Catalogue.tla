----------------------------- MODULE Catalogue -----------------------------
(***************************************************************************)
(* GET /stock beside the other requests: handle_get_stock of               *)
(* handlers/products.c and products_list of products_service.c, which      *)
(* steps through the rows of a SELECT on the shared connection, one        *)
(* sqlite3_step at a time and outside any transaction of its own.  A       *)
(* reader is a worker for as long as it handles such a request.            *)
(***************************************************************************)
EXTENDS Services, Sequences

CONSTANTS
  Readers,
  CAPACITY  \* the rows that products_list allocates at first, 16

ASSUME CatalogueAssumption ==
  CAPACITY \in Nat \ {0} /\ Slots \subseteq Int /\ IsFiniteSet(Slots)

VARIABLES
  lpc,       \* "idle", "step" (before a sqlite3_step), "reply"
  rows,      \* products[0 .. count - 1]
  capacity,
  code,      \* the status that will be answered
  listed,    \* counted for the bound
  mixed      \* history: a transaction was open, or something committed, meanwhile

listing == <<lpc, rows, capacity, code, listed, mixed>>
cvars   == <<vars, listing>>

\* The slots in the order of the SELECT, and the row of one that a step finds.
SlotIds == OrderBy(Slots)
RowOf(d, s) == [slot |-> s, price |-> ToInt(d.price[ItemOf[s]]), qty |-> ToInt(d.qty[s])]

CInit ==
  /\ Init
  /\ lpc = [r \in Readers |-> "idle"] /\ rows = [r \in Readers |-> <<>>]
  /\ capacity = [r \in Readers |-> 0] /\ code = [r \in Readers |-> 200]
  /\ listed = 0 /\ mixed = [r \in Readers |-> FALSE]

-----------------------------------------------------------------------------
\* products_list is over: with rc = 0, or with -1 after free(products).
Return(r, c) ==
  /\ lpc' = [lpc EXCEPT ![r] = "reply"] /\ code' = [code EXCEPT ![r] = c]
  /\ rows' = IF c = 200 THEN rows ELSE [rows EXCEPT ![r] = <<>>]
  /\ UNCHANGED <<capacity, listed, mixed>>

\* The statement is prepared and the first array allocated.
ListStock(r) ==
  /\ lpc[r] = "idle" /\ served + listed < MaxRequests
  /\ lpc' = [lpc EXCEPT ![r] = "step"] /\ listed' = listed + 1
  /\ capacity' = [capacity EXCEPT ![r] = CAPACITY]
  /\ mixed' = [mixed EXCEPT ![r] = txn]
  /\ UNCHANGED <<vars, rows, code>>

Grow(r) ==
  capacity' = [capacity EXCEPT ![r] = IF Len(rows[r]) = @ THEN 2 * @ ELSE @]

\* Mutant: price and quantity are taken from each other's column.
StepRowSwapped(r) ==
  /\ lpc[r] = "step" /\ Len(rows[r]) < Len(SlotIds)
  /\ LET row == RowOf(db, SlotIds[Len(rows[r]) + 1]) IN
     rows' = [rows EXCEPT ![r] = Append(@, [row EXCEPT !.price = row.qty, !.qty = row.price])]
  /\ Grow(r)
  /\ UNCHANGED <<vars, lpc, code, listed, mixed>>

\* SQLITE_ROW: the next slot as the connection sees it, uncommitted changes of
\* another worker's transaction included.
StepRow(r) ==
  /\ lpc[r] = "step" /\ Len(rows[r]) < Len(SlotIds)
  /\ rows' = [rows EXCEPT ![r] = Append(@, RowOf(db, SlotIds[Len(@) + 1]))]
  /\ Grow(r)
  /\ UNCHANGED <<vars, lpc, code, listed, mixed>>

\* SQLITE_DONE.
StepDone(r) ==
  /\ lpc[r] = "step" /\ Len(rows[r]) = Len(SlotIds)
  /\ Return(r, 200) /\ UNCHANGED vars

\* What a failing call does to the other requests: nothing, or SQLite rolls
\* back the transaction that one of them has open.
CallFails ==
  \/ "error" \in Faults /\ UNCHANGED vars
  \/ RollsBack /\ UNCHANGED <<disk, pc, locals, bounds, truncated, posted>>

\* Mutant: rc is not looked at behind the loop.
StepFailsUnseen(r) == lpc[r] = "step" /\ Return(r, 200) /\ CallFails

\* prepare, malloc, realloc or a step fails.
StepFails(r) == lpc[r] = "step" /\ Return(r, 500) /\ CallFails

\* The rows are formatted, sent and freed.
ListReply(r) ==
  /\ lpc[r] = "reply" /\ lpc' = [lpc EXCEPT ![r] = "idle"]
  /\ rows' = [rows EXCEPT ![r] = <<>>] /\ capacity' = [capacity EXCEPT ![r] = 0]
  /\ code' = [code EXCEPT ![r] = 200] /\ mixed' = [mixed EXCEPT ![r] = FALSE]
  /\ UNCHANGED <<vars, listed>>

List(r) == StepRow(r) \/ StepDone(r) \/ StepFails(r) \/ ListReply(r)

\* What a step of the other requests does to the listings: a crash ends them.
Beside ==
  /\ served' + listed <= MaxRequests /\ listed' = listed
  /\ IF crashes' = crashes
     THEN /\ mixed' = [r \in Readers |->
                         lpc[r] # "idle" /\ (mixed[r] \/ txn' \/ disk' # disk)]
          /\ UNCHANGED <<lpc, rows, capacity, code>>
     ELSE /\ lpc' = [r \in Readers |-> "idle"] /\ rows' = [r \in Readers |-> <<>>]
          /\ capacity' = [r \in Readers |-> 0] /\ code' = [r \in Readers |-> 200]
          /\ mixed' = [r \in Readers |-> FALSE]

CNext ==
  \/ Next /\ Beside
  \/ \E r \in Readers : ListStock(r) \/ List(r)

CSpec == CInit /\ [][CNext]_cvars

\* A worker in a handler keeps running (it waits for nothing but the
\* connection's mutex, which SQLite releases after each call).
CFairSpec ==
  /\ CSpec
  /\ \A w \in Workers : WF_cvars(Serve(w) /\ Beside)
  /\ \A r \in Readers : WF_cvars(List(r))

-----------------------------------------------------------------------------
(* Properties.                                                             *)

\* No row is written behind the array, and a catalogue that is answered 200 is
\* whole: every slot once and in order, whatever was bought, restocked or rolled
\* back between its rows, and a SELECT that failed half way is never taken for
\* one that has ended.
ListingWhole ==
  \A r \in Readers :
    /\ Len(rows[r]) <= capacity[r]
    /\ lpc[r] = "reply" /\ code[r] = 200
         => [k \in DOMAIN rows[r] |-> rows[r][k].slot] = SlotIds

\* It is the committed one unless somebody was inside a transaction, or
\* committed, while it was read.  (Else its rows may be of different moments, or
\* of a transaction that is rolled back later.)
ListingCommitted ==
  \A r \in Readers : lpc[r] = "reply" /\ code[r] = 200 /\ ~mixed[r]
    => \A k \in DOMAIN rows[r] : rows[r][k] = RowOf(disk, rows[r][k].slot)

\* Every request is answered, a listing like the others, whatever the other
\* workers hold open.
EveryoneAnswered ==
  /\ \A w \in Workers : pc[w] # "idle" ~> pc[w] = "idle"
  /\ \A r \in Readers : lpc[r] # "idle" ~> lpc[r] = "idle"
=============================================================================
