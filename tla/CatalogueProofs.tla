-------------------------- MODULE CatalogueProofs --------------------------
(***************************************************************************)
(* Proofs about Catalogue.tla: what GET /stock answers is whole, and is    *)
(* the committed catalogue when no write came in between, for every number *)
(* of slots, readers and workers and whatever SQLite does to a call.       *)
(***************************************************************************)
EXTENDS Catalogue, Functions, DataProofs

\* Outside a transaction the connection sees what is committed, also after an
\* automatic rollback.
QuietInv == ~txn => db = disk

\* A listing under way: its rows are a sequence that fits the array and holds
\* the first slots in order, all of them once it is answered with 200.
WholeAt(r) ==
  /\ rows[r] \in Seq(Range(rows[r])) /\ capacity[r] \in Nat
  /\ Len(rows[r]) <= capacity[r] /\ Len(rows[r]) <= Len(SlotIds)
  /\ \A k \in 1..Len(rows[r]) : rows[r][k].slot = SlotIds[k]
  /\ lpc[r] = "idle" => rows[r] = <<>>
  /\ lpc[r] = "step" => capacity[r] > 0
  /\ lpc[r] = "reply" /\ code[r] = 200 => Len(rows[r]) = Len(SlotIds)

\* As long as nothing was written meanwhile, the rows are the committed ones.
CommittedAt(r) ==
  lpc[r] # "idle" /\ ~mixed[r]
    => ~txn /\ \A k \in 1..Len(rows[r]) : rows[r][k] = RowOf(disk, SlotIds[k])

ListType ==
  /\ lpc \in [Readers -> {"idle", "step", "reply"}]
  /\ DOMAIN rows = Readers /\ rows = [r \in Readers |-> rows[r]]
  /\ capacity \in [Readers -> Nat] /\ code \in [Readers -> {200, 500}]
  /\ mixed \in [Readers -> BOOLEAN]

ListInv ==
  /\ ListType /\ QuietInv /\ txn \in BOOLEAN
  /\ \A r \in Readers : WholeAt(r) /\ CommittedAt(r)
-----------------------------------------------------------------------------
(* The order of the SELECT.                                                *)

\* It is a sequence as long as there are slots.
LEMMA SlotIdsSequence ==
  /\ Cardinality(Slots) \in Nat
  /\ DOMAIN SlotIds = 1..Cardinality(Slots)
  /\ Len(SlotIds) = Cardinality(Slots)
  /\ SlotIds = [k \in 1..Len(SlotIds) |-> SlotIds[k]]
<1>1. Cardinality(Slots) \in Nat
  BY CatalogueAssumption, FS_CardinalityType
<1>2. DOMAIN SlotIds = 1..Cardinality(Slots)
  BY DEF SlotIds, OrderBy
<1>3. Len(SlotIds) = Cardinality(Slots)
  BY <1>1, <1>2
<1> QED
  BY <1>1, <1>2, <1>3 DEF SlotIds, OrderBy

\* The SELECT visits every slot exactly once and in ascending order of slot_id
\* (ORDER BY s.slot_id), so that a listing with the slots of SlotIds lacks none
\* and repeats none.
THEOREM SelectInOrder ==
  /\ \A k \in 1..Len(SlotIds) : SlotIds[k] \in Slots
  /\ \A k, l \in 1..Len(SlotIds) : k < l => SlotIds[k] < SlotIds[l]
  /\ \A s \in Slots : \E k \in 1..Len(SlotIds) : SlotIds[k] = s
<1>1. IsFiniteSet(Slots) /\ Slots \in SUBSET Int
  BY CatalogueAssumption
<1> QED
  BY <1>1, OrderByInOrder DEF SlotIds
-----------------------------------------------------------------------------
(* Rows.                                                                   *)

\* A sequence is a sequence of its own elements.
LEMMA SequenceOfRange ==
  ASSUME NEW R, NEW a \in Seq(R)
  PROVE  a \in Seq(Range(a))
<1>1. Len(a) \in Nat /\ a \in [1..Len(a) -> R] /\ DOMAIN a = 1..Len(a)
  OBVIOUS
<1>2. \A k \in 1..Len(a) : a[k] \in Range(a)
  BY <1>1 DEF Range
<1>3. a \in [1..Len(a) -> Range(a)]
  BY <1>1, <1>2
<1> QED
  BY <1>1, <1>3

\* A sequence stays one when anything is appended.
LEMMA AppendSequence ==
  ASSUME NEW s, NEW x, s \in Seq(Range(s))
  PROVE  /\ Append(s, x) \in Seq(Range(Append(s, x)))
         /\ Len(s) \in Nat /\ Len(Append(s, x)) = Len(s) + 1
         /\ \A k \in 1..Len(s) : Append(s, x)[k] = s[k]
         /\ Append(s, x)[Len(s) + 1] = x
<1> DEFINE R == Range(s) \cup {x}
<1>1. s \in Seq(R) /\ x \in R
  OBVIOUS
<1> HIDE DEF R
<1>2. /\ Append(s, x) \in Seq(R)
      /\ Len(s) \in Nat /\ Len(Append(s, x)) = Len(s) + 1
      /\ DOMAIN Append(s, x) = 1..(Len(s) + 1)
      /\ \A k \in 1..Len(s) : Append(s, x)[k] = s[k]
      /\ Append(s, x)[Len(s) + 1] = x
  BY <1>1
<1>3. Append(s, x) \in Seq(Range(Append(s, x)))
  BY <1>2, SequenceOfRange
<1> QED
  BY <1>2, <1>3

-----------------------------------------------------------------------------
(* The invariant is inductive.                                             *)

\* A call that fails has no effect, or rolls the transaction back.
LEMMA FaultWrites ==
  ASSUME NEW w, Fault(w)
  PROVE  disk' = disk /\ (UNCHANGED <<db, txn>> \/ (db' = disk /\ txn' = FALSE))
<1>1. disk' = disk
  BY DEF Fault
<1>2. UNCHANGED <<db, txn>> \/ (db' = disk /\ txn' = FALSE)
  BY DEF Fault, RollsBack
<1> QED
  BY <1>1, <1>2

\* No step of a worker leaves uncommitted changes outside a transaction.
LEMMA NextQuiet ==
  ASSUME QuietInv, txn \in BOOLEAN, [Next]_vars
  PROVE  QuietInv' /\ txn' \in BOOLEAN
<1> USE DEF QuietInv
<1>1. ASSUME NEW w, NEW at, NEW ok, NEW d, NEW next, Statement(w, at, ok, d, next)
      PROVE  QuietInv' /\ txn' \in BOOLEAN
  BY <1>1 DEF Statement, Write
<1>2. ASSUME NEW w \in Workers, Serve(w) PROVE QuietInv' /\ txn' \in BOOLEAN
  <2>1. CASE Begin(w) \/ Commit(w) \/ Undo(w) \/ Reply(w)
    BY <2>1 DEF Begin, Commit, Undo, Reply
  <2>2. CASE SelectItem(w) \/ SelectFunds(w) \/ SelectBalance(w) \/ GetBalance(w)
    BY <2>2 DEF SelectItem, SelectFunds, SelectBalance, GetBalance
  <2>3. CASE UpdatePrice(w) \/ Identify(w)
    BY <2>3 DEF UpdatePrice, Identify, Write
  <2>4. CASE DebitUser(w) \/ DispenseItem(w) \/ LogSale(w) \/ LogStockChange(w)
    BY <1>1, <2>4 DEF DebitUser, DispenseItem, LogSale, LogStockChange
  <2>5. CASE UpsertBalance(w) \/ LogCashTransaction(w) \/ ZeroBalance(w) \/ UpdateStock(w)
    BY <1>1, <2>5 DEF UpsertBalance, LogCashTransaction, ZeroBalance, UpdateStock
  <2> QED
    BY <1>2, <2>1, <2>2, <2>3, <2>4, <2>5 DEF Serve
<1>3. ASSUME NEW w \in Workers, Fault(w) \/ UndoFails(w)
      PROVE  QuietInv' /\ txn' \in BOOLEAN
  BY <1>3, FaultWrites DEF UndoFails
<1>4. ASSUME NEW w \in Workers, NEW r \in Requests, Handle(w, r)
      PROVE  QuietInv' /\ txn' \in BOOLEAN
  BY <1>4 DEF Handle
<1>5. CASE Crash
  BY <1>5 DEF Crash
<1>6. CASE UNCHANGED vars
  BY <1>6 DEF vars
<1> QED
  BY <1>2, <1>3, <1>4, <1>5, <1>6 DEF Next

\* The initial state: no listing.
LEMMA InitList == CInit => ListInv
<1> SUFFICES ASSUME CInit PROVE ListInv
  OBVIOUS
<1>1. <<>> \in Seq(Range(<<>>)) /\ Len(<<>>) = 0
  OBVIOUS
<1>2. \A r \in Readers : rows[r] = <<>> /\ lpc[r] = "idle" /\ capacity[r] = 0
  BY DEF CInit
<1>3. ASSUME NEW r \in Readers PROVE WholeAt(r) /\ CommittedAt(r)
  <2>1. rows[r] = <<>> /\ lpc[r] = "idle" /\ capacity[r] = 0
    BY <1>2
  <2> QED
    BY <1>1, <2>1, SlotIdsSequence DEF WholeAt, CommittedAt
<1>4. ListType
  BY DEF CInit, ListType
<1> QED
  BY <1>3, <1>4 DEF CInit, Init, ListInv, QuietInv

\* What a worker does beside the listings: it leaves their rows alone, and
\* notes when they may no longer be those of one committed image.
LEMMA BesideList ==
  ASSUME ListInv, Next, Beside
  PROVE  ListInv'
<1>1. QuietInv' /\ txn' \in BOOLEAN
  BY NextQuiet DEF ListInv
<1>2. CASE crashes' = crashes
  <2>1. /\ UNCHANGED <<lpc, rows, capacity, code>>
        /\ mixed' = [r \in Readers |-> lpc[r] # "idle" /\ (mixed[r] \/ txn' \/ disk' # disk)]
    BY <1>2 DEF Beside
  <2>2. ListType'
    BY <2>1 DEF ListInv, ListType
  <2>3. ASSUME NEW r \in Readers PROVE WholeAt(r)' /\ CommittedAt(r)'
    <3>1. WholeAt(r) /\ CommittedAt(r)
      BY DEF ListInv
    <3>2. WholeAt(r)'
      BY <2>1, <3>1 DEF WholeAt
    <3>3. ASSUME lpc[r] # "idle", ~mixed'[r] PROVE ~mixed[r] /\ ~txn' /\ disk' = disk
      BY <2>1, <3>3
    <3>4. CommittedAt(r)'
      BY <2>1, <3>1, <3>3 DEF CommittedAt
    <3> QED
      BY <3>2, <3>4
  <2> QED
    BY <1>1, <2>2, <2>3 DEF ListInv
<1>3. CASE crashes' # crashes
  <2>1. /\ lpc' = [r \in Readers |-> "idle"] /\ rows' = [r \in Readers |-> <<>>]
        /\ capacity' = [r \in Readers |-> 0] /\ code' = [r \in Readers |-> 200]
        /\ mixed' = [r \in Readers |-> FALSE]
    BY <1>3 DEF Beside
  <2>2. <<>> \in Seq(Range(<<>>)) /\ Len(<<>>) = 0
    OBVIOUS
  <2>3. ASSUME NEW r \in Readers PROVE WholeAt(r)' /\ CommittedAt(r)'
    <3>1. lpc'[r] = "idle" /\ rows'[r] = <<>> /\ capacity'[r] = 0
      BY <2>1
    <3> QED
      BY <2>2, <3>1, SlotIdsSequence DEF WholeAt, CommittedAt
  <2>4. ListType'
    BY <2>1 DEF ListType
  <2> QED
    BY <1>1, <2>3, <2>4 DEF ListInv
<1> QED
  BY <1>2, <1>3

\* What the other readers have is left alone.
OthersKept(r) ==
  \A q \in Readers \ {r} :
    /\ lpc'[q] = lpc[q] /\ rows'[q] = rows[q] /\ capacity'[q] = capacity[q]
    /\ code'[q] = code[q] /\ mixed'[q] = mixed[q]

\* What a reader's call may do to the connection: nothing, or end the open
\* transaction, which the listings beside it have noted in `mixed'.
Harmless ==
  disk' = disk /\ (UNCHANGED <<db, txn>> \/ (txn /\ db' = disk /\ txn' = FALSE))

\* A failing call of a reader is harmless in that sense.
LEMMA CallFailsHarmless ==
  /\ UNCHANGED vars => Harmless
  /\ CallFails => Harmless
  BY DEF CallFails, RollsBack, Harmless, vars

\* After a step of reader r only r's own part is to be shown.
LEMMA OtherReaders ==
  ASSUME ListInv, NEW r \in Readers, Harmless, OthersKept(r),
         ListType', WholeAt(r)', CommittedAt(r)'
  PROVE  ListInv'
<1>1. QuietInv' /\ txn' \in BOOLEAN
  BY DEF ListInv, QuietInv, Harmless
<1>2. ASSUME NEW q \in Readers, q # r PROVE WholeAt(q)' /\ CommittedAt(q)'
  <2>1. /\ lpc'[q] = lpc[q] /\ rows'[q] = rows[q] /\ capacity'[q] = capacity[q]
        /\ code'[q] = code[q] /\ mixed'[q] = mixed[q]
    BY <1>2 DEF OthersKept
  <2>2. WholeAt(q) /\ CommittedAt(q) /\ disk' = disk /\ (~txn => ~txn')
    BY DEF ListInv, Harmless
  <2> QED
    BY <2>1, <2>2 DEF WholeAt, CommittedAt, RowOf
<1> QED
  BY <1>1, <1>2 DEF ListInv

\* Every step of a reader keeps the invariant.
LEMMA ReaderList ==
  ASSUME ListInv, NEW r \in Readers, ListStock(r) \/ List(r)
  PROVE  ListInv'
<1>1. WholeAt(r) /\ CommittedAt(r) /\ ListType /\ QuietInv
  BY DEF ListInv
<1>2. /\ lpc[r] \in {"idle", "step", "reply"} /\ code[r] \in {200, 500}
      /\ mixed[r] \in BOOLEAN /\ capacity[r] \in Nat /\ txn \in BOOLEAN
  BY DEF ListInv, ListType
<1>3. <<>> \in Seq(Range(<<>>)) /\ Len(<<>>) = 0
  OBVIOUS
<1>4. UNCHANGED vars => UNCHANGED <<db, disk, txn>> /\ Harmless
  BY CallFailsHarmless DEF vars
<1>5. CASE ListStock(r)
  <2>1. ListType' /\ OthersKept(r) /\ UNCHANGED vars /\ lpc[r] = "idle"
    BY <1>1, <1>2, <1>5, CatalogueAssumption DEF ListStock, ListType, OthersKept
  <2>2. /\ lpc'[r] = "step" /\ rows'[r] = <<>> /\ capacity'[r] = CAPACITY
        /\ mixed'[r] = txn
    BY <1>1, <1>5 DEF ListStock, ListType, WholeAt
  <2>3. WholeAt(r)'
    BY <1>3, <2>2, CatalogueAssumption, SlotIdsSequence DEF WholeAt
  <2>4. CommittedAt(r)'
    BY <1>3, <1>4, <2>1, <2>2 DEF CommittedAt
  <2> QED
    BY <1>4, <2>1, <2>3, <2>4, OtherReaders
<1>6. CASE StepRow(r)
  <2> DEFINE a == Append(rows[r], RowOf(db, SlotIds[Len(rows[r]) + 1]))
             c == IF Len(rows[r]) = capacity[r] THEN 2 * capacity[r] ELSE capacity[r]
  <2>1. /\ a \in Seq(Range(a)) /\ Len(rows[r]) \in Nat /\ Len(a) = Len(rows[r]) + 1
        /\ \A k \in 1..Len(rows[r]) : a[k] = rows[r][k]
        /\ a[Len(rows[r]) + 1] = RowOf(db, SlotIds[Len(rows[r]) + 1])
    BY <1>1, AppendSequence DEF WholeAt
  <2>2. c \in Nat /\ c > 0 /\ Len(a) <= c
    BY <1>1, <1>2, <1>6, <2>1 DEF WholeAt, StepRow
  <2>3. \A k \in 1..Len(a) : k \in 1..Len(rows[r]) \/ k = Len(rows[r]) + 1
    BY <2>1
  <2>4. \A k \in 1..Len(a) : a[k].slot = SlotIds[k]
    BY <1>1, <2>1, <2>3 DEF WholeAt, RowOf
  <2>5. ~mixed[r] => ~txn /\ \A k \in 1..Len(a) : a[k] = RowOf(disk, SlotIds[k])
    BY <1>1, <1>6, <2>1, <2>3 DEF CommittedAt, QuietInv, StepRow
  <2>6. /\ UNCHANGED <<vars, lpc, code, mixed>> /\ lpc[r] = "step"
        /\ Len(rows[r]) < Len(SlotIds)
        /\ rows' = [rows EXCEPT ![r] = a] /\ capacity' = [capacity EXCEPT ![r] = c]
    BY <1>1, <1>6 DEF StepRow, Grow, ListType
  <2> HIDE DEF a, c
  <2>7. ListType' /\ OthersKept(r) /\ rows'[r] = a /\ capacity'[r] = c
    BY <1>1, <2>2, <2>6 DEF ListType, OthersKept
  <2>8. WholeAt(r)'
    BY <2>1, <2>2, <2>4, <2>6, <2>7, SlotIdsSequence DEF WholeAt
  <2>9. CommittedAt(r)'
    BY <1>4, <2>5, <2>6, <2>7 DEF CommittedAt, RowOf
  <2> QED
    BY <1>4, <2>6, <2>7, <2>8, <2>9, OtherReaders
<1>7. ASSUME NEW o \in {200, 500}, lpc[r] = "step", Return(r, o), Harmless,
             o = 200 => Len(rows[r]) = Len(SlotIds)
      PROVE  ListInv'
  <2>1. ListType' /\ OthersKept(r) /\ UNCHANGED <<capacity, mixed>>
    BY <1>1, <1>7 DEF Return, ListType, OthersKept
  <2>2. disk' = disk /\ (~txn => ~txn')
    BY <1>7 DEF Harmless
  <2>3. lpc'[r] = "reply" /\ code'[r] = o
    BY <1>1, <1>7 DEF Return, ListType
  <2>4. CASE o = 200
    <3>1. rows'[r] = rows[r]
      BY <1>7, <2>4 DEF Return
    <3>2. WholeAt(r)'
      BY <1>1, <1>7, <2>1, <2>3, <2>4, <3>1 DEF WholeAt
    <3>3. CommittedAt(r)'
      BY <1>1, <1>7, <2>1, <2>3, <2>2, <3>1 DEF CommittedAt, RowOf
    <3> QED
      BY <1>7, <2>1, <3>2, <3>3, OtherReaders
  <2>5. CASE o = 500
    <3>1. rows'[r] = <<>>
      BY <1>1, <1>7, <2>5 DEF Return, ListType
    <3>2. WholeAt(r)'
      BY <1>2, <1>3, <2>1, <2>3, <2>5, <3>1, SlotIdsSequence DEF WholeAt
    <3>3. CommittedAt(r)'
      BY <1>1, <1>3, <1>7, <2>1, <2>3, <2>2, <3>1 DEF CommittedAt
    <3> QED
      BY <1>7, <2>1, <3>2, <3>3, OtherReaders
  <2> QED
    BY <2>4, <2>5
<1>8. CASE StepDone(r) \/ StepFails(r)
  BY <1>7, <1>8, CallFailsHarmless DEF StepDone, StepFails
<1>9. CASE ListReply(r)
  <2>1. ListType' /\ OthersKept(r) /\ UNCHANGED vars
    BY <1>1, <1>9 DEF ListReply, ListType, OthersKept
  <2>2. lpc'[r] = "idle" /\ rows'[r] = <<>> /\ capacity'[r] = 0
    BY <1>1, <1>9 DEF ListReply, ListType
  <2>3. WholeAt(r)' /\ CommittedAt(r)'
    BY <1>3, <2>2, SlotIdsSequence DEF WholeAt, CommittedAt
  <2> QED
    BY <1>4, <2>1, <2>3, OtherReaders
<1> QED
  BY <1>5, <1>6, <1>8, <1>9 DEF List

-----------------------------------------------------------------------------
(* The theorems.                                                           *)

\* ListInv holds in every reachable state.
THEOREM ListingInvariance == CSpec => []ListInv
<1>1. ListInv /\ [CNext]_cvars => ListInv'
  <2> SUFFICES ASSUME ListInv, [CNext]_cvars PROVE ListInv'
    OBVIOUS
  <2>1. CASE UNCHANGED cvars
    BY <2>1 DEF cvars, listing, vars, ListInv, ListType, QuietInv, WholeAt, CommittedAt, RowOf
  <2> QED
    BY <2>1, BesideList, ReaderList DEF CNext
<1> QED
  BY <1>1, InitList, PTL DEF CSpec

\* A listing is answered with 200 only when it holds every slot once and in
\* ascending order, and no row is ever written behind the array.
THEOREM ListingsAreWhole == CSpec => []ListingWhole
<1>1. ListInv => ListingWhole
  <2> SUFFICES ASSUME ListInv, NEW r \in Readers
               PROVE  /\ Len(rows[r]) <= capacity[r]
                      /\ lpc[r] = "reply" /\ code[r] = 200
                           => [k \in DOMAIN rows[r] |-> rows[r][k].slot] = SlotIds
    BY DEF ListingWhole
  <2>1. WholeAt(r)
    BY DEF ListInv
  <2>2. DOMAIN rows[r] = 1..Len(rows[r])
    BY <2>1 DEF WholeAt
  <2> QED
    BY <2>1, <2>2, SlotIdsSequence DEF WholeAt
<1> QED
  BY <1>1, ListingInvariance, PTL

\* Unless a transaction was open or something was committed meanwhile, the
\* rows of an answered listing are those of the committed catalogue.
THEOREM ListingsAreCommitted == CSpec => []ListingCommitted
<1>1. ListInv => ListingCommitted
  <2> SUFFICES ASSUME ListInv, NEW r \in Readers, lpc[r] = "reply", ~mixed[r],
                      NEW k \in DOMAIN rows[r]
               PROVE  rows[r][k] = RowOf(disk, rows[r][k].slot)
    BY DEF ListingCommitted
  <2>1. WholeAt(r) /\ CommittedAt(r)
    BY DEF ListInv
  <2>2. k \in 1..Len(rows[r])
    BY <2>1 DEF WholeAt
  <2> QED
    BY <2>1, <2>2 DEF WholeAt, CommittedAt
<1> QED
  BY <1>1, ListingInvariance, PTL

\* Listings do nothing to the other requests, unless SQLite rolls back on its
\* own: what is proved of Services, under the same assumption, holds with any
\* number of readers beside the workers.
THEOREM CatalogueImplementsServices ==
  ASSUME "rollback" \notin Faults
  PROVE  CSpec => Spec
<1>1. CInit => Init
  BY DEF CInit
<1>2. [CNext]_cvars => [Next]_vars
  BY DEF CNext, cvars, ListStock, List, StepRow, StepDone, StepFails, CallFails, RollsBack,
         ListReply
<1> QED
  BY <1>1, <1>2, PTL DEF CSpec, Spec
=============================================================================
