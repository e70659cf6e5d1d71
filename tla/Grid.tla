-------------------------------- MODULE Grid --------------------------------
(***************************************************************************)
(* The cursor of the TUI on the slots of the machine (app_slot_rowcol,     *)
(* move_horizontal, find_in_row and move_vertical of tui/src/app.c).  A    *)
(* shelf is the sequence of slot_ids of the catalogue, in the order in     *)
(* which the server lists them; a position counts from 0, as `selected'.   *)
(***************************************************************************)
EXTENDS Integers, Sequences, FiniteSetsExt, SequencesExt

row(slot) == slot \div 10
col(slot) == slot % 10

At(shelf, i) == shelf[i + 1]
Positions(shelf) == 0 .. Len(shelf) - 1

Distance(a, b) == IF a > b THEN a - b ELSE b - a

move_horizontal(shelf, selected, dir) ==
  IF shelf = <<>> THEN selected ELSE (selected + dir + Len(shelf)) % Len(shelf)

\* The first position of a row whose column is nearest, -1 when it has none.
find_in_row(shelf, target_row, desired_col) ==
  LET nearer(best, i) ==
        LET s == At(shelf, i) IN
        IF row(s) = target_row
           /\ (best = -1 \/ Distance(col(s), desired_col) < Distance(col(At(shelf, best)), desired_col))
        THEN i ELSE best
  IN  FoldLeft(nearer, -1, [k \in 1..Len(shelf) |-> k - 1])

\* Mutant: the search starts again from the wrong end.
edge_row_stuck(rows, dir) == IF dir > 0 THEN Max(rows) ELSE Min(rows)

\* Where the search starts again when it has run out of rows.
edge_row(rows, dir) == IF dir > 0 THEN Min(rows) ELSE Max(rows)

\* walk is the loop of move_vertical: row by row from t until one has a slot.
move_vertical(shelf, selected, dir) ==
  IF shelf = <<>> THEN selected ELSE
  LET here == At(shelf, selected)
      rows == {row(s) : s \in ToSet(shelf)}
      minr == Min(rows)   maxr == Max(rows)
      walk[t \in (minr - 1)..(maxr + 1)] ==
        IF t < minr \/ t > maxr THEN -1
        ELSE LET idx == find_in_row(shelf, t, col(here)) IN
             IF idx >= 0 THEN idx ELSE walk[t + dir]
      ahead == walk[row(here) + dir]
      again == walk[edge_row(rows, dir)]
  IN  IF ahead >= 0 THEN ahead ELSE IF again >= 0 THEN again ELSE selected

-----------------------------------------------------------------------------
\* Position j is where the cursor of a two-dimensional grid belongs after a
\* vertical step from position i: in the next row that has slots, around the
\* edge if need be, and no other slot of that row is nearer to the column.
IsVerticalStep(shelf, i, dir, j) ==
  LET r    == row(At(shelf, i))
      rows == {row(s) : s \in ToSet(shelf)}
      next == IF dir > 0
              THEN IF \E x \in rows : x > r THEN Min({x \in rows : x > r}) ELSE Min(rows)
              ELSE IF \E x \in rows : x < r THEN Max({x \in rows : x < r}) ELSE Max(rows)
      off(k) == Distance(col(At(shelf, k)), col(At(shelf, i)))
  IN  /\ j \in Positions(shelf) /\ row(At(shelf, j)) = next
      /\ \A k \in Positions(shelf) : row(At(shelf, k)) = next => off(j) <= off(k)
=============================================================================
