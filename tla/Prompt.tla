------------------------------- MODULE Prompt -------------------------------
(***************************************************************************)
(* What the prompt of the TUI does with the text typed into it             *)
(* (parse_zl_to_gr and parse_pos_int of tui/src/app.c).  A text is the     *)
(* sequence of its characters; the prompt lets digits and dots in.         *)
(***************************************************************************)
EXTENDS Integers, Sequences, SequencesExt

CONSTANTS INT_MAX,  \* largest C int
          ZL_MAX    \* 99999999: parse_zl_to_gr gives up beyond it

ASSUME PromptAssumption ==
  /\ INT_MAX \in Nat /\ ZL_MAX \in Nat
  /\ 100 * ZL_MAX >= INT_MAX - 99   \* no amount that fits an int is given up

Digit == [c \in {"0", "1", "2", "3", "4", "5", "6", "7", "8", "9"} |->
            CASE c = "0" -> 0 [] c = "1" -> 1 [] c = "2" -> 2 [] c = "3" -> 3
              [] c = "4" -> 4 [] c = "5" -> 5 [] c = "6" -> 6 [] c = "7" -> 7
              [] c = "8" -> 8 [] c = "9" -> 9]
Characters == DOMAIN Digit \cup {"."}

\* One digit read by the loops, which stop reading beyond the given limit.
Shift(limit, v, c) == IF v > limit THEN v ELSE 10 * v + Digit[c]

\* What such a loop makes of a text of digits.
Read(limit, ds) == FoldLeft(LAMBDA v, c : Shift(limit, v, c), 0, ds)

\* Mutant: one decimal counts as grosze.
decimals_unscaled(frac) == Read(99, frac)

\* The digits behind the dot, in grosze.
decimals(frac) == Read(99, frac) * (IF Len(frac) = 1 THEN 10 ELSE 1)

\* The amount in grosze, -1 when the text is refused: digits before the first
\* dot, at most two digits and no dot behind it.
parse_zl_to_gr(s) ==
  LET dot   == SelectInSeq(s, LAMBDA c : c = ".")
      whole == IF dot = 0 THEN s ELSE SubSeq(s, 1, dot - 1)
      frac  == IF dot = 0 THEN <<>> ELSE SubSeq(s, dot + 1, Len(s))
      zl    == Read(ZL_MAX, whole)
  IN  IF whole = <<>> \/ zl > ZL_MAX \/ Len(frac) > 2 \/ "." \in ToSet(frac) THEN -1
      ELSE LET sum == zl * 100 + decimals(frac) IN IF sum > INT_MAX THEN -1 ELSE sum

\* The quantity, -1 when the text is refused.
parse_pos_int(s) ==
  IF "." \in ToSet(s) THEN -1
  ELSE LET v == Read(INT_MAX, s) IN IF s = <<>> \/ v > INT_MAX \/ v = 0 THEN -1 ELSE v

-----------------------------------------------------------------------------
(* The reference: decimal notation, by the weight of each position.        *)

\* 10^n.
Power[n \in Nat] == IF n = 0 THEN 1 ELSE 10 * Power[n - 1]

\* s is a decimal number with up to `places' decimals.
IsDecimal(s, places) ==
  \E w \in 1..Len(s) :
    /\ \A k \in 1..Len(s) : s[k] = "." <=> k = w + 1
    /\ Len(s) - (w + 1) <= places

\* Its value in units of 10^-places.
DecimalValue(s, places) ==
  LET whole    == {k \in 1..Len(s) : \A j \in 1..k : s[j] # "."}
      place(k) == Cardinality(whole) + places - (IF k \in whole THEN k ELSE k - 1)
      worth(k) == IF s[k] = "." THEN 0 ELSE Digit[s[k]] * Power[place(k)]
  IN  MapThenFoldSet(+, 0, worth, Max, 1..Len(s))

\* What the prompt takes s for is its value as a decimal number, and what it
\* refuses is no such number or does not fit an int.  (A quantity of 0 is
\* refused by the parser, an amount of 0 by its callers.)
ReadAsTyped(s) ==
  /\ parse_zl_to_gr(s) =
       IF IsDecimal(s, 2) /\ DecimalValue(s, 2) <= INT_MAX THEN DecimalValue(s, 2) ELSE -1
  /\ parse_pos_int(s) =
       IF IsDecimal(s, 0) /\ "." \notin ToSet(s) /\ DecimalValue(s, 0) \in 1..INT_MAX
       THEN DecimalValue(s, 0) ELSE -1
=============================================================================
