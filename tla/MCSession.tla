----------------------------- MODULE MCSession -----------------------------
(* Small instances of Session for TLC.                                     *)
EXTENDS Session, TLC

CONSTANTS k1, k2, cola, tea

\* Two slots, one of them empty, and a shelf that lost the second.
MCItemOf    == 11 :> cola @@ 32 :> tea
MCInitPrice == cola :> 100 @@ tea :> 100
MCInitQty   == 11 :> 1 @@ 32 :> 0
MCInitLog   == cola :> 1 @@ tea :> 0
MCShelves   == {{11}}

MCKonami == <<"b">>
MCKeys   == {"left", "right", "up", "down", "enter", " ", "backspace", "esc", "1",
             "d", "c", "s", "p", "r", "R", "q", "Q", "b"}

\* Rows of one to three slots, a row without slots, columns that differ.
MCCells == {11, 12, 14, 31, 33, 42}

\* Texts of up to four characters around the dot and around INT_MAX.
MCTexts == BoundedSeq({"0", "1", "9", "."}, 4)
=============================================================================
