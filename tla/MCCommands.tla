----------------------------- MODULE MCCommands ------------------------------
(* Model checking of Commands: seconds that carry over into every field of  *)
(* the date, types of four, eight and sixteen bits.                         *)
EXTENDS Commands, TLC

At(y, m, d, h, min, s) ==
    [year |-> y, month |-> m, day |-> d, hour |-> h, minute |-> min, second |-> s]

MCStarts ==
    {At(0, 12, 31, 23, 59, 59), At(24, 2, 28, 23, 59, 59),
     At(25, 1, 31, 23, 59, 59), At(25, 3, 1, 12, 0, 58)}

(* A screen that was written all over, and one that was cleared.           *)
MCOldTexts == {[cell \in 0 .. MAX_OFFSET - 1 |-> "o"]}
MCClear == {BootScreen.cells}

MCTyped == {0, 9, 15, 16, 255, 256, 1000}
MCAddresses == {1, 10, 16, 175, 240, 255}
=============================================================================
