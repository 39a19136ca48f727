--------------------------- MODULE MCCommandHistory ---------------------------
(* CommandHistory on a ring of three slots, with the numbers "!N" that fall *)
(* before, inside and after the window while up to MaxCount lines are read. *)
EXTENDS CommandHistory, TLC

CONSTANTS a, b

ProgramSymmetry == Permutations(Programs)

MCBangArgs == {-1, 0, 1, 3, 4}

===============================================================================
