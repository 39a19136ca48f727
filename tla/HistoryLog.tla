------------------------------ MODULE HistoryLog ------------------------------
(***************************************************************************)
(* What the command history of the shell promises its user (lab7/task4,    *)
(* task4.c): commands are numbered 0, 1, 2, ... in the order they are      *)
(* recorded, the last Size of them can be recalled by number, and the text *)
(* behind a number never changes while that number can still be recalled.  *)
(* CommandHistory, the ring of Size slots, implements this specification.  *)
(***************************************************************************)
EXTENDS Integers

CONSTANTS
    Size,    \* how many commands are kept, at least one
    Lines    \* the command lines that can be recorded

VARIABLES
    count,   \* number of commands recorded so far
    entries  \* the text of each command that can still be recalled

vars == <<count, entries>>

(* The numbers that can be recalled when c commands have been recorded. *)
Window(c) == (IF c < Size THEN 0 ELSE c - Size) .. (c - 1)

LogTypeOK ==
    /\ count \in Nat
    /\ entries \in [Window(count) -> Lines]

Init ==
    /\ count = 0
    /\ entries \in [Window(0) -> Lines]

(* A line gets the next number; at most the oldest number is given up. *)
Record(l) ==
    /\ count' = count + 1
    /\ entries' = [i \in Window(count + 1) |-> IF i = count THEN l ELSE entries[i]]

Next == \E l \in Lines : Record(l)

Spec == Init /\ [][Next]_vars

===============================================================================
