------------------------------- MODULE LineCount -------------------------------
(***************************************************************************)
(* lwc of lab 5 (src/lab5/task1/lwc.c): lines, words and characters of a   *)
(* file or of its standard input.  It runs on its own system calls         *)
(* (start.asm), which return minus the error number where the C library    *)
(* would return -1.                                                        *)
(***************************************************************************)
EXTENDS Integers, Sequences, FiniteSets

CONSTANTS
    Letters, Space, NewLine,
    Inputs,      \* the contents of files
    BUFSIZE,
    OpenErrors,  \* the error numbers open may return
    ReadMayFail  \* whether read may return one

Chars == Letters \cup {Space, NewLine}

VARIABLES
    input,    \* the content of the file
    argc,     \* number of arguments
    pc,       \* where the program is
    inp,      \* what open returned: "file", "stdin", or "bad"
    taken,    \* characters read so far
    rest,     \* characters between b and c
    in_word,
    nlines,
    nwords,
    nchars

counters == <<nlines, nwords, nchars, in_word>>
vars == <<input, argc, pc, inp, taken, rest, counters>>

Init ==
    /\ input \in Inputs
    /\ argc \in 0 .. 2
    /\ pc = "args"
    /\ inp = "stdin"
    /\ taken = 0
    /\ rest = 0
    /\ in_word = FALSE
    /\ nlines = 0
    /\ nwords = 0
    /\ nchars = 0

-------------------------------------------------------------------------------

(* The number of arguments decides; open is only compared with -1.         *)
args ==
    /\ pc = "args"
    /\ \/ argc = 0 /\ pc' = "read" /\ UNCHANGED inp
       \/ argc = 1 /\ pc' = "read" /\ inp' = "file"
       \/ /\ argc = 1
          /\ inp' = "bad"
          /\ \E e \in OpenErrors : pc' = IF -e = -1 THEN "usage" ELSE "read"
       \/ argc = 2 /\ pc' = "usage" /\ UNCHANGED inp
    /\ UNCHANGED <<input, argc, taken, rest, counters>>

fill(len) == rest' = len

(* A negative length puts c before b: b runs past c and out of memory.     *)
read ==
    /\ pc = "read"
    /\ \/ /\ inp # "bad"
          /\ \E n \in 1 .. BUFSIZE :
               /\ taken + n <= Len(input)
               /\ taken' = taken + n
               /\ fill(n)
          /\ pc' = "scan"
       \/ /\ inp # "bad"
          /\ taken = Len(input)
          /\ pc' = "end"
          /\ UNCHANGED <<taken, rest>>
       \/ /\ inp = "bad" \/ ReadMayFail
          /\ pc' = "crashed"
          /\ UNCHANGED <<taken, rest>>
    /\ UNCHANGED <<input, argc, inp, counters>>

next_buffer ==
    /\ pc = "scan"
    /\ rest = 0
    /\ pc' = "read"
    /\ UNCHANGED <<input, argc, inp, taken, rest, counters>>

scanned == taken - rest
char == input[scanned + 1]

(* Mutant: a new line does not end a word, as if its case had a break. *)
count_Break ==
    /\ nlines' = nlines + (IF char = NewLine THEN 1 ELSE 0)
    /\ nwords' = nwords + (IF char \in {Space, NewLine} \/ in_word THEN 0 ELSE 1)
    /\ in_word' = (char # Space /\ (char = NewLine => in_word))

(* The case of a new line falls through to that of a blank. *)
count ==
    /\ nlines' = nlines + (IF char = NewLine THEN 1 ELSE 0)
    /\ nwords' = nwords + (IF char \in {Space, NewLine} \/ in_word THEN 0 ELSE 1)
    /\ in_word' = (char \notin {Space, NewLine})

next_char ==
    /\ pc = "scan"
    /\ rest > 0
    /\ rest' = rest - 1
    /\ count
    /\ nchars' = nchars + 1
    /\ UNCHANGED <<input, argc, pc, inp, taken>>

(* Mutant: every file is taken to end in an unterminated line. *)
last_line_Always ==
    /\ pc = "end"
    /\ pc' = "print"
    /\ nlines' = nlines + 1
    /\ UNCHANGED <<input, argc, inp, taken, rest, nwords, nchars, in_word>>

(* c points behind the last character read; at first, behind a new line.   *)
last_line ==
    /\ pc = "end"
    /\ pc' = "print"
    /\ nlines' = IF taken = 0 \/ input[taken] = NewLine THEN nlines ELSE nlines + 1
    /\ UNCHANGED <<input, argc, inp, taken, rest, nwords, nchars, in_word>>

Next == args \/ read \/ next_buffer \/ next_char \/ last_line

Spec == Init /\ [][Next]_vars

-------------------------------------------------------------------------------
(* Properties. *)

IsLetter(i) == input[i] \notin {Space, NewLine}

Starts(n) == {i \in 1 .. n : IsLetter(i) /\ (i > 1 => ~ IsLetter(i - 1))}

Newlines(n) == {i \in 1 .. n : input[i] = NewLine}

(* rest stays within what was read. *)
TypeOK ==
    /\ input \in Inputs
    /\ argc \in 0 .. 2
    /\ pc \in {"args", "read", "scan", "end", "print", "usage", "crashed"}
    /\ inp \in {"stdin", "file", "bad"}
    /\ taken \in 0 .. Len(input)
    /\ rest \in 0 .. taken
    /\ in_word \in BOOLEAN
    /\ nlines \in Nat /\ nwords \in Nat /\ nchars \in Nat

(* However read cuts the file, lines, words and characters are counted     *)
(* once each, and a last line without a new line is one                    *)
(* (lwc.c:47-66).                                                          *)
CountsRight ==
    /\ nchars = scanned
    /\ nwords = Cardinality(Starts(scanned))
    /\ pc # "print" => nlines = Cardinality(Newlines(scanned))
    /\ pc = "print" =>
         nlines = Cardinality({i \in 1 .. Len(input) : input[i] = NewLine \/ i = Len(input)})

(* "error: cannot open file" (lwc.c:11, 37-39): a file that cannot be      *)
(* opened is reported.                                                     *)
OpenFailureReported == inp = "bad" => pc = "usage"

===============================================================================
