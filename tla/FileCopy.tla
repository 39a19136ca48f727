-------------------------------- MODULE FileCopy --------------------------------
(***************************************************************************)
(* The word counter of lab 5 without a flag (src/lab5/task2/task2b.asm,    *)
(* from open_file on): the file is copied to the standard output, buffer   *)
(* by buffer.  Only the result of read is tested for the end of the file   *)
(* and for nothing else, and only the result of write for an error.        *)
(***************************************************************************)
EXTENDS Integers, Sequences

CONSTANTS
    Inputs,       \* the contents of files
    BUFFER_SIZE,
    IOMayFail     \* whether a system call may return an error

VARIABLES
    input,   \* the content of the file
    pc,      \* where the program is; "flag" if it does not copy
    taken,   \* characters read so far
    eax,     \* what the last read returned
    output,  \* the characters written
    cut      \* history variable: whether write ever wrote less than asked

vars == <<input, pc, taken, eax, output, cut>>

(* check_flag: the first argument is -w, or -ws, or the name of a file. *)
Init ==
    /\ input \in Inputs
    /\ pc \in {"open", "flag"}
    /\ taken = 0
    /\ eax = 0
    /\ output = << >>
    /\ cut = FALSE

-------------------------------------------------------------------------------

(* A system call is made and its result checked. *)
Call(from, to) ==
    /\ pc = from
    /\ \/ pc' = to
       \/ IOMayFail /\ pc' = "failed"

open_file == Call("open", "read") /\ UNCHANGED <<input, taken, eax, output, cut>>

(* Mutant: an error of read ends the copy as the end of the file does. *)
check_EOF_Less(n) == n <= 0

check_EOF(n) == n = 0

read_file ==
    /\ pc = "read"
    /\ \/ \E n \in 1 .. BUFFER_SIZE : taken + n <= Len(input) /\ eax' = n
       \/ taken = Len(input) /\ eax' = 0
       \/ IOMayFail /\ eax' = -1
    /\ taken' = IF eax' > 0 THEN taken + eax' ELSE taken
    /\ pc' = IF check_EOF(eax') THEN "newline" ELSE "write"
    /\ UNCHANGED <<input, output, cut>>

(* The kernel may write less than it is asked for; it refuses a negative   *)
(* length.                                                                 *)
write_file ==
    /\ pc = "write"
    /\ \/ \E n \in 1 .. eax :
            /\ output' = output \o SubSeq(input, taken - eax + 1, taken - eax + n)
            /\ cut' = (cut \/ n < eax)
            /\ pc' = "read"
       \/ /\ eax < 0 \/ IOMayFail
          /\ pc' = "failed"
          /\ UNCHANGED <<output, cut>>
    /\ UNCHANGED <<input, taken, eax>>

close_file ==
    /\ Call("newline", "close") \/ Call("close", "exited")
    /\ UNCHANGED <<input, taken, eax, output, cut>>

Next == open_file \/ read_file \/ write_file \/ close_file

Spec == Init /\ [][Next]_vars

-------------------------------------------------------------------------------
(* Properties. *)

(* A copy that ends without an error has read the whole file, although an  *)
(* error of read is not looked at: it becomes an error of the write behind *)
(* it.  The copy is complete exactly if write never wrote less than it was *)
(* asked for, as the rest of such a buffer is lost (task2b.asm:242-262).   *)
Complete ==
    pc \in {"newline", "close", "exited"} =>
        taken = Len(input) /\ (output = input <=> ~ cut)

================================================================================
