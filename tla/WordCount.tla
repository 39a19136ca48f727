------------------------------- MODULE WordCount -------------------------------
(***************************************************************************)
(* The word counter of lab 5 (src/lab5/task2/task2b.asm) with the flags -w *)
(* (count the words of a file) and -ws (count the words equal to ws_word). *)
(* The file comes in buffers of any size up to BUFFER_SIZE, as read may    *)
(* return less than it is asked for, so that a word may be cut anywhere;   *)
(* in_word, good_word and word_offset carry it over from one buffer to the *)
(* next.                                                                   *)
(***************************************************************************)
EXTENDS Integers, Sequences, FiniteSets

CONSTANTS
    Letters,      \* characters of words
    Space,        \* ' ' or tab
    NewLine,
    Inputs,       \* the contents of files
    Words,        \* what is given for ws_word, perhaps the empty string
    BUFFER_SIZE,
    IOMayFail     \* whether a system call may return an error

Blanks == {Space, NewLine}
Chars == Letters \cup Blanks

ASSUME CharsAssumption == Letters \cap Blanks = {} /\ Space # NewLine
ASSUME InputsAssumption == Inputs \subseteq Seq(Chars) /\ Words \subseteq Seq(Letters)
ASSUME BufferAssumption == BUFFER_SIZE \in Nat \ {0} /\ IOMayFail \in BOOLEAN

VARIABLES
    input,        \* the content of the file
    ws_flag,      \* -ws and not -w
    ws_word,
    pc,           \* where the program is
    taken,        \* characters read so far
    read_count,   \* characters in the buffer
    edx,          \* offset of the next character in the buffer
    in_word,
    good_word,    \* the word is a beginning of ws_word so far
    word_offset,  \* characters of ws_word that were met
    word_count

file == <<input, ws_flag, ws_word>>
scan == <<in_word, good_word, word_offset, word_count>>
vars == <<file, pc, taken, read_count, edx, scan>>

Init ==
    /\ input \in Inputs
    /\ ws_flag \in BOOLEAN
    /\ ws_word \in (IF ws_flag THEN Words ELSE {<< >>})
    /\ pc = "open"
    /\ taken = 0
    /\ read_count = 0
    /\ edx = 0
    /\ in_word = FALSE
    /\ good_word = FALSE
    /\ word_offset = 0
    /\ word_count = 0

-------------------------------------------------------------------------------

(* A system call is made and its result checked. *)
Call(from, to) ==
    /\ pc = from
    /\ \/ pc' = to
       \/ IOMayFail /\ pc' = "failed"

cw_open_file ==
    /\ Call("open", "read")
    /\ UNCHANGED <<file, taken, read_count, edx, scan>>

(* Mutant: the offset is not reset. *)
reset_offset_Not == UNCHANGED edx

reset_offset == edx' = 0

(* At least one character, while there are any. *)
cw_read_file ==
    /\ pc = "read"
    /\ \/ /\ \E n \in 1 .. BUFFER_SIZE :
               /\ taken + n <= Len(input)
               /\ taken' = taken + n
               /\ read_count' = n
          /\ reset_offset
          /\ pc' = "scan"
       \/ /\ taken = Len(input)
          /\ pc' = "end"
          /\ UNCHANGED <<taken, read_count, edx>>
       \/ /\ IOMayFail
          /\ pc' = "failed"
          /\ UNCHANGED <<taken, read_count, edx>>
    /\ UNCHANGED <<file, scan>>

(* How many characters have been looked at, and the next one. *)
scanned == taken - read_count + edx
char == input[scanned + 1]

next_buffer ==
    /\ pc = "scan"
    /\ edx = read_count
    /\ pc' = "read"
    /\ UNCHANGED <<file, taken, read_count, edx, scan>>

next_char ==
    /\ pc = "scan"
    /\ edx < read_count
    /\ edx' = edx + 1
    /\ UNCHANGED <<file, pc, taken, read_count>>

(* Mutant: the flag is reset at the start of every buffer. *)
w_word_check_PerBuffer ==
    /\ word_count' = IF in_word /\ edx > 0 THEN word_count ELSE word_count + 1
    /\ in_word' = TRUE
    /\ UNCHANGED <<good_word, word_offset>>

w_word_check ==
    /\ word_count' = IF in_word THEN word_count ELSE word_count + 1
    /\ in_word' = TRUE
    /\ UNCHANGED <<good_word, word_offset>>

(* A word is good until it differs from ws_word or goes on after its end;  *)
(* word_offset is not moved by a character that differs.                   *)
ws_word_check ==
    LET offset == IF in_word THEN word_offset ELSE 0
        equal  == offset < Len(ws_word) /\ ws_word[offset + 1] = char
    IN  /\ in_word' = TRUE
        /\ word_offset' = IF equal THEN offset + 1 ELSE offset
        /\ good_word' = (equal /\ (in_word => good_word))
        /\ UNCHANGED word_count

at_end == word_offset = Len(ws_word)

(* Mutant: a word that is only the beginning of ws_word is counted. *)
not_in_word_Beginning ==
    /\ in_word' = FALSE
    /\ good_word' = (good_word /\ ~ ws_flag)
    /\ word_count' = IF ws_flag /\ good_word THEN word_count + 1 ELSE word_count
    /\ UNCHANGED word_offset

(* Only the first blank after a word finds it good. *)
not_in_word ==
    /\ in_word' = FALSE
    /\ good_word' = (good_word /\ ~ ws_flag)
    /\ word_count' = IF ws_flag /\ at_end /\ good_word THEN word_count + 1 ELSE word_count
    /\ UNCHANGED word_offset

count_words ==
    /\ next_char
    /\ \/ char \in Blanks /\ not_in_word
       \/ char \notin Blanks /\ ~ ws_flag /\ w_word_check
       \/ char \notin Blanks /\ ws_flag /\ ws_word_check

(* The end of the file ends a word, too: good_word is not looked at.       *)
end_case ==
    /\ pc = "end"
    /\ pc' = "write"
    /\ word_count' = IF ws_flag /\ in_word /\ at_end THEN word_count + 1 ELSE word_count
    /\ UNCHANGED <<file, taken, read_count, edx, in_word, good_word, word_offset>>

write_count ==
    /\ Call("write", "newline")
    /\ UNCHANGED <<file, taken, read_count, edx, scan>>

close_file ==
    /\ Call("newline", "close") \/ Call("close", "exited")
    /\ UNCHANGED <<file, taken, read_count, edx, scan>>

Next ==
    \/ cw_open_file
    \/ cw_read_file
    \/ next_buffer
    \/ count_words
    \/ end_case
    \/ write_count
    \/ close_file

Spec == Init /\ [][Next]_vars

-------------------------------------------------------------------------------
(* Properties. *)

IsLetter(i) == input[i] \notin Blanks

(* Where words start and end among the first n characters. *)
Starts(n) == {i \in 1 .. n : IsLetter(i) /\ (i > 1 => ~ IsLetter(i - 1))}

(* The word that starts at i is w. *)
WordAt(i, w) ==
    /\ i + Len(w) - 1 <= Len(input)
    /\ \A k \in 1 .. Len(w) : input[i + k - 1] = w[k]
    /\ i + Len(w) <= Len(input) => ~ IsLetter(i + Len(w))

Equal == {i \in Starts(Len(input)) : WordAt(i, ws_word)}

(* edx stays within the buffer, word_offset within ws_word. *)
TypeOK ==
    /\ input \in Inputs
    /\ ws_flag \in BOOLEAN
    /\ ws_word \in Words \cup {<< >>}
    /\ pc \in {"open", "read", "scan", "end", "write", "newline", "close", "exited", "failed"}
    /\ taken \in 0 .. Len(input)
    /\ read_count \in 0 .. taken
    /\ edx \in 0 .. read_count
    /\ in_word \in BOOLEAN
    /\ good_word \in BOOLEAN
    /\ word_offset \in 0 .. Len(ws_word)
    /\ word_count \in Nat

(* With -w every word is counted when its first character is met, and only *)
(* then, however read cuts the file (task2b.asm:134-141, 166-170).         *)
WordsCounted == ~ ws_flag => word_count = Cardinality(Starts(scanned))

Result == pc \in {"write", "newline", "close", "exited"}

(* The first k characters of ws_word occur in this order, perhaps with     *)
(* others between them, among the characters s to n.                       *)
Occurs(k, s, n) ==
    \E at \in [1 .. k -> s .. n] :
        /\ \A i, j \in 1 .. k : i < j => at[i] < at[j]
        /\ \A i \in 1 .. k : input[at[i]] = ws_word[i]

(* The start of the word that the end of the file ends, if there is one.   *)
LastWord == {s \in Starts(Len(input)) : \A i \in s .. Len(input) : IsLetter(i)}

(* With -ws every word in front of a blank is counted exactly if it is     *)
(* ws_word.  A word ended by the end of the file is counted exactly if     *)
(* ws_word can be made of it by striking out characters, as `aab', `aba'   *)
(* and `ab' for `ab': end_case does not look at good_word, and word_offset *)
(* stays where a character differed and moves on behind it                 *)
(* (task2b.asm:156-163, 166-183, 192-207).                                 *)
EqualCounted ==
    (ws_flag /\ Result) =>
        word_count = Cardinality({i \in Equal : i + Len(ws_word) <= Len(input)})
                     + (IF \E s \in LastWord : Occurs(Len(ws_word), s, Len(input)) THEN 1 ELSE 0)

===============================================================================
