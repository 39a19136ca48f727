------------------------------- MODULE Counters -------------------------------
(***************************************************************************)
(* The word counter (WordCount) and then lwc (LineCount), run over the     *)
(* same file, as a shell runs one command after the other.  Without a flag *)
(* the word counter copies the file (FileCopy) and counts nothing.         *)
(***************************************************************************)
EXTENDS WordCount

CONSTANTS BUFSIZE, OpenErrors, ReadMayFail  \* of lwc

ASSUME LineAssumption ==
    BUFSIZE \in Nat \ {0} /\ OpenErrors \subseteq Nat \ {0} /\ ReadMayFail \in BOOLEAN

VARIABLES argc, lwc_pc, inp, lwc_taken, rest, lwc_in_word, nlines, nwords, nchars

lwc == INSTANCE LineCount WITH pc <- lwc_pc, taken <- lwc_taken, in_word <- lwc_in_word

VARIABLES copy_pc, copy_taken, eax, output, cut

cp == INSTANCE FileCopy WITH pc <- copy_pc, taken <- copy_taken

lwcVars == <<argc, lwc_pc, inp, lwc_taken, rest, lwc_in_word, nlines, nwords, nchars>>
copyVars == <<copy_pc, copy_taken, eax, output, cut>>
allVars == <<vars, lwcVars, copyVars>>

BothInit == Init /\ lwc!Init /\ cp!Init /\ (ws_flag => copy_pc = "flag")

WordStep ==
    /\ copy_pc = "flag"
    /\ Next
    /\ UNCHANGED <<lwcVars, copyVars>>

LineStep ==
    /\ pc \in {"exited", "failed"}
    /\ lwc!Next
    /\ UNCHANGED <<vars, copyVars>>

CopyStep == cp!Next /\ UNCHANGED <<vars, lwcVars>>

BothNext == WordStep \/ LineStep \/ CopyStep

BothSpec == BothInit /\ [][BothNext]_allVars

(* The variables of lwc keep their types, whatever the word counter left.  *)
LineTypeOK == lwc!TypeOK

(* However read cuts the file, lwc counts each line, word and character    *)
(* once, and a last line without a new line, too (lwc.c:47-66).            *)
LineCountsRight == lwc!CountsRight

(* Without a flag: see Complete in FileCopy (task2b.asm:231-286). *)
CopyComplete == cp!Complete

(* "error: cannot open file" (lwc.c:11, 37-39): a file that lwc cannot     *)
(* open is reported.                                                       *)
LineOpenFailureReported == lwc!OpenFailureReported

(* The two programs agree on the number of words of a file, although their *)
(* buffers differ in size and either may be cut short by read              *)
(* (task2b.asm:114-141, lwc.c:47-64).                                      *)
AgreeOnWords ==
    (pc = "exited" /\ ~ ws_flag /\ lwc_pc = "print") => nwords = word_count

===============================================================================
