---------------------------- MODULE CommandHistory ----------------------------
(***************************************************************************)
(* The command history of the shell (src/lab7/task4/task4.c): a ring       *)
(* h_array of HISTORY_SIZE strings, filled by add_history, listed by the   *)
(* command "history" and recalled by "!N".  A recall hands the recalled    *)
(* text to handle_command again, so recalls nest when the text is itself   *)
(* "!M"; `frames' is the C stack of exclamation_mark_case.                 *)
(*                                                                         *)
(* Undefined behaviour is a choice: reading h_array outside its bounds     *)
(* crashes or yields any text, and a text freed by a nested recall has     *)
(* become any text by the time it is copied.                               *)
(***************************************************************************)
EXTENDS Integers, Sequences

CONSTANTS
    HISTORY_SIZE,  \* slots of the ring
    Programs,      \* lines that are not shell syntax: programs, pipelines, cd
    BangArgs,      \* the numbers N of the lines "!N"
    MaxCount,      \* bound: no line is read once this many are recorded
    MaxDepth,      \* bound: nested recalls that overflow the C stack
    None           \* the NULL pointer, and the argument of a line without one

ASSUME HistoryAssumption ==
    /\ HISTORY_SIZE \in Nat \ {0}
    /\ BangArgs \subseteq Int
    /\ MaxCount \in Nat
    /\ MaxDepth \in Nat
    /\ MaxDepth >= HISTORY_SIZE  \* so deep a recall has met a slot twice

VARIABLES
    h_array,    \* the ring
    h_count,    \* number of recorded commands
    h_pointer,  \* slot the next command is written to
    pc,         \* where the shell is
    typed,      \* input: the line read by main
    line,       \* the line being handled
    add,        \* what handle_command returned: record the line or not
    frames,     \* recalls in progress, innermost last
    listing,    \* what the last "history" printed: number |-> text
    deepest     \* history variable: deepest nesting of this command

ring == <<h_array, h_count, h_pointer>>
vars == <<h_array, h_count, h_pointer, pc, typed, line, add, frames, listing, deepest>>

Text(op, arg) == [op |-> op, arg |-> arg]

(* A line by what handle_command does with it.  "nothing" is a line that   *)
(* has no command: blank, or starting with an operator.                    *)
Lines ==
    {Text("run", p) : p \in Programs}
        \cup {Text("bang", n) : n \in BangArgs}
        \cup {Text(op, None) : op \in {"history", "notnumber", "nothing"}}

ASSUME NoneAssumption == None \notin Lines

Slots == 0 .. HISTORY_SIZE - 1

(* The remainder of C, which truncates towards zero. *)
CRem(a, n) == IF a >= 0 THEN a % n ELSE -((-a) % n)

Init ==
    /\ h_array = [s \in Slots |-> None]
    /\ h_count = 0
    /\ h_pointer = 0
    /\ pc = "prompt"
    /\ typed = Text("nothing", None)
    /\ line = Text("nothing", None)
    /\ add = FALSE
    /\ frames = << >>
    /\ listing = << >>
    /\ deepest = 0

-------------------------------------------------------------------------------
(* The main loop. *)

ReadLine ==
    /\ pc = "prompt"
    /\ h_count < MaxCount
    /\ \E l \in Lines : typed' = l /\ line' = l
    /\ pc' = "handle"
    /\ listing' = << >>
    /\ deepest' = 0
    /\ UNCHANGED <<ring, add, frames>>

Quit ==
    /\ pc = "prompt"
    /\ pc' = "exited"
    /\ UNCHANGED <<ring, typed, line, add, frames, listing, deepest>>

(* Mutant: the pointer is not wrapped. *)
advance_NoWrap ==
    /\ h_pointer' = h_pointer + 1
    /\ h_count' = h_count + 1

advance ==
    /\ h_pointer' = (h_pointer + 1) % HISTORY_SIZE
    /\ h_count' = h_count + 1

(* Mutant: the pointer is moved before the text is written. *)
add_history_Swapped(text) ==
    /\ h_array' = [h_array EXCEPT ![(h_pointer + 1) % HISTORY_SIZE] = text]
    /\ advance

add_history(text) ==
    /\ h_array' = [h_array EXCEPT ![h_pointer] = text]
    /\ advance

ReturnToMain ==
    /\ pc = "return"
    /\ frames = << >>
    /\ IF add THEN add_history(typed) ELSE UNCHANGED ring
    /\ pc' = "prompt"
    /\ UNCHANGED <<typed, line, add, frames, listing, deepest>>

-------------------------------------------------------------------------------
(* handle_command, one action per kind of line. *)

Handling(op) == pc = "handle" /\ line.op = op

ReturnAdd ==
    /\ pc' = "return"
    /\ add' = TRUE
    /\ UNCHANGED <<ring, typed, line, frames, deepest>>

Crash ==
    /\ pc' = "crashed"
    /\ UNCHANGED <<ring, typed, line, add, frames, listing, deepest>>

(* parseCmdLines returned NULL, or the first argument is NULL: both are    *)
(* dereferenced.                                                           *)
HandleNothing == Handling("nothing") /\ Crash

HandleRun == Handling("run") /\ ReturnAdd /\ UNCHANGED listing

(* The numbers print_history prints, each with the slot it reads for it.   *)
(* Mutant: the listing starts at the slot about to be replaced. *)
FirstSlot_Oldest == IF h_count < HISTORY_SIZE THEN 0 ELSE h_pointer

FirstListed == IF h_count < HISTORY_SIZE THEN 0 ELSE h_count - HISTORY_SIZE + 1
FirstSlot == IF h_count < HISTORY_SIZE THEN 0 ELSE (h_pointer + 1) % HISTORY_SIZE

ListedSlot(i) == (FirstSlot + i - FirstListed) % HISTORY_SIZE

print_history ==
    LET numbers == {i \in FirstListed .. h_count - 1 : h_array[ListedSlot(i)] # None}
    IN  listing' = [i \in numbers |-> h_array[ListedSlot(i)]]

HandleHistory == Handling("history") /\ print_history /\ ReturnAdd

NotANumber == Handling("notnumber") /\ ReturnAdd /\ UNCHANGED listing

(* Mutant: the number about to be given is accepted. *)
Accepted_OneTooMany(n) == ~ (n > h_count \/ n < h_count - HISTORY_SIZE)

Accepted(n) == ~ (n >= h_count \/ n < h_count - HISTORY_SIZE)

NotFound ==
    /\ Handling("bang")
    /\ ~ Accepted(line.arg)
    /\ ReturnAdd
    /\ UNCHANGED listing

CalledSlot == CRem(line.arg, HISTORY_SIZE)

(* The recalled text is handled as a line of its own. *)
Call(text, freed) ==
    /\ Len(frames) < MaxDepth
    /\ line' = text
    /\ frames' = Append(frames, [slot |-> CalledSlot, freed |-> freed])
    /\ deepest' = Len(frames) + 1
    /\ UNCHANGED <<ring, pc, typed, add, listing>>

Recall ==
    /\ Handling("bang")
    /\ Accepted(line.arg)
    /\ CalledSlot \in Slots
    /\ h_array[CalledSlot] # None
    /\ Call(h_array[CalledSlot], FALSE)

(* A negative number can pass the check; the slot it selects is outside    *)
(* the array.                                                              *)
RecallOutside ==
    /\ Handling("bang")
    /\ Accepted(line.arg)
    /\ CalledSlot \notin Slots
    /\ \E text \in Lines : Call(text, TRUE)

(* The slot holds NULL, lies outside the array, or the stack is exhausted. *)
RecallCrash ==
    /\ Handling("bang")
    /\ Accepted(line.arg)
    /\ \/ CalledSlot \in Slots => h_array[CalledSlot] = None
       \/ Len(frames) = MaxDepth
    /\ Crash

(* Mutant: the repeated command is not counted. *)
keep_slot_Uncounted ==
    /\ h_pointer' = (h_pointer + 1) % HISTORY_SIZE
    /\ UNCHANGED <<h_array, h_count>>

(* The recalled text is in the very slot it would be copied to. *)
keep_slot == advance /\ UNCHANGED h_array

(* Mutant: main records the "!N" as well. *)
dont_add_history_Ignored == add' = TRUE

dont_add_history == add' = FALSE

(* The end of exclamation_mark_case: the recalled text is recorded again,  *)
(* unless its own slot is next, which is then kept as it is.  Recording    *)
(* frees the text of the slot, under the feet of any outer recall of it.   *)
ReturnToRecall ==
    /\ pc = "return"
    /\ frames # << >>
    /\ LET n == Len(frames)
           top == frames[n]
           copied == top.slot # h_pointer
       IN  /\ \/ /\ copied
                 /\ \E text \in Lines :
                      /\ ~ top.freed => text = h_array[top.slot]
                      /\ add_history(text)
              \/ ~ copied /\ keep_slot
           /\ frames' = [i \in 1 .. n - 1 |->
                           [slot |-> frames[i].slot,
                            freed |-> frames[i].freed \/ (copied /\ frames[i].slot = h_pointer)]]
    /\ dont_add_history
    /\ UNCHANGED <<pc, typed, line, listing, deepest>>

Next ==
    \/ ReadLine
    \/ Quit
    \/ HandleNothing
    \/ HandleRun
    \/ HandleHistory
    \/ NotANumber
    \/ NotFound
    \/ Recall
    \/ RecallOutside
    \/ RecallCrash
    \/ ReturnToRecall
    \/ ReturnToMain

Spec == Init /\ [][Next]_vars

-------------------------------------------------------------------------------
(* Properties. *)

(* The numbers behind which the ring still holds a command. *)
Recallable == (IF h_count < HISTORY_SIZE THEN 0 ELSE h_count - HISTORY_SIZE) .. h_count - 1

Entry(i) == h_array[i % HISTORY_SIZE]

TypeOK ==
    /\ h_array \in [Slots -> Lines \cup {None}]
    /\ h_count \in Nat
    /\ h_pointer \in Slots
    /\ pc \in {"prompt", "handle", "return", "crashed", "exited"}
    /\ typed \in Lines
    /\ line \in Lines
    /\ add \in BOOLEAN
    /\ frames \in Seq([slot : Int, freed : BOOLEAN])
    /\ deepest \in 0 .. MaxDepth

(* The ring agrees with the count whatever mixture of recording and        *)
(* skipping brought it there: the next slot is the one the check of "!N"   *)
(* will look in, exactly the slots of recallable numbers are filled, and a *)
(* recall in progress still finds the text it has to copy, unless it was   *)
(* freed (task4.c:190-198 and 225-238 keep this, :216 and :231 need it).   *)
PointerFollowsCount == h_pointer = h_count % HISTORY_SIZE

FilledSlots == \A s \in Slots : h_array[s] = None <=> s >= h_count

PendingTexts ==
    \A k \in 1 .. Len(frames) :
        /\ frames[k].slot \in Slots => h_array[frames[k].slot] # None
        /\ frames[k].slot \notin Slots => frames[k].freed

RingInv == PointerFollowsCount /\ FilledSlots /\ PendingTexts

(* What the comment of print_history promises (task4.c:270-276): back at   *)
(* the prompt, every number the last "history" listed can be recalled and  *)
(* names the listed text, and only the newest command was not listed.      *)
ListedAtPrompt ==
    (pc = "prompt" /\ line.op = "history") =>
        /\ DOMAIN listing = Recallable \ {h_count - 1}
        /\ \A i \in DOMAIN listing : listing[i] = Entry(i)

(* The listing is right whenever "history" was typed or recalled directly. *)
ListingRight == deepest <= 1 => ListedAtPrompt

(* What the comment at task4.c:227-230 promises: the command recorded for  *)
(* a line is the one that was carried out, not the recall that named it.   *)
(* It is so for every line but a recall of a recall, which records what    *)
(* the inner recall named and then the inner recall, and but for negative  *)
(* numbers.                                                                *)
DirectRecallRecorded ==
    (pc = "prompt" /\ h_count > 0 /\ deepest <= 1 /\ (typed.op = "bang" => typed.arg >= 0)) =>
        Entry(h_count - 1) = line

(* Whatever was typed before, the shell only dies of a line without a      *)
(* command, of a negative number, or of a recall that leads to itself: a   *)
(* number it accepts otherwise always finds a text.                        *)
CrashCauses ==
    pc = "crashed" =>
        \/ line.op = "nothing"
        \/ line.op = "bang" /\ line.arg < 0
        \/ Len(frames) = MaxDepth

(* The shell implements the numbered log. *)
Log == INSTANCE HistoryLog WITH
    Size <- HISTORY_SIZE,
    count <- h_count,
    entries <- [i \in Recallable |-> Entry(i)]

LogSpec == Log!Spec

===============================================================================
