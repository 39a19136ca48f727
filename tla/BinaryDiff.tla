------------------------------- MODULE BinaryDiff -------------------------------
(***************************************************************************)
(* The binary compare program (src/lab3/task2/task2.c, of which the        *)
(* programs of lab3/task1 are parts) and the program that patches files by *)
(* hand (src/lab8/task3/patch.c), run one after the other on the same two  *)
(* files.  The compare program lists the differences, counts them, or      *)
(* restores the original bytes in the new file, one seek and write per     *)
(* difference; it may be killed between two of them.                       *)
(*                                                                         *)
(* Both files are mapped by patch: what it reads behind the end of a file  *)
(* is 0 up to the end of the page, and what it writes there is lost.       *)
(***************************************************************************)
EXTENDS Integers, SequencesExt

CONSTANTS
    Bytes,        \* the bytes in files
    MaxLen,       \* bound: length of a file
    CommandLines, \* the options typed before the names of the two files
    NumberOf,     \* atoi on the options that are numbers; others are 0
    Text,         \* stands for what is printed, when it goes to a compared file
    PageSize,     \* bytes in a page
    ListBase,     \* "%ld" writes offsets in base 10,
    PatchBase,    \* strtol reads positions in base 16
    MaxDigits     \* bound: digits of a position that is typed

ASSUME DiffAssumption ==
    /\ Bytes \subseteq 0 .. 255
    /\ MaxLen \in Nat
    /\ \A w \in DOMAIN NumberOf : NumberOf[w] \in Int
    /\ CommandLines \subseteq Seq(STRING)
    /\ << >> \in CommandLines
    /\ Text \in BoundedSeq(Bytes, MaxLen)
    /\ PageSize \in Nat \ {0}
    /\ ListBase \in Nat /\ PatchBase \in Nat /\ 1 < ListBase /\ ListBase < PatchBase
    /\ MaxDigits \in Nat

VARIABLES
    pc,        \* where the compare program is
    orig, new, \* the contents of the two files
    opts,      \* its options
    i,         \* the byte being compared
    diffs,     \* diff_list: offset and both values of every difference
    countDiff, \* the number of differences met
    restored,  \* elements of diff_list written back
    before,    \* history variable: the new file when the program started
    patched    \* history variable: what patch was last told to copy

run == <<opts, i, diffs, countDiff, restored, before>>
diffVars == <<pc, orig, new, run, patched>>

Files == BoundedSeq(Bytes, MaxLen)

NotPatched == [src |-> << >>, size |-> 0, dest |-> << >>]

DiffInit ==
    /\ pc = "idle"
    /\ orig \in Files
    /\ new \in Files
    /\ opts = << >>
    /\ i = 0
    /\ diffs = << >>
    /\ countDiff = 0
    /\ restored = 0
    /\ before = new
    /\ patched = NotPatched

-------------------------------------------------------------------------------
(* The options are scanned from the left; a later one replaces what an     *)
(* earlier one has set.  The argument behind the last option is the name   *)
(* of the original file, which is no number.                               *)
atoi(s, j) == IF j \in DOMAIN s /\ s[j] \in DOMAIN NumberOf THEN NumberOf[s[j]] ELSE 0

scanned_Option(s, j, flags) ==
    CASE s[j] = "-t" -> [flags EXCEPT !.task = "t"]
      [] s[j] = "-k" -> [task |-> "k", n |-> atoi(s, j + 1)]
      [] s[j] = "-r" -> [task |-> "r", n |-> IF j # Len(s) THEN atoi(s, j + 1) ELSE flags.n]
      [] OTHER -> flags

flags ==
    FoldLeftDomain(LAMBDA f, j : scanned_Option(opts, j, f), [task |-> "a", n |-> -1], opts)

compareSize == Min({Len(orig), Len(new)})

(* "-o" as the last option opens the original file for writing. *)
output_orig == opts # << >> /\ Last(opts) = "-o"

Start ==
    /\ pc = "idle"
    /\ opts' \in CommandLines
    /\ orig' = IF output_orig' THEN << >> ELSE orig
    /\ pc' = "compare"
    /\ i' = 0
    /\ diffs' = << >>
    /\ countDiff' = 0
    /\ restored' = 0
    /\ before' = new
    /\ patched' = NotPatched
    /\ UNCHANGED new

(* Mutant: one difference more than asked for. *)
enough_OneMore == flags.task \in {"k", "r"} /\ flags.n # -1 /\ countDiff > flags.n

enough == flags.task \in {"k", "r"} /\ flags.n # -1 /\ countDiff >= flags.n

(* Mutant: the list grows at its head. *)
list_append_Head(list, data) == <<data>> \o list

list_append(list, data) == Append(list, data)

Compare ==
    /\ pc = "compare"
    /\ i < compareSize
    /\ IF orig[i + 1] = new[i + 1]
       THEN i' = i + 1 /\ UNCHANGED <<pc, diffs, countDiff>>
       ELSE IF enough
       THEN pc' = "report" /\ UNCHANGED <<i, diffs, countDiff>>
       ELSE /\ countDiff' = countDiff + 1
            /\ diffs' = list_append(diffs, [offset |-> i, orig_value |-> orig[i + 1],
                                            new_value |-> new[i + 1]])
            /\ i' = i + 1
            /\ UNCHANGED pc
    /\ UNCHANGED <<orig, new, opts, restored, before, patched>>

Compared ==
    /\ pc = "compare"
    /\ i >= compareSize
    /\ pc' = "report"
    /\ UNCHANGED <<orig, new, run, patched>>

(* The value of the digits s, the highest of them first. *)
number(s, base) ==
    LET value[k \in 0 .. Len(s)] == IF k = 0 THEN 0 ELSE base * value[k - 1] + s[k]
    IN  value[Len(s)]

(* What is typed, or printed, for a number.                                *)
Numerals(base) ==
    {s \in BoundedSeq(0 .. base - 1, MaxDigits) : s # << >> /\ (s[1] = 0 => Len(s) = 1)}

(* The digits by which the list names the position p.                      *)
list_print(s, p) == s \in Numerals(ListBase) /\ number(s, ListBase) = p

(* list_print, or the total; or restoreOrig begins. *)
Report ==
    /\ pc = "report"
    /\ IF flags.task = "r"
       THEN pc' = "restore" /\ UNCHANGED orig
       ELSE pc' = "idle" /\ orig' = IF output_orig THEN Text ELSE orig
    /\ UNCHANGED <<new, run, patched>>

(* Mutant: the byte behind the difference is written, or appended. *)
written_Behind(d) ==
    [p \in DOMAIN new \cup {d.offset + 2} |-> IF p = d.offset + 2 THEN d.orig_value ELSE new[p]]

(* fseek and fputc. *)
written(d) == [new EXCEPT ![d.offset + 1] = d.orig_value]

restoreOrig ==
    /\ pc = "restore"
    /\ restored < Len(diffs)
    /\ new' = written(diffs[restored + 1])
    /\ restored' = restored + 1
    /\ UNCHANGED <<pc, orig, opts, i, diffs, countDiff, before, patched>>

Restored ==
    /\ pc = "restore"
    /\ restored = Len(diffs)
    /\ pc' = "idle"
    /\ UNCHANGED <<orig, new, run, patched>>

Kill ==
    /\ pc \in {"compare", "report", "restore"}
    /\ pc' = "idle"
    /\ UNCHANGED <<orig, new, run, patched>>

-------------------------------------------------------------------------------
(* patch: memcpy(dest + dest_pos, src + src_pos, size) on the mappings.    *)

Mapped(f) == PageSize * ((Len(f) + PageSize - 1) \div PageSize)

memcpy(src, size, dest) ==
    [p \in DOMAIN new |->
        IF p - 1 \in dest .. dest + size - 1
        THEN LET q == p - dest + src IN IF q \in DOMAIN orig THEN orig[q] ELSE 0
        ELSE new[p]]

(* Mutant: positions are read as the list writes them. *)
strtol_Decimal(s) == number(s, ListBase)

strtol(s) == number(s, PatchBase)

(* The positions that can be typed. *)
Positions == Numerals(PatchBase)

Patch ==
    /\ pc = "idle"
    /\ \E src \in Positions, copy_size \in 1 .. MaxLen :
         LET src_pos == strtol(src)
         IN  /\ src_pos + copy_size <= Mapped(orig)
             /\ \E dest \in Positions :
                  LET dest_pos == strtol(dest)
                  IN  /\ dest_pos + copy_size <= Mapped(new)
                      /\ new' = memcpy(src_pos, copy_size, dest_pos)
                      /\ new' \in Files
                      /\ patched' = [src |-> src, size |-> copy_size, dest |-> dest]
    /\ before' = new
    /\ opts' = << >> /\ i' = 0 /\ diffs' = << >> /\ countDiff' = 0 /\ restored' = 0
    /\ UNCHANGED <<pc, orig>>

DiffNext ==
    Start \/ Compare \/ Compared \/ Report \/ restoreOrig \/ Restored \/ Kill \/ Patch

-------------------------------------------------------------------------------
(* Properties. *)

Differing(f) == {p \in 0 .. Min({Len(orig), Len(f)}) - 1 : orig[p + 1] # f[p + 1]}

(* The variables hold values of their types; restoring and patching write  *)
(* neither behind the end of the new file nor cut it off (task2.c:61-68,   *)
(* patch.c:42).                                                            *)
DiffTypeOK ==
    /\ pc \in {"idle", "compare", "report", "restore"}
    /\ orig \in Files
    /\ new \in Files
    /\ opts \in CommandLines
    /\ i \in 0 .. MaxLen
    /\ diffs \in Seq([offset : 0 .. MaxLen - 1, orig_value : Bytes, new_value : Bytes])
    /\ countDiff = Len(diffs)
    /\ restored \in 0 .. Len(diffs)
    /\ Len(before) = Len(new)

(* The number that limits a run: the one behind the last "-k", or the last *)
(* "-r" that is followed by anything; -1 is no limit.                      *)
Limit ==
    LET limiting == {j \in DOMAIN opts : opts[j] = "-k" \/ (opts[j] = "-r" /\ j < Len(opts))}
    IN  IF limiting = {} THEN -1 ELSE atoi(opts, Max(limiting) + 1)

(* When all bytes have been compared the list holds every difference that  *)
(* was asked for and no other: the lowest ones, in their order, with the   *)
(* bytes of both files; all of them without a limit, or if only the total  *)
(* is wanted (task2.c:74-127).                                             *)
ListRight ==
    pc \in {"report", "restore"} =>
        LET positions == Differing(before)
            unlimited == Limit = -1 \/ \A j \in DOMAIN opts :
                                          opts[j] \in {"-k", "-r"} =>
                                             \E k \in j + 1 .. Len(opts) : opts[k] = "-t"
        IN  /\ Len(diffs) = IF unlimited THEN Cardinality(positions)
                            ELSE Min({Cardinality(positions), Max({Limit, 0})})
            /\ \A k \in DOMAIN diffs :
                 /\ diffs[k].offset \in positions
                 /\ Cardinality({p \in positions : p <= diffs[k].offset}) = k
                 /\ diffs[k].orig_value = orig[diffs[k].offset + 1]
                 /\ diffs[k].new_value = before[diffs[k].offset + 1]

(* Both programs together.  Patching with the same position for both files *)
(* removes exactly the differences in the range that starts at what the    *)
(* position is in base 16.  A difference patched at the position the list  *)
(* names it by, which is in base 10, is removed exactly if that is one     *)
(* digit; from then on another byte is copied and the difference stays     *)
(* (task2.c:27, patch.c:27-42).                                            *)
PatchRestores ==
    (pc = "idle" /\ patched.size > 0 /\ patched.src = patched.dest) =>
        LET start == strtol(patched.dest)
        IN  /\ Differing(new) = Differing(before) \ (start .. start + patched.size - 1)
            /\ \A p \in Differing(before) :
                 list_print(patched.dest, p) /\ patched.size = 1 =>
                    (p \in Differing(new) <=> p >= ListBase)

(* The compare program implements the set of differing positions: however  *)
(* it is limited, it restores the lowest difference each time, never a     *)
(* byte that did not differ, and when it is killed the next run goes on    *)
(* where it stopped (task2.c:61-68 and 111-135).                           *)
Set == INSTANCE DiffSet WITH
    positions <- Differing(new),
    restoring <- pc = "restore",
    budget <- IF pc = "restore" THEN Len(diffs) - restored ELSE 0

================================================================================
