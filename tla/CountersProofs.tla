---------------------------- MODULE CountersProofs ----------------------------
(***************************************************************************)
(* The word counter and lwc count right for every file, every ws_word and  *)
(* every size of their buffers.                                            *)
(*                                                                         *)
(* A counter holds the number of a kind of positions among the characters  *)
(* scanned so far.  For words this is inductive only with the reading of   *)
(* in_word as "the last character scanned belongs to a word", and only     *)
(* with the buffer used up whenever the program is not scanning it: that   *)
(* is what makes a new buffer go on where the last one ended.              *)
(*                                                                         *)
(* With -ws the three variables in_word, good_word and word_offset stand   *)
(* for the word in hand (Comparing): the word that reaches up to the last  *)
(* character agrees with ws_word so far just if it is good.  A copy is the *)
(* beginning of its file that the buffers read so far make, or shorter for *)
(* good once a write was cut short.                                        *)
(***************************************************************************)
EXTENDS Counters, CountLemmas, SequenceTheorems

InWordAt(n) == n > 0 /\ IsLetter(n)

AtEnd == {"end", "write", "newline", "close", "exited"}

WordInv ==
    /\ TypeOK
    /\ pc # "scan" => edx = read_count
    /\ pc \in AtEnd => taken = Len(input)
    /\ ~ ws_flag => in_word = InWordAt(scanned)
    /\ WordsCounted

LineInv ==
    /\ LineTypeOK
    /\ lwc_pc # "scan" => rest = 0
    /\ lwc_pc \in {"end", "print"} => lwc_taken = Len(input)
    /\ lwc_in_word = InWordAt(lwc!scanned)
    /\ LineCountsRight

-------------------------------------------------------------------------------
(* Counting positions of the file. *)

LEMMA InputLength == ASSUME input \in Inputs PROVE Len(input) \in Nat
  BY InputsAssumption

(* There is no word among no characters. *)
LEMMA StartsNone == Cardinality(Starts(0)) = 0
<1>1. Starts(0) = {}
  BY DEF Starts
<1> QED
  BY <1>1, CountNone

LEMMA StartsCount == ASSUME NEW n \in Nat PROVE Cardinality(Starts(n)) \in Nat
<1>1. Starts(n) \subseteq 1 .. n
  BY DEF Starts
<1> QED
  BY <1>1, CountFinite

(* One more character is one more word if it is the first of a word. *)
LEMMA StartsNext ==
    ASSUME NEW n \in Nat
    PROVE  Cardinality(Starts(n + 1)) =
             IF IsLetter(n + 1) /\ ~ InWordAt(n) THEN Cardinality(Starts(n)) + 1
                                                 ELSE Cardinality(Starts(n))
<1>1. Starts(n) \subseteq 1 .. n
  BY DEF Starts
<1>2. CASE IsLetter(n + 1) /\ ~ InWordAt(n)
  <2>1. Starts(n + 1) = Starts(n) \cup {n + 1}
    BY <1>2 DEF Starts, InWordAt
  <2> QED
    BY <1>1, <1>2, <2>1, CountNext
<1>3. CASE ~ (IsLetter(n + 1) /\ ~ InWordAt(n))
  <2>1. Starts(n + 1) = Starts(n)
    BY <1>3 DEF Starts, InWordAt
  <2> QED
    BY <1>3, <2>1
<1> QED
  BY <1>2, <1>3

-------------------------------------------------------------------------------
(* The word counter. *)

LEMMA WordInit == Init => WordInv
<1> SUFFICES ASSUME Init PROVE WordInv
  OBVIOUS
<1>1. ws_word \in Words \cup {<< >>}
  BY DEF Init
<1>2. TypeOK
  <2>1. Len(input) \in Nat
    BY InputLength DEF Init
  <2>2. ws_word \in Seq(Letters)
    <3>1. << >> \in Seq(Letters)
      OBVIOUS
    <3>2. Words \subseteq Seq(Letters)
      BY InputsAssumption
    <3> QED
      BY <1>1, <3>1, <3>2
  <2>3. Len(ws_word) \in Nat
    BY <2>2
  <2>4. ws_flag \in BOOLEAN /\ in_word \in BOOLEAN /\ good_word \in BOOLEAN
    BY DEF Init
  <2>5. input \in Inputs /\ pc = "open" /\ taken = 0 /\ read_count = 0 /\ edx = 0
        /\ word_offset = 0 /\ word_count = 0
    BY DEF Init
  <2> QED
    BY <1>1, <2>1, <2>3, <2>4, <2>5 DEF TypeOK
<1>3. scanned = 0 /\ WordsCounted
  BY StartsNone DEF Init, scanned, WordsCounted
<1>4. ~ InWordAt(scanned) /\ in_word = FALSE
  BY <1>3 DEF Init, InWordAt
<1>5. in_word = InWordAt(scanned)
  BY <1>4, Zenon DEF InWordAt
<1>6. (pc # "scan" => edx = read_count) /\ (pc \in AtEnd => taken = Len(input))
  BY DEF Init, AtEnd
<1> QED
  BY <1>2, <1>3, <1>5, <1>6 DEF WordInv

(* The steps that look at no character. *)
LEMMA WordQuiet ==
    ASSUME WordInv, cw_open_file \/ next_buffer \/ write_count \/ close_file
    PROVE  WordInv'
<1> USE DEF WordInv, AtEnd
<1>1. UNCHANGED <<file, taken, read_count, edx, scan>>
  BY DEF cw_open_file, next_buffer, write_count, close_file
<1>2. TypeOK'
  BY <1>1 DEF TypeOK, cw_open_file, next_buffer, write_count, close_file, Call, file, scan
<1>3. scanned' = scanned /\ WordsCounted' /\ (~ ws_flag' => in_word' = InWordAt(scanned)')
  BY <1>1 DEF scanned, WordsCounted, InWordAt, Starts, IsLetter, file, scan
<1>4. (pc' # "scan" => edx' = read_count') /\ (pc' \in AtEnd => taken' = Len(input'))
  BY <1>1 DEF TypeOK, cw_open_file, next_buffer, write_count, close_file, Call, file
<1> QED
  BY <1>2, <1>3, <1>4

(* A new buffer begins where the last one ended. *)
LEMMA WordRead == ASSUME WordInv, cw_read_file PROVE WordInv'
<1> USE DEF WordInv, AtEnd
<1>1. UNCHANGED <<file, scan>> /\ pc = "read" /\ edx = read_count
  BY DEF cw_read_file
<1>2. Len(input) \in Nat
  BY InputLength DEF TypeOK
<1>3. /\ TypeOK'
      /\ scanned' = scanned
      /\ pc' # "scan" => edx' = read_count'
      /\ pc' \in AtEnd => taken' = Len(input')
  <2>1. CASE UNCHANGED <<taken, read_count, edx>>
    BY <1>1, <2>1 DEF cw_read_file, TypeOK, scanned, file, scan
  <2>2. ASSUME NEW n \in 1 .. BUFFER_SIZE, taken + n <= Len(input),
               taken' = taken + n, read_count' = n, reset_offset, pc' = "scan"
        PROVE  /\ TypeOK'
               /\ scanned' = scanned
               /\ pc' # "scan" => edx' = read_count'
               /\ pc' \in AtEnd => taken' = Len(input')
    BY <1>1, <1>2, <2>2, BufferAssumption DEF TypeOK, scanned, file, scan, reset_offset
  <2> QED
    BY <2>1, <2>2 DEF cw_read_file
<1>4. WordsCounted' /\ (~ ws_flag' => in_word' = InWordAt(scanned)')
  BY <1>1, <1>3 DEF WordsCounted, InWordAt, Starts, IsLetter, file, scan
<1> QED
  BY <1>3, <1>4

(* A character is looked at. *)
LEMMA WordCountStep == ASSUME WordInv, count_words PROVE WordInv'
<1> USE DEF WordInv, AtEnd
<1>1. UNCHANGED <<file, pc, taken, read_count>> /\ pc = "scan" /\ edx' = edx + 1 /\ edx < read_count
  BY DEF count_words, next_char
<1>2. Len(input) \in Nat /\ Len(ws_word) \in Nat
  BY InputsAssumption DEF TypeOK
<1>3. scanned \in Nat /\ scanned' = scanned + 1
  BY <1>1, <1>2 DEF TypeOK, scanned
<1>4. char \in Blanks <=> ~ IsLetter(scanned + 1)
  BY DEF char, IsLetter
<1>5. TypeOK'
  <2>1. in_word' \in BOOLEAN /\ good_word' \in BOOLEAN
    BY DEF TypeOK, count_words, not_in_word, w_word_check, ws_word_check
  <2>2. word_offset' \in 0 .. Len(ws_word)
    BY <1>2 DEF TypeOK, count_words, not_in_word, w_word_check, ws_word_check
  <2>3. word_count' \in Nat
    BY DEF TypeOK, count_words, not_in_word, w_word_check, ws_word_check
  <2> QED
    BY <1>1, <1>2, <2>1, <2>2, <2>3 DEF TypeOK, file
<1>6. ~ ws_flag' => in_word' = InWordAt(scanned)'
  <2>1. CASE char \in Blanks
    <3>1. in_word' = FALSE /\ ~ IsLetter(scanned + 1)
      BY <1>4, <2>1 DEF count_words, not_in_word
    <3> QED
      BY <1>1, <1>3, <3>1 DEF InWordAt, IsLetter, file
  <2>2. CASE char \notin Blanks
    <3>1. in_word' = TRUE /\ IsLetter(scanned + 1)
      BY <1>4, <2>2 DEF count_words, w_word_check, ws_word_check
    <3>2. InWordAt(scanned)'
      BY <1>1, <1>3, <3>1 DEF InWordAt, IsLetter, file
    <3> QED
      BY <3>1, <3>2, Zenon
  <2> QED
    BY <2>1, <2>2
<1>7. WordsCounted'
  <2>1. Starts(scanned)' = Starts(scanned + 1)
    BY <1>1, <1>3 DEF Starts, IsLetter, file
  <2>2. ~ ws_flag => word_count' = Cardinality(Starts(scanned + 1))
    BY <1>3, <1>4, StartsNext DEF count_words, not_in_word, w_word_check, WordsCounted
  <2> QED
    BY <1>1, <2>1, <2>2 DEF WordsCounted, file
<1> QED
  BY <1>1, <1>5, <1>6, <1>7

LEMMA WordEnd == ASSUME WordInv, end_case PROVE WordInv'
<1> USE DEF WordInv, AtEnd
<1>1. TypeOK'
  BY DEF TypeOK, end_case, file
<1>2. scanned' = scanned /\ WordsCounted' /\ (~ ws_flag' => in_word' = InWordAt(scanned)')
  BY DEF end_case, scanned, WordsCounted, InWordAt, Starts, IsLetter, file
<1> QED
  BY <1>1, <1>2 DEF end_case, file

LEMMA WordUnchanged == ASSUME WordInv, UNCHANGED vars PROVE WordInv'
  BY DEF WordInv, AtEnd, TypeOK, WordsCounted, InWordAt, Starts, IsLetter, scanned,
         vars, file, scan

LEMMA WordNext == ASSUME WordInv, [Next]_vars PROVE WordInv'
  BY WordQuiet, WordRead, WordCountStep, WordEnd, WordUnchanged DEF Next


(* Each variable keeps its type, and the buffer is never left. *)
THEOREM WordTypeCorrect == BothSpec => []TypeOK
<1>1. BothInit => WordInv
  BY WordInit DEF BothInit
<1>2. WordInv /\ [BothNext]_allVars => WordInv'
  BY WordNext DEF BothNext, WordStep, LineStep, CopyStep, allVars
<1>3. WordInv => TypeOK
  BY DEF WordInv
<1> QED
  BY <1>1, <1>2, <1>3, PTL DEF BothSpec

(* With -w each word is counted once, when its first character is met.     *)
THEOREM WordsCountedOnce == BothSpec => []WordsCounted
<1>1. BothInit => WordInv
  BY WordInit DEF BothInit
<1>2. WordInv /\ [BothNext]_allVars => WordInv'
  BY WordNext DEF BothNext, WordStep, LineStep, CopyStep, allVars
<1>3. WordInv => WordsCounted
  BY DEF WordInv
<1> QED
  BY <1>1, <1>2, <1>3, PTL DEF BothSpec

-------------------------------------------------------------------------------
(* lwc. *)

(* LineCount has its own instances of the operators of FiniteSets. *)
LEMMA SameCardinality == ASSUME NEW S PROVE lwc!Cardinality(S) = Cardinality(S)
  BY DEF lwc!Cardinality, Cardinality

LEMMA SameStarts == lwc!Starts(lwc!scanned) = Starts(lwc!scanned)
  BY DEF Starts, lwc!Starts, IsLetter, lwc!IsLetter, Blanks

LEMMA NewlinesNone == Cardinality(lwc!Newlines(0)) = 0
<1>1. lwc!Newlines(0) = {}
  BY DEF lwc!Newlines
<1> QED
  BY <1>1, CountNone

(* One more character is one more line if it is a new line. *)
LEMMA NewlinesNext ==
    ASSUME NEW n \in Nat
    PROVE  /\ Cardinality(lwc!Newlines(n)) \in Nat
           /\ Cardinality(lwc!Newlines(n + 1)) =
                Cardinality(lwc!Newlines(n)) + (IF input[n + 1] = NewLine THEN 1 ELSE 0)
<1>1. lwc!Newlines(n) \subseteq 1 .. n
  BY DEF lwc!Newlines
<1>2. Cardinality(lwc!Newlines(n)) \in Nat
  BY <1>1, CountFinite
<1>3. CASE input[n + 1] = NewLine
  <2>1. lwc!Newlines(n + 1) = lwc!Newlines(n) \cup {n + 1}
    BY <1>3 DEF lwc!Newlines
  <2> QED
    BY <1>1, <1>2, <1>3, <2>1, CountNext
<1>4. CASE input[n + 1] # NewLine
  <2>1. lwc!Newlines(n + 1) = lwc!Newlines(n)
    BY <1>4 DEF lwc!Newlines
  <2> QED
    BY <1>2, <1>4, <2>1
<1> QED
  BY <1>3, <1>4

(* An unterminated last line is one more. *)
Lines == {i \in 1 .. Len(input) : input[i] = NewLine \/ i = Len(input)}

LEMMA LastLine ==
    ASSUME Len(input) \in Nat
    PROVE  Cardinality(Lines) =
             Cardinality(lwc!Newlines(Len(input)))
               + (IF Len(input) = 0 \/ input[Len(input)] = NewLine THEN 0 ELSE 1)
<1> DEFINE n == Len(input)
<1>1. lwc!Newlines(n) \subseteq 1 .. n
  BY DEF lwc!Newlines
<1>2. Cardinality(lwc!Newlines(n)) \in Nat
  BY <1>1, CountFinite
<1>3. CASE n = 0 \/ input[n] = NewLine
  <2>1. Lines = lwc!Newlines(n)
    BY <1>3 DEF Lines, lwc!Newlines
  <2> QED
    BY <1>2, <1>3, <2>1
<1>4. CASE ~ (n = 0 \/ input[n] = NewLine)
  <2>1. n - 1 \in Nat /\ lwc!Newlines(n) \subseteq 1 .. (n - 1)
    BY <1>4 DEF lwc!Newlines
  <2>2. Lines = lwc!Newlines(n) \cup {(n - 1) + 1}
    BY <1>4 DEF Lines, lwc!Newlines
  <2>3. Cardinality(lwc!Newlines(n) \cup {(n - 1) + 1}) = Cardinality(lwc!Newlines(n)) + 1
    BY <2>1, CountNext
  <2> QED
    BY <1>4, <2>2, <2>3
<1> QED
  BY <1>3, <1>4

LEMMA LineInit == BothInit => LineInv
<1> SUFFICES ASSUME BothInit PROVE LineInv
  OBVIOUS
<1> USE DEF BothInit, lwc!Init
<1>1. Len(input) \in Nat
  BY InputLength
<1>2. LineTypeOK
  <2>1. lwc_in_word \in BOOLEAN
    OBVIOUS
  <2> QED
    BY <1>1, <2>1 DEF LineTypeOK, lwc!TypeOK
<1>3. lwc!scanned = 0
  BY DEF lwc!scanned
<1>4. LineCountsRight
  <2>1. Cardinality(lwc!Starts(0)) = 0
    BY <1>3, SameStarts, StartsNone
  <2> QED
    BY <1>3, <2>1, NewlinesNone, SameCardinality DEF LineCountsRight, lwc!CountsRight
<1>5. lwc_in_word = InWordAt(lwc!scanned)
  <2>1. ~ InWordAt(lwc!scanned) /\ lwc_in_word = FALSE
    BY <1>3 DEF InWordAt
  <2> QED
    BY <2>1, Zenon DEF InWordAt
<1> QED
  BY <1>2, <1>4, <1>5 DEF LineInv

(* A step that moves over no character keeps what was counted. *)
LEMMA LineKept ==
    ASSUME LineInv, UNCHANGED <<input, lwc_in_word, nlines, nwords, nchars>>,
           lwc!scanned' = lwc!scanned, lwc_pc # "print", lwc_pc' # "print"
    PROVE  LineCountsRight' /\ lwc_in_word' = InWordAt(lwc!scanned)'
  BY DEF LineInv, LineCountsRight, lwc!CountsRight, InWordAt, IsLetter,
         lwc!Starts, lwc!IsLetter, lwc!Newlines

LEMMA LineArgs == ASSUME LineInv, lwc!args PROVE LineInv'
<1> USE DEF LineInv, lwc!args, lwc!counters
<1>1. LineTypeOK'
  BY DEF LineTypeOK, lwc!TypeOK
<1>2. lwc!scanned' = lwc!scanned /\ lwc_pc # "print" /\ lwc_pc' # "print"
  BY DEF lwc!scanned
<1>3. (lwc_pc' # "scan" => rest' = 0) /\ (lwc_pc' \in {"end", "print"} => lwc_taken' = Len(input'))
  OBVIOUS
<1> QED
  BY <1>1, <1>2, <1>3, LineKept

(* A new buffer begins where the last one ended. *)
LEMMA LineRead == ASSUME LineInv, lwc!read PROVE LineInv'
<1>1. /\ LineTypeOK'
      /\ lwc!scanned' = lwc!scanned
      /\ lwc_pc' # "print"
      /\ lwc_pc' # "scan" => rest' = 0
      /\ lwc_pc' = "end" => lwc_taken' = Len(input')
  <2> USE DEF LineInv, lwc!read, lwc!counters, LineTypeOK, lwc!TypeOK, lwc!scanned
  <2>1. Len(input) \in Nat
    BY InputLength
  <2>2. CASE UNCHANGED <<lwc_taken, rest>>
    BY <2>2
  <2>3. ASSUME NEW n \in 1 .. BUFSIZE, lwc_taken + n <= Len(input),
               lwc_taken' = lwc_taken + n, lwc!fill(n), lwc_pc' = "scan"
        PROVE  /\ LineTypeOK'
               /\ lwc!scanned' = lwc!scanned
               /\ lwc_pc' # "print"
               /\ lwc_pc' # "scan" => rest' = 0
               /\ lwc_pc' = "end" => lwc_taken' = Len(input')
    BY <2>1, <2>3, LineAssumption DEF lwc!fill
  <2> QED
    BY <2>2, <2>3
<1>2. lwc_pc # "print" /\ UNCHANGED <<input, lwc_in_word, nlines, nwords, nchars>>
  BY DEF lwc!read, lwc!counters
<1>3. LineCountsRight' /\ lwc_in_word' = InWordAt(lwc!scanned)'
  BY <1>1, <1>2, LineKept
<1> QED
  BY <1>1, <1>3 DEF LineInv

LEMMA LineNextBuffer == ASSUME LineInv, lwc!next_buffer PROVE LineInv'
<1> USE DEF LineInv, lwc!next_buffer, lwc!counters
<1>1. LineTypeOK'
  BY DEF LineTypeOK, lwc!TypeOK
<1>2. lwc!scanned' = lwc!scanned /\ lwc_pc # "print" /\ lwc_pc' # "print"
  BY DEF lwc!scanned
<1> QED
  BY <1>1, <1>2, LineKept

(* A character is looked at. *)
LEMMA LineNextChar == ASSUME LineInv, lwc!next_char PROVE LineInv'
<1> DEFINE n == lwc!scanned
<1>1. lwc_pc = "scan" /\ lwc_pc' = "scan" /\ rest > 0 /\ rest' = rest - 1
      /\ UNCHANGED <<input, argc, inp, lwc_taken>> /\ nchars' = nchars + 1
  BY DEF lwc!next_char
<1>2. Len(input) \in Nat /\ n \in Nat /\ n' = n + 1
  BY <1>1, InputLength DEF LineInv, LineTypeOK, lwc!TypeOK, lwc!scanned
<1>3. /\ nlines' = nlines + (IF input[n + 1] = NewLine THEN 1 ELSE 0)
      /\ nwords' = nwords + (IF ~ IsLetter(n + 1) \/ lwc_in_word THEN 0 ELSE 1)
      /\ lwc_in_word' = IsLetter(n + 1)
  BY Zenon DEF lwc!next_char, lwc!count, lwc!char, IsLetter, Blanks
<1>4. LineTypeOK'
  <2>1. lwc_in_word' \in BOOLEAN
    BY <1>3, Zenon DEF IsLetter
  <2> QED
    BY <1>1, <1>2, <1>3, <2>1 DEF LineInv, LineTypeOK, lwc!TypeOK
<1>5. lwc_in_word' = InWordAt(n)'
  <2>1. CASE IsLetter(n + 1)
    <3>1. InWordAt(n)'
      BY <1>1, <1>2, <2>1 DEF InWordAt, IsLetter
    <3>2. lwc_in_word' = TRUE
      BY <1>3, <2>1, Zenon DEF IsLetter
    <3> QED
      BY <3>1, <3>2, Zenon DEF InWordAt
  <2>2. CASE ~ IsLetter(n + 1)
    <3>1. ~ InWordAt(n)'
      BY <1>1, <1>2, <2>2 DEF InWordAt, IsLetter
    <3>2. lwc_in_word' = FALSE
      BY <1>3, <2>2, Zenon DEF IsLetter
    <3> QED
      BY <3>1, <3>2, Zenon DEF InWordAt
  <2> QED
    BY <2>1, <2>2
<1>6. LineCountsRight'
  <2>1. nwords' = Cardinality(lwc!Starts(n))'
    <3>1. nwords = Cardinality(Starts(n)) /\ (lwc_in_word <=> InWordAt(n))
      BY SameStarts, SameCardinality, Zenon DEF LineInv, LineCountsRight, lwc!CountsRight
    <3>2. nwords' = Cardinality(Starts(n + 1))
      <4>1. Cardinality(Starts(n)) \in Nat
        BY <1>2, StartsCount
      <4>2. Cardinality(Starts(n + 1)) =
              IF IsLetter(n + 1) /\ ~ InWordAt(n) THEN Cardinality(Starts(n)) + 1
                                                  ELSE Cardinality(Starts(n))
        BY <1>2, StartsNext
      <4>3. nwords' = nwords + (IF ~ IsLetter(n + 1) \/ InWordAt(n) THEN 0 ELSE 1)
        BY <1>3, <3>1, Zenon
      <4> QED
        BY <3>1, <4>1, <4>2, <4>3
    <3>3. lwc!Starts(n)' = Starts(n + 1)
      BY <1>1, <1>2 DEF lwc!Starts, lwc!IsLetter, Starts, IsLetter, Blanks
    <3> QED
      BY <3>2, <3>3
  <2>2. nlines' = Cardinality(lwc!Newlines(n))'
    <3>1. nlines = Cardinality(lwc!Newlines(n))
      BY <1>1, SameCardinality DEF LineInv, LineCountsRight, lwc!CountsRight
    <3>2. lwc!Newlines(n)' = lwc!Newlines(n + 1)
      BY <1>1, <1>2 DEF lwc!Newlines
    <3> QED
      BY <1>2, <1>3, <3>1, <3>2, NewlinesNext
  <2>3. nchars' = n'
    BY <1>1, <1>2, SameCardinality DEF LineInv, LineCountsRight, lwc!CountsRight
  <2> QED
    BY <1>1, <2>1, <2>2, <2>3, SameCardinality DEF LineCountsRight, lwc!CountsRight
<1> QED
  BY <1>1, <1>4, <1>5, <1>6 DEF LineInv

LEMMA LineLast == ASSUME LineInv, lwc!last_line PROVE LineInv'
<1>1. /\ lwc_pc = "end" /\ lwc_pc' = "print"
      /\ UNCHANGED <<input, argc, inp, lwc_taken, rest, nwords, nchars, lwc_in_word>>
      /\ nlines' = IF lwc_taken = 0 \/ input[lwc_taken] = NewLine THEN nlines ELSE nlines + 1
  BY DEF lwc!last_line
<1>2. Len(input) \in Nat /\ lwc_taken = Len(input) /\ rest = 0 /\ lwc!scanned = Len(input)
  BY <1>1, InputLength DEF LineInv, LineTypeOK, lwc!TypeOK, lwc!scanned
<1>3. LineTypeOK'
  BY <1>1 DEF LineInv, LineTypeOK, lwc!TypeOK
<1>4. lwc!scanned' = lwc!scanned /\ lwc_in_word' = InWordAt(lwc!scanned)'
  BY <1>1 DEF LineInv, lwc!scanned, InWordAt, IsLetter
<1>5. nlines' = Cardinality(Lines)'
  <2>1. nlines = Cardinality(lwc!Newlines(Len(input)))
    BY <1>1, <1>2, SameCardinality DEF LineInv, LineCountsRight, lwc!CountsRight
  <2>2. nlines \in Nat
    BY DEF LineInv, LineTypeOK, lwc!TypeOK
  <2>3. Lines' = Lines
    BY <1>1 DEF Lines
  <2> QED
    BY <1>1, <1>2, <2>1, <2>2, <2>3, LastLine
<1>6. (nchars = lwc!scanned /\ nwords = Cardinality(lwc!Starts(lwc!scanned)))'
  BY <1>1, <1>4, SameCardinality DEF LineInv, LineCountsRight, lwc!CountsRight, lwc!Starts, lwc!IsLetter
<1> QED
  BY <1>1, <1>2, <1>3, <1>4, <1>5, <1>6, SameCardinality DEF LineInv, LineCountsRight, lwc!CountsRight, Lines

LEMMA LineUnchanged == ASSUME LineInv, UNCHANGED <<input, lwcVars>> PROVE LineInv'
  BY DEF LineInv, lwcVars, LineTypeOK, lwc!TypeOK, LineCountsRight, lwc!CountsRight,
         lwc!scanned, lwc!Starts, lwc!IsLetter, lwc!Newlines, InWordAt, IsLetter

LEMMA LineNext == ASSUME LineInv, [BothNext]_allVars PROVE LineInv'
<1>1. CASE WordStep
  <2>1. UNCHANGED input
    BY <1>1 DEF WordStep, Next, cw_open_file, cw_read_file, next_buffer, count_words,
                next_char, end_case, write_count, close_file, file
  <2> QED
    BY <1>1, <2>1, LineUnchanged DEF WordStep
<1>2. CASE LineStep
  BY <1>2, LineArgs, LineRead, LineNextBuffer, LineNextChar, LineLast DEF LineStep, lwc!Next
<1>3. CASE CopyStep
  BY <1>3, LineUnchanged DEF CopyStep, vars, file
<1>4. CASE UNCHANGED allVars
  BY <1>4, LineUnchanged DEF allVars, vars, file
<1> QED
  BY <1>1, <1>2, <1>3, <1>4 DEF BothNext

(* lwc counts lines, words and characters right, an unterminated last line *)
(* included, whatever read returns.                                        *)
THEOREM LineCountCorrect == BothSpec => [](LineTypeOK /\ LineCountsRight)
<1>1. LineInv => LineTypeOK /\ LineCountsRight
  BY DEF LineInv
<1> QED
  BY <1>1, LineInit, LineNext, PTL DEF BothSpec

(* The two programs count the same words of any file, for any sizes of     *)
(* their buffers: at the end both have counted the words of the whole file.*)
THEOREM ProgramsAgree == BothSpec => []AgreeOnWords
<1>1. BothInit => WordInv
  BY WordInit DEF BothInit
<1>2. WordInv /\ [BothNext]_allVars => WordInv'
  BY WordNext DEF BothNext, WordStep, LineStep, CopyStep, allVars
<1>3. WordInv /\ LineInv => AgreeOnWords
  <2> SUFFICES ASSUME WordInv, LineInv, pc = "exited", ~ ws_flag, lwc_pc = "print"
               PROVE  nwords = word_count
    BY DEF AgreeOnWords
  <2>1. scanned = Len(input)
    BY InputLength DEF WordInv, TypeOK, AtEnd, scanned
  <2>2. lwc!scanned = Len(input)
    BY InputLength DEF LineInv, LineTypeOK, lwc!TypeOK, lwc!scanned
  <2> QED
    BY <2>1, <2>2, SameStarts, SameCardinality DEF WordInv, WordsCounted, LineInv, LineCountsRight, lwc!CountsRight
<1> QED
  BY <1>1, <1>2, <1>3, LineInit, LineNext, PTL DEF BothSpec

-------------------------------------------------------------------------------
(* The copy.  What was written is a beginning of the file up to the buffer *)
(* in hand, unless write was cut short: then it is shorter than that.      *)

Pending == IF copy_pc = "write" /\ eax > 0 THEN eax ELSE 0

CopyInv ==
    /\ input \in Inputs
    /\ copy_pc \in {"open", "flag", "read", "write", "newline", "close", "exited", "failed"}
    /\ copy_taken \in 0 .. Len(input)
    /\ eax \in Int
    /\ cut \in BOOLEAN
    /\ output \in Seq(Chars)
    /\ copy_pc = "write" => eax <= copy_taken
    /\ copy_pc # "failed" => Len(output) <= copy_taken - Pending
    /\ copy_pc # "failed" /\ ~ cut =>
          /\ Len(output) = copy_taken - Pending
          /\ \A j \in 1 .. Len(output) : output[j] = input[j]
    /\ copy_pc # "failed" /\ cut => Len(output) < copy_taken - Pending
    /\ copy_pc \in {"newline", "close", "exited"} => copy_taken = Len(input)

LEMMA CopyInit == BothInit => CopyInv
<1> SUFFICES ASSUME BothInit PROVE CopyInv
  OBVIOUS
<1>1. /\ copy_pc \in {"open", "flag"} /\ copy_taken = 0 /\ eax = 0 /\ output = << >>
      /\ cut = FALSE /\ input \in Inputs
  BY DEF BothInit, cp!Init
<1>2. Len(output) = 0 /\ output \in Seq(Chars) /\ Len(input) \in Nat /\ Pending = 0
  BY <1>1, InputLength DEF Pending
<1>3. cut \in BOOLEAN /\ ~ cut
  BY <1>1
<1> QED
  BY <1>1, <1>2, <1>3 DEF CopyInv

(* The steps that move no character. *)
LEMMA CopyQuiet == ASSUME CopyInv, cp!open_file \/ cp!close_file PROVE CopyInv'
<1>1. /\ UNCHANGED <<input, copy_taken, eax, output, cut>>
      /\ copy_pc # "write" /\ copy_pc' # "write" /\ copy_pc # "failed"
      /\ copy_pc' \in {"open", "flag", "read", "write", "newline", "close", "exited", "failed"}
      /\ copy_pc' \in {"newline", "close", "exited"} =>
            copy_pc \in {"newline", "close", "exited"}
  BY DEF cp!open_file, cp!close_file, cp!Call
<1>2. Pending' = Pending
  BY <1>1 DEF Pending
<1> QED
  BY <1>1, <1>2 DEF CopyInv

LEMMA CopyRead == ASSUME CopyInv, cp!read_file PROVE CopyInv'
<1>1. /\ copy_pc = "read" /\ UNCHANGED <<input, output, cut>>
      /\ copy_taken' = IF eax' > 0 THEN copy_taken + eax' ELSE copy_taken
      /\ copy_pc' = IF eax' = 0 THEN "newline" ELSE "write"
  BY DEF cp!read_file, cp!check_EOF
<1>2. \/ eax' \in 1 .. BUFFER_SIZE /\ copy_taken + eax' <= Len(input)
      \/ copy_taken = Len(input) /\ eax' = 0
      \/ eax' = -1
  BY DEF cp!read_file
<1>3. Len(input) \in Nat /\ Len(output) \in Nat /\ copy_taken \in Nat /\ BUFFER_SIZE \in Nat
      /\ Pending = 0
  BY <1>1, InputLength, BufferAssumption DEF CopyInv, Pending
<1>4. copy_taken' - Pending' = copy_taken - Pending /\ copy_taken' \in 0 .. Len(input) /\ eax' \in Int
      /\ eax' <= copy_taken'
  BY <1>1, <1>2, <1>3 DEF Pending, CopyInv
<1>5. /\ Len(output)' = Len(output)
      /\ cut' <=> cut
      /\ copy_pc' # "failed" /\ copy_pc # "failed"
      /\ copy_pc' \in {"newline", "close", "exited"} => copy_taken' = Len(input)
      /\ copy_pc' \in {"newline", "write"}
  BY <1>1, <1>2
<1> QED
  BY <1>1, <1>3, <1>4, <1>5 DEF CopyInv

LEMMA CopyWrite == ASSUME CopyInv, cp!write_file PROVE CopyInv'
<1>1. copy_pc = "write" /\ UNCHANGED <<input, copy_taken, eax>>
  BY DEF cp!write_file
<1>2. CASE copy_pc' = "failed" /\ UNCHANGED <<output, cut>>
  BY <1>1, <1>2 DEF CopyInv
<1>3. ASSUME NEW n \in 1 .. eax, copy_pc' = "read", cut' = (cut \/ n < eax),
             output' = output \o SubSeq(input, copy_taken - eax + 1, copy_taken - eax + n)
      PROVE  CopyInv'
  <2> DEFINE m == copy_taken - eax
             s == SubSeq(input, m + 1, m + n)
  <2>1. /\ eax \in Nat /\ n \in Nat /\ m \in Nat /\ m + n <= Len(input) /\ Len(input) \in Nat
        /\ n <= eax /\ n >= 1 /\ m + eax = copy_taken
    BY <1>1, InputLength DEF CopyInv
  <2>2. input \in Seq(Chars) /\ output \in Seq(Chars)
    BY InputsAssumption DEF CopyInv
  <2>3. Pending = eax /\ Pending' = 0
    BY <1>1, <1>3, <2>1 DEF Pending
  <2> HIDE DEF m
  <2>4. s \in Seq(Chars) /\ Len(s) = n /\ \A j \in 1 .. n : s[j] = input[m + j]
    <3>1. /\ m + 1 \in Int /\ m + n \in Int /\ m + 1 <= m + n
          /\ \A i \in m + 1 .. m + n : input[i] \in Chars
      BY <2>1, <2>2
    <3>2. /\ s \in Seq(Chars)
          /\ Len(s) = IF m + 1 <= m + n THEN (m + n) - (m + 1) + 1 ELSE 0
          /\ \A j \in 1 .. (m + n) - (m + 1) + 1 : s[j] = input[(m + 1) + j - 1]
      BY <3>1, SubSeqProperties, SMTT(30) DEF s
    <3>3. (m + n) - (m + 1) + 1 = n /\ \A j \in 1 .. n : (m + 1) + j - 1 = m + j
      BY <2>1
    <3> HIDE DEF s
    <3> QED
      BY <3>1, <3>2, <3>3
  <2> HIDE DEF s
  <2>5. output' = output \o s
    BY <1>3 DEF s, m
  <2>6. output' \in Seq(Chars) /\ Len(output') = Len(output) + n
        /\ \A j \in 1 .. Len(output') :
              output'[j] = IF j <= Len(output) THEN output[j] ELSE s[j - Len(output)]
    <3>1. /\ output \o s \in Seq(Chars) /\ Len(output \o s) = Len(output) + Len(s)
          /\ \A j \in 1 .. Len(output) + Len(s) :
                (output \o s)[j] = IF j <= Len(output) THEN output[j] ELSE s[j - Len(output)]
      BY <2>2, <2>4, ConcatProperties
    <3> QED
      BY <2>4, <2>5, <3>1
  <2>7. /\ Len(output) \in Nat
        /\ Len(output) <= m
        /\ cut => Len(output) < m
        /\ ~ cut => Len(output) = m /\ \A j \in 1 .. Len(output) : output[j] = input[j]
    BY <1>1, <2>2, <2>3 DEF CopyInv, m
  <2>8. cut' <=> (cut \/ n < eax)
    BY <1>3, Zenon
  <2>9. Len(output') <= copy_taken /\ (cut' => Len(output') < copy_taken)
    BY <2>1, <2>6, <2>7, <2>8
  <2>10. ASSUME ~ cut'
        PROVE  Len(output') = copy_taken /\ \A j \in 1 .. Len(output') : output'[j] = input[j]
    <3>1. ~ cut /\ n = eax /\ Len(output) = m
      BY <2>1, <2>7, <2>10, <2>8
    <3>2. Len(output') = copy_taken
      BY <2>1, <2>6, <3>1
    <3>3. ASSUME NEW j \in 1 .. Len(output') PROVE output'[j] = input[j]
      <4>1. CASE j <= m
        BY <2>6, <2>7, <3>1, <3>3, <4>1
      <4>2. CASE ~ (j <= m)
        <5>1. j - m \in 1 .. n /\ m + (j - m) = j
          BY <2>1, <2>6, <3>1, <4>2
        <5> QED
          BY <2>4, <2>6, <3>1, <4>2, <5>1
      <4> QED
        BY <4>1, <4>2
    <3> QED
      BY <3>2, <3>3
  <2>11. cut' \in BOOLEAN
    BY <1>3 DEF CopyInv
  <2> QED
    BY <1>1, <1>3, <2>3, <2>6, <2>9, <2>10, <2>11 DEF CopyInv
<1> QED
  BY <1>2, <1>3 DEF cp!write_file

LEMMA CopyNext == ASSUME CopyInv, [BothNext]_allVars PROVE CopyInv'
<1>1. CASE CopyStep
  BY <1>1, CopyQuiet, CopyRead, CopyWrite DEF CopyStep, cp!Next
<1>2. CASE WordStep \/ LineStep \/ UNCHANGED allVars
  <2>1. UNCHANGED <<input, copyVars>>
    BY <1>2 DEF WordStep, LineStep, Next, cw_open_file, cw_read_file, next_buffer, count_words,
                next_char, end_case, write_count, close_file, file, vars, allVars
  <2> QED
    BY <2>1 DEF CopyInv, Pending, copyVars
<1> QED
  BY <1>1, <1>2 DEF BothNext

(* A copy that ends without an error has read the whole file, and it is    *)
(* complete exactly if write was never cut short, whatever read and write  *)
(* return.                                                                 *)
THEOREM CopiesComplete == BothSpec => []CopyComplete
<1>1. CopyInv => CopyComplete
  <2> SUFFICES ASSUME CopyInv, copy_pc \in {"newline", "close", "exited"}
               PROVE  copy_taken = Len(input) /\ (output = input <=> ~ cut)
    BY DEF CopyComplete, cp!Complete
  <2>1. copy_taken = Len(input) /\ Pending = 0 /\ Len(input) \in Nat
    BY InputLength DEF CopyInv, Pending
  <2>2. input \in Seq(Chars) /\ output \in Seq(Chars)
    BY InputsAssumption DEF CopyInv
  <2>3. CASE cut
    <3>1. Len(output) < Len(input)
      BY <2>1, <2>3 DEF CopyInv
    <3> QED
      BY <2>1, <2>3, <3>1
  <2>4. CASE ~ cut
    <3>1. Len(output) = Len(input) /\ \A j \in 1 .. Len(output) : output[j] = input[j]
      BY <2>1, <2>4 DEF CopyInv
    <3>2. output = input
      BY <2>2, <3>1, SeqEqual
    <3> QED
      BY <2>1, <2>4, <3>2
  <2> QED
    BY <2>3, <2>4 DEF CopyInv
<1> QED
  BY <1>1, CopyInit, CopyNext, PTL DEF BothSpec

-------------------------------------------------------------------------------
(* The words equal to ws_word.  While a word is good the characters of it  *)
(* that were met are the first word_offset of ws_word; a word that is not  *)
(* good has already differed.                                              *)

(* The word that starts at s reaches up to n; it agrees with ws_word so far.*)
Current(s, n) == s \in Starts(n) /\ \A i \in s .. n : IsLetter(i)
Matches(s, n) == \A k \in 1 .. n - s + 1 :
                    k <= Len(ws_word) /\ input[s + k - 1] = ws_word[k]

(* A word that ends at n is ws_word, unless it goes on.                    *)
EndsAt(n) == \E s : Current(s, n) /\ Matches(s, n) /\ n - s + 1 = Len(ws_word)

(* The words equal to ws_word that are known to have ended.                *)
Done(n) == {i \in Starts(n) : WordAt(i, ws_word) /\ i + Len(ws_word) <= n}

(* No more than the first k characters of ws_word occur from s to n.       *)
Furthest(k, s, n) == Occurs(k, s, n) /\ (k < Len(ws_word) => ~ Occurs(k + 1, s, n))

Comparing ==
    /\ in_word = InWordAt(scanned)
    /\ ~ in_word => ~ good_word
    /\ good_word => /\ word_offset > 0
                    /\ Current(scanned - word_offset + 1, scanned)
                    /\ Matches(scanned - word_offset + 1, scanned)
    /\ ~ good_word => \A s : ~ (Current(s, scanned) /\ Matches(s, scanned))
    /\ in_word => \E s : Current(s, scanned) /\ Furthest(word_offset, s, scanned)

EqualInv ==
    ws_flag =>
        /\ Comparing
        /\ pc \in {"open", "read", "scan", "end"} => word_count = Cardinality(Done(scanned))
        /\ EqualCounted

LEMMA OneCurrent ==
    ASSUME NEW n \in Nat, NEW s, NEW t, Current(s, n), Current(t, n)
    PROVE  s = t
<1>1. s \in 1 .. n /\ t \in 1 .. n
  BY DEF Current, Starts
<1>2. ASSUME s < t PROVE FALSE
  <2>1. t - 1 \in s .. n /\ t > 1
    BY <1>1, <1>2
  <2> QED
    BY <2>1 DEF Current, Starts
<1>3. ASSUME t < s PROVE FALSE
  <2>1. s - 1 \in t .. n /\ s > 1
    BY <1>1, <1>3
  <2> QED
    BY <2>1 DEF Current, Starts
<1> QED
  BY <1>1, <1>2, <1>3

LEMMA CurrentIsWord ==
    ASSUME NEW n \in Nat, NEW s, Current(s, n) PROVE s \in 1 .. n /\ InWordAt(n)
  BY DEF Current, Starts, InWordAt

LEMMA WordTypes ==
    ASSUME WordInv
    PROVE  /\ Len(input) \in Nat /\ Len(ws_word) \in Nat
           /\ word_offset \in 0 .. Len(ws_word)
           /\ scanned \in 0 .. Len(input)
           /\ \A k \in 1 .. Len(ws_word) : ws_word[k] \notin Blanks
<1>1. Len(input) \in Nat /\ ws_word \in Seq(Letters)
  <2>1. input \in Inputs /\ ws_word \in Words \cup {<< >>} /\ << >> \in Seq(Letters)
    BY DEF WordInv, TypeOK
  <2> QED
    BY <2>1, InputsAssumption, InputLength
<1>2. \A k \in 1 .. Len(ws_word) : ws_word[k] \in Letters
  BY <1>1
<1>3. \A k \in 1 .. Len(ws_word) : ws_word[k] \notin Blanks
  BY <1>2, CharsAssumption
<1>4. Len(ws_word) \in Nat /\ word_offset \in 0 .. Len(ws_word)
  BY <1>1 DEF WordInv, TypeOK
<1>5. scanned \in 0 .. Len(input)
  BY <1>1 DEF WordInv, TypeOK, scanned
<1> QED
  BY <1>1, <1>3, <1>4, <1>5

(* A longer range holds no fewer characters of ws_word, and one more only  *)
(* if the character it has more is the next of them.                       *)
LEMMA OccursNext ==
    ASSUME NEW n \in Nat, NEW s \in 1 .. n + 1, NEW k \in Nat
    PROVE  /\ Occurs(k, s, n) => Occurs(k, s, n + 1)
           /\ (Occurs(k, s, n) /\ input[n + 1] = ws_word[k + 1]) => Occurs(k + 1, s, n + 1)
           /\ Occurs(k + 1, s, n + 1) =>
                 /\ Occurs(k, s, n)
                 /\ Occurs(k + 1, s, n) \/ input[n + 1] = ws_word[k + 1]
<1>1. ASSUME Occurs(k, s, n) PROVE Occurs(k, s, n + 1)
  <2>1. PICK at \in [1 .. k -> s .. n] :
          /\ \A i, j \in 1 .. k : i < j => at[i] < at[j]
          /\ \A i \in 1 .. k : input[at[i]] = ws_word[i]
    BY <1>1 DEF Occurs
  <2>2. at \in [1 .. k -> s .. n + 1]
    BY <2>1
  <2> QED
    BY <2>1, <2>2 DEF Occurs
<1>2. ASSUME Occurs(k, s, n), input[n + 1] = ws_word[k + 1] PROVE Occurs(k + 1, s, n + 1)
  <2>1. PICK at \in [1 .. k -> s .. n] :
          /\ \A i, j \in 1 .. k : i < j => at[i] < at[j]
          /\ \A i \in 1 .. k : input[at[i]] = ws_word[i]
    BY <1>2 DEF Occurs
  <2> DEFINE on == [i \in 1 .. k + 1 |-> IF i = k + 1 THEN n + 1 ELSE at[i]]
  <2>2. on \in [1 .. k + 1 -> s .. n + 1]
    BY <2>1
  <2>3. ASSUME NEW i \in 1 .. k + 1, NEW j \in 1 .. k + 1, i < j PROVE on[i] < on[j]
    BY <2>1, <2>3
  <2>4. ASSUME NEW i \in 1 .. k + 1 PROVE input[on[i]] = ws_word[i]
    BY <1>2, <2>1
  <2> HIDE DEF on
  <2> QED
    BY <2>2, <2>3, <2>4 DEF Occurs
<1>3. ASSUME Occurs(k + 1, s, n + 1)
      PROVE  Occurs(k, s, n) /\ (Occurs(k + 1, s, n) \/ input[n + 1] = ws_word[k + 1])
  <2>1. PICK at \in [1 .. k + 1 -> s .. n + 1] :
          /\ \A i, j \in 1 .. k + 1 : i < j => at[i] < at[j]
          /\ \A i \in 1 .. k + 1 : input[at[i]] = ws_word[i]
    BY <1>3 DEF Occurs
  <2> DEFINE on == [i \in 1 .. k |-> at[i]]
  <2>2. on \in [1 .. k -> s .. n]
    <3>1. ASSUME NEW i \in 1 .. k PROVE at[i] \in s .. n
      BY <2>1
    <3> QED
      BY <3>1
  <2>3. /\ \A i, j \in 1 .. k : i < j => on[i] < on[j]
        /\ \A i \in 1 .. k : input[on[i]] = ws_word[i]
    BY <2>1
  <2> HIDE DEF on
  <2>4. Occurs(k, s, n)
    BY <2>2, <2>3 DEF Occurs
  <2>5. CASE at[k + 1] = n + 1
    BY <2>1, <2>4, <2>5
  <2>6. CASE at[k + 1] # n + 1
    <3>1. ASSUME NEW i \in 1 .. k + 1 PROVE at[i] \in s .. n
      BY <2>1, <2>6
    <3>2. at \in [1 .. k + 1 -> s .. n]
      BY <2>1, <3>1
    <3>3. Occurs(k + 1, s, n)
      BY <2>1, <3>2 DEF Occurs
    <3> QED
      BY <2>4, <3>3
  <2> QED
    BY <2>5, <2>6
<1> QED
  BY <1>1, <1>2, <1>3

(* One more character: word_offset stays the furthest.                     *)
LEMMA FurthestNext ==
    ASSUME NEW n \in Nat, NEW s \in 1 .. n + 1, Len(ws_word) \in Nat,
           NEW k \in 0 .. Len(ws_word), Furthest(k, s, n)
    PROVE  Furthest(IF k < Len(ws_word) /\ ws_word[k + 1] = input[n + 1] THEN k + 1 ELSE k, s, n + 1)
<1>1. CASE k < Len(ws_word) /\ ws_word[k + 1] = input[n + 1]
  <2>1. Occurs(k + 1, s, n + 1)
    BY <1>1, OccursNext DEF Furthest
  <2>2. ~ Occurs((k + 1) + 1, s, n + 1)
    BY <1>1, OccursNext DEF Furthest
  <2> QED
    BY <1>1, <2>1, <2>2 DEF Furthest
<1>2. CASE ~ (k < Len(ws_word) /\ ws_word[k + 1] = input[n + 1])
  BY <1>2, OccursNext DEF Furthest
<1> QED
  BY <1>1, <1>2

LEMMA FewerOccur ==
    ASSUME NEW n \in Nat, NEW s \in 1 .. n + 1, NEW j \in Nat, NEW k \in 0 .. j, Occurs(j, s, n)
    PROVE  Occurs(k, s, n)
<1>1. PICK at \in [1 .. j -> s .. n] :
        /\ \A i, l \in 1 .. j : i < l => at[i] < at[l]
        /\ \A i \in 1 .. j : input[at[i]] = ws_word[i]
  BY DEF Occurs
<1> DEFINE on == [i \in 1 .. k |-> at[i]]
<1>2. on \in [1 .. k -> s .. n]
  BY <1>1
<1>3. /\ \A i, l \in 1 .. k : i < l => on[i] < on[l]
      /\ \A i \in 1 .. k : input[on[i]] = ws_word[i]
  BY <1>1
<1> HIDE DEF on
<1> QED
  BY <1>2, <1>3 DEF Occurs

LEMMA FurthestNone == ASSUME NEW n \in Nat PROVE Furthest(0, n + 1, n)
<1>1. Occurs(0, n + 1, n)
  <2>1. 1 .. 0 = {}
    OBVIOUS
  <2>2. [i \in {} |-> n] \in [{} -> n + 1 .. n]
    OBVIOUS
  <2> QED
    BY <2>1, <2>2 DEF Occurs
<1>2. ~ Occurs(1, n + 1, n)
  BY DEF Occurs
<1> QED
  BY <1>1, <1>2 DEF Furthest

(* Whether ws_word ends at the character scanned last can be told from the *)
(* three variables.                                                        *)
LEMMA EndIsKnown ==
    ASSUME WordInv, Comparing PROVE EndsAt(scanned) <=> (good_word /\ at_end)
<1>1. scanned \in Nat /\ Len(ws_word) \in Nat /\ word_offset \in Nat
  BY WordTypes
<1>2. ASSUME good_word, at_end PROVE EndsAt(scanned)
  <2> DEFINE s == scanned - word_offset + 1
  <2>1. scanned - s + 1 = Len(ws_word)
    BY <1>1, <1>2 DEF at_end
  <2>2. Current(s, scanned) /\ Matches(s, scanned)
    BY <1>2 DEF Comparing
  <2> QED
    BY <2>1, <2>2 DEF EndsAt
<1>3. ASSUME EndsAt(scanned) PROVE good_word /\ at_end
  <2>1. PICK s : Current(s, scanned) /\ Matches(s, scanned) /\ scanned - s + 1 = Len(ws_word)
    BY <1>3 DEF EndsAt
  <2>2. good_word
    BY <2>1 DEF Comparing
  <2>3. Current(scanned - word_offset + 1, scanned)
    BY <2>2 DEF Comparing
  <2>4. s = scanned - word_offset + 1
    BY <1>1, <2>1, <2>3, OneCurrent
  <2> QED
    BY <1>1, <2>1, <2>2, <2>4 DEF at_end
<1> QED
  BY <1>2, <1>3

(* A start behind which ws_word stands up to n is a word that ends there.  *)
LEMMA WordEndsAt ==
    ASSUME WordInv, NEW n \in Nat, NEW i \in Starts(n), WordAt(i, ws_word),
           i + Len(ws_word) = n + 1
    PROVE  EndsAt(n)
<1>1. /\ Len(ws_word) \in Nat /\ i \in 1 .. n
      /\ \A k \in 1 .. Len(ws_word) : ws_word[k] \notin Blanks
      /\ \A k \in 1 .. Len(ws_word) : input[i + k - 1] = ws_word[k]
  BY WordTypes DEF Starts, WordAt
<1>2. n - i + 1 = Len(ws_word)
  BY <1>1
<1>3. ASSUME NEW j \in i .. n PROVE IsLetter(j)
  <2>1. j - i + 1 \in 1 .. Len(ws_word) /\ i + (j - i + 1) - 1 = j
    BY <1>1
  <2> QED
    BY <1>1, <2>1 DEF IsLetter
<1>4. Current(i, n)
  BY <1>3 DEF Current
<1>5. Matches(i, n)
  BY <1>1, <1>2 DEF Matches
<1> QED
  BY <1>2, <1>4, <1>5 DEF EndsAt

(* The other way round, if the word does not go on.                        *)
LEMMA EndIsWord ==
    ASSUME WordInv, NEW n \in Nat, n <= Len(input), EndsAt(n),
           n + 1 <= Len(input) => ~ IsLetter(n + 1)
    PROVE  n + 1 - Len(ws_word) \in Starts(n) /\ WordAt(n + 1 - Len(ws_word), ws_word)
<1>1. PICK s : Current(s, n) /\ Matches(s, n) /\ n - s + 1 = Len(ws_word)
  BY DEF EndsAt
<1>2. s \in 1 .. n /\ Len(ws_word) \in Nat /\ Len(input) \in Nat
  BY <1>1, CurrentIsWord, WordTypes
<1>3. s = n + 1 - Len(ws_word) /\ s + Len(ws_word) = n + 1 /\ s + Len(ws_word) - 1 = n
  BY <1>1, <1>2
<1>4. \A k \in 1 .. Len(ws_word) : input[s + k - 1] = ws_word[k]
  BY <1>1, <1>3 DEF Matches
<1>5. WordAt(s, ws_word)
  BY <1>3, <1>4 DEF WordAt
<1> QED
  BY <1>1, <1>3, <1>5 DEF Current

LEMMA DoneNow ==
    ASSUME WordInv, NEW n \in Nat
    PROVE  /\ IsFiniteSet(Done(n)) /\ Cardinality(Done(n)) \in Nat
           /\ n + 1 - Len(ws_word) \notin Done(n)
<1>1. Done(n) \subseteq 1 .. n
  BY DEF Done, Starts
<1>2. Len(ws_word) \in Nat
  BY WordTypes
<1> QED
  BY <1>1, <1>2, CountFinite DEF Done

(* A blank ends a word; a letter ends none.                                *)
LEMMA DoneNext ==
    ASSUME WordInv, NEW n \in Nat, n + 1 <= Len(input)
    PROVE  Done(n + 1) = IF ~ IsLetter(n + 1) /\ EndsAt(n)
                         THEN Done(n) \cup {n + 1 - Len(ws_word)} ELSE Done(n)
<1>1. Len(ws_word) \in Nat /\ Len(input) \in Nat
  BY WordTypes
<1>2. Starts(n) \subseteq Starts(n + 1) /\ Starts(n + 1) \subseteq Starts(n) \cup {n + 1}
  BY DEF Starts
<1>3. Done(n) \subseteq Done(n + 1)
  BY <1>1, <1>2 DEF Done, Starts
<1>4. ASSUME NEW i \in Done(n + 1), i \notin Done(n)
      PROVE  ~ IsLetter(n + 1) /\ EndsAt(n) /\ i = n + 1 - Len(ws_word)
  <2>1. i \in 1 .. n + 1 /\ IsLetter(i) /\ WordAt(i, ws_word) /\ i + Len(ws_word) <= n + 1
        /\ i \in Starts(n + 1)
    BY DEF Done, Starts
  <2>2. ~ IsLetter(i + Len(ws_word))
    BY <1>1, <2>1 DEF WordAt
  <2>3. Len(ws_word) # 0
    BY <2>1, <2>2
  <2>4. i # n + 1
    BY <1>1, <2>1, <2>3
  <2>5. i \in Starts(n)
    BY <1>2, <2>1, <2>4
  <2>6. i + Len(ws_word) = n + 1
    BY <1>1, <1>4, <2>1, <2>5 DEF Done
  <2>7. EndsAt(n)
    BY <2>1, <2>5, <2>6, WordEndsAt
  <2> QED
    BY <1>1, <2>1, <2>2, <2>6, <2>7
<1>5. ASSUME ~ IsLetter(n + 1), EndsAt(n) PROVE n + 1 - Len(ws_word) \in Done(n + 1)
  <2>1. /\ n + 1 - Len(ws_word) \in Starts(n) /\ WordAt(n + 1 - Len(ws_word), ws_word)
    BY <1>1, <1>5, EndIsWord
  <2> QED
    BY <1>1, <1>2, <2>1 DEF Done
<1> QED
  BY <1>3, <1>4, <1>5

(* At the end of the file every word in front of a blank has ended.        *)
LEMMA EqualIs ==
    ASSUME WordInv
    PROVE  {i \in Equal : i + Len(ws_word) <= Len(input)} = Done(Len(input))
  BY DEF Done, Equal

LEMMA LastIs == ASSUME NEW s PROVE s \in LastWord <=> Current(s, Len(input))
  BY DEF LastWord, Current

LEMMA EqualInit == Init => EqualInv
<1> SUFFICES ASSUME Init, ws_flag PROVE EqualInv
  BY DEF EqualInv
<1>1. scanned = 0 /\ ~ in_word /\ ~ good_word /\ in_word \in BOOLEAN /\ word_count = 0
      /\ pc = "open"
  <2>1. taken = 0 /\ read_count = 0 /\ edx = 0 /\ in_word = FALSE /\ good_word = FALSE
        /\ word_count = 0 /\ pc = "open"
    BY DEF Init
  <2>2. scanned = 0
    BY <2>1 DEF scanned
  <2> QED
    BY <2>1, <2>2, Zenon
<1>2. ~ InWordAt(scanned) /\ \A s : ~ Current(s, scanned)
  BY <1>1 DEF InWordAt, Current, Starts
<1>3. Done(scanned) = {}
  BY <1>1 DEF Done, Starts
<1>4. in_word = InWordAt(scanned)
  BY <1>1, <1>2, Zenon DEF InWordAt
<1>5. EqualCounted
  BY <1>1 DEF EqualCounted, Result
<1>6. Comparing
  BY <1>1, <1>2, <1>4 DEF Comparing
<1> QED
  BY <1>1, <1>3, <1>5, <1>6, CountNone DEF EqualInv

LEMMA FurthestKept ==
    ASSUME UNCHANGED <<input, ws_word>>, NEW k, NEW s, NEW n
    PROVE  /\ Occurs(k, s, n)' = Occurs(k, s, n)
           /\ Furthest(k, s, n)' = Furthest(k, s, n)
<1>1. ASSUME NEW j PROVE Occurs(j, s, n)' = Occurs(j, s, n)
  BY DEF Occurs
<1> QED
  BY <1>1 DEF Furthest

(* The steps that look at no character. *)
LEMMA EqualKept ==
    ASSUME EqualInv, UNCHANGED <<input, ws_flag, ws_word, scan>>, scanned' = scanned,
           pc' \in {"open", "read", "scan", "end"} => pc \in {"open", "read", "scan", "end"},
           Result' => Result
    PROVE  EqualInv'
<1>1. \A k, s, n : /\ Occurs(k, s, n)' = Occurs(k, s, n)
                    /\ Furthest(k, s, n)' = Furthest(k, s, n)
  BY FurthestKept
<1>2. ASSUME Comparing PROVE Comparing'
  BY <1>1, <1>2 DEF Comparing, Current, Matches, Starts, IsLetter, InWordAt, scan
<1>3. Done(scanned)' = Done(scanned) /\ Equal' = Equal /\ LastWord' = LastWord
  BY DEF Done, Equal, LastWord, Starts, IsLetter, WordAt
<1>4. EqualCounted => EqualCounted'
  BY <1>1, <1>3 DEF EqualCounted, scan
<1> QED
  BY <1>2, <1>3, <1>4 DEF EqualInv, scan

LEMMA EqualQuiet ==
    ASSUME EqualInv, cw_open_file \/ next_buffer \/ write_count \/ close_file \/ UNCHANGED vars
    PROVE  EqualInv'
<1>1. UNCHANGED <<input, ws_flag, ws_word, scan>> /\ UNCHANGED <<taken, read_count, edx>>
  BY DEF cw_open_file, next_buffer, write_count, close_file, file, vars
<1>2. scanned' = scanned
  BY <1>1 DEF scanned
<1>3. (pc' \in {"open", "read", "scan", "end"} => pc \in {"open", "read", "scan", "end"})
      /\ (Result' => Result)
  BY DEF Result, cw_open_file, next_buffer, write_count, close_file, Call, vars
<1> QED
  BY <1>1, <1>2, <1>3, EqualKept

LEMMA EqualRead == ASSUME WordInv, EqualInv, cw_read_file PROVE EqualInv'
<1>1. UNCHANGED <<input, ws_flag, ws_word, scan>> /\ pc = "read"
      /\ pc' \in {"scan", "end", "failed"}
  BY DEF cw_read_file, file
<1>2. scanned' = scanned
  BY <1>1, WordRead DEF cw_read_file, reset_offset, scanned, WordInv, TypeOK
<1> QED
  BY <1>1, <1>2, EqualKept DEF Result

(* A blank: the word that ends here is counted if it is ws_word.           *)
LEMMA EqualBlank ==
    ASSUME WordInv, EqualInv, ws_flag, next_char, char \in Blanks, not_in_word
    PROVE  EqualInv'
<1> DEFINE n == scanned
<1>1. /\ UNCHANGED <<input, ws_flag, ws_word, pc, taken, read_count>>
      /\ pc = "scan" /\ edx' = edx + 1 /\ edx < read_count
  BY DEF next_char, file
<1>2. n \in Nat /\ n' = n + 1 /\ n + 1 <= Len(input) /\ Len(ws_word) \in Nat
  BY <1>1, WordTypes DEF scanned, WordInv, TypeOK
<1>3. ~ IsLetter(n + 1)
  BY DEF char, IsLetter
<1>4. EndsAt(n) <=> (good_word /\ at_end)
  BY EndIsKnown DEF EqualInv
<1>5. ~ in_word' /\ ~ good_word' /\ in_word' \in BOOLEAN
  BY DEF not_in_word
<1>6. word_count' = IF EndsAt(n) THEN word_count + 1 ELSE word_count
  BY <1>4 DEF not_in_word
<1>7. Done(n)' = Done(n + 1)
  BY <1>1, <1>2 DEF Done, Starts, IsLetter, WordAt
<1>8. word_count' = Cardinality(Done(n)')
  <2>1. word_count = Cardinality(Done(n))
    BY <1>1 DEF EqualInv
  <2>2. Done(n + 1) = IF EndsAt(n) THEN Done(n) \cup {n + 1 - Len(ws_word)} ELSE Done(n)
    BY <1>2, <1>3, DoneNext
  <2>3. Cardinality(Done(n + 1)) =
          IF EndsAt(n) THEN Cardinality(Done(n)) + 1 ELSE Cardinality(Done(n))
    BY <1>2, <2>2, DoneNow, FS_AddElement
  <2> QED
    BY <1>6, <1>7, <2>1, <2>3
<1>9. ~ InWordAt(n)'
  BY <1>1, <1>2, <1>3 DEF InWordAt, IsLetter
<1>10. \A s : ~ Current(s, n)'
  BY <1>1, <1>2, <1>3 DEF Current, Starts, IsLetter
<1>11. Comparing'
  <2>1. in_word' = InWordAt(n)'
    BY <1>5, <1>9, Zenon DEF InWordAt
  <2> QED
    BY <1>5, <1>10, <2>1 DEF Comparing
<1>12. EqualCounted'
  BY <1>1 DEF EqualCounted, Result
<1> QED
  BY <1>8, <1>11, <1>12 DEF EqualInv

(* A letter: the word goes on or begins, and no word ends.                 *)
LEMMA EqualLetter ==
    ASSUME WordInv, EqualInv, ws_flag, next_char, char \notin Blanks, ws_word_check
    PROVE  EqualInv'
<1> DEFINE n == scanned
           offset == IF in_word THEN word_offset ELSE 0
           same == offset < Len(ws_word) /\ ws_word[offset + 1] = char
<1>1. /\ UNCHANGED <<input, ws_flag, ws_word, pc, taken, read_count, word_count>>
      /\ pc = "scan" /\ edx' = edx + 1 /\ edx < read_count
  BY DEF next_char, file, ws_word_check
<1>2. /\ n \in Nat /\ n' = n + 1 /\ n + 1 <= Len(input) /\ Len(ws_word) \in Nat
      /\ word_offset \in Nat
  BY <1>1, WordTypes DEF scanned, WordInv, TypeOK
<1>3. IsLetter(n + 1) /\ char = input[n + 1]
  BY DEF char, IsLetter
<1>4. /\ in_word' = TRUE
      /\ word_offset' = IF same THEN offset + 1 ELSE offset
      /\ good_word' <=> same /\ (in_word => good_word)
  BY Zenon DEF ws_word_check
<1>5. /\ in_word <=> InWordAt(n)
      /\ ~ in_word => ~ good_word
      /\ good_word => /\ word_offset > 0
                      /\ Current(n - word_offset + 1, n)
                      /\ Matches(n - word_offset + 1, n)
      /\ ~ good_word => \A s : ~ (Current(s, n) /\ Matches(s, n))
  BY DEF EqualInv, Comparing
<1>6. /\ InWordAt(n)' = InWordAt(n + 1)
      /\ Done(n)' = Done(n + 1)
  BY <1>1, <1>2 DEF InWordAt, Current, Matches, Done, Starts, IsLetter, WordAt
<1>7. InWordAt(n + 1)
  BY <1>2, <1>3 DEF InWordAt
<1>8. \A s : /\ Current(s, n + 1) <=> IF in_word THEN Current(s, n) ELSE s = n + 1
             /\ Matches(s, n + 1) /\ s \in 1 .. n => Matches(s, n)
  BY <1>2, <1>3, <1>5 DEF Current, Matches, Starts, InWordAt
<1> HIDE DEF n, offset, same
<1>9. ASSUME NEW s \in 1 .. n + 1, Matches(s, n), n - s + 1 = offset
      PROVE  Matches(s, n + 1) <=> same
  <2>1. /\ offset \in Nat /\ (n + 1) - s + 1 = offset + 1 /\ s + (offset + 1) - 1 = n + 1
    BY <1>2, <1>9
  <2>2. ASSUME Matches(s, n + 1) PROVE same
    <3>1. offset + 1 \in 1 .. (n + 1) - s + 1
      BY <1>2, <1>9, <2>1
    <3>2. offset + 1 <= Len(ws_word) /\ input[n + 1] = ws_word[offset + 1]
      BY <2>1, <2>2, <3>1 DEF Matches
    <3> QED
      BY <1>2, <1>3, <2>1, <3>2 DEF same
  <2>3. ASSUME same PROVE Matches(s, n + 1)
    <3>1. ASSUME NEW k \in 1 .. (n + 1) - s + 1
          PROVE  k <= Len(ws_word) /\ input[s + k - 1] = ws_word[k]
      <4>1. CASE k = offset + 1
        BY <1>2, <1>3, <2>1, <2>3, <4>1 DEF same
      <4>2. CASE k # offset + 1
        <5>1. k \in 1 .. n - s + 1
          BY <1>2, <1>9, <2>1, <4>2
        <5> QED
          BY <1>9, <5>1 DEF Matches
      <4> QED
        BY <4>1, <4>2
    <3> QED
      BY <3>1 DEF Matches
  <2> QED
    BY <2>2, <2>3
<1>10. ASSUME ~ in_word \/ good_word
       PROVE  /\ good_word' => /\ word_offset' > 0
                               /\ Current((n + 1) - word_offset' + 1, n + 1)
                               /\ Matches((n + 1) - word_offset' + 1, n + 1)
              /\ ~ good_word' => \A t : ~ (Current(t, n + 1) /\ Matches(t, n + 1))
  <2> DEFINE s == n - offset + 1
  <2>1. s \in 1 .. n + 1 /\ Matches(s, n) /\ n - s + 1 = offset /\ offset \in Nat
        /\ \A t : Current(t, n + 1) <=> t = s
    <3>1. CASE ~ in_word
      <4>1. offset = 0 /\ s = n + 1
        BY <1>2, <3>1 DEF offset
      <4>2. Matches(n + 1, n)
        BY <1>2 DEF Matches
      <4> HIDE DEF s
      <4> QED
        BY <1>2, <1>8, <3>1, <4>1, <4>2
    <3>2. CASE in_word
      <4>1. offset = word_offset /\ Current(s, n) /\ Matches(s, n) /\ n - s + 1 = offset
        BY <1>2, <1>5, <1>10, <3>2 DEF offset
      <4> HIDE DEF s
      <4>2. s \in 1 .. n
        BY <1>2, <4>1, CurrentIsWord
      <4>3. \A t : Current(t, n) => t = s
        BY <1>2, <4>1, OneCurrent
      <4> QED
        BY <1>2, <1>8, <3>2, <4>1, <4>2, <4>3
    <3> QED
      BY <3>1, <3>2
  <2>2. (n + 1) - (offset + 1) + 1 = s
    BY <1>2, <2>1
  <2> HIDE DEF s
  <2>3. Matches(s, n + 1) <=> same
    BY <1>9, <2>1
  <2>4. good_word' <=> same
    BY <1>4, <1>10
  <2> QED
    BY <1>4, <2>1, <2>2, <2>3, <2>4
<1>11. ASSUME in_word, ~ good_word
       PROVE  ~ good_word' /\ \A t : ~ (Current(t, n + 1) /\ Matches(t, n + 1))
  <2>1. ASSUME NEW t, Current(t, n + 1), Matches(t, n + 1) PROVE FALSE
    <3>1. Current(t, n)
      BY <1>8, <1>11, <2>1
    <3>2. t \in 1 .. n
      BY <1>2, <3>1, CurrentIsWord
    <3> QED
      BY <1>5, <1>8, <1>11, <2>1, <3>1, <3>2
  <2> QED
    BY <1>4, <1>11, <2>1
<1>15. \E s : Current(s, n + 1) /\ Furthest(word_offset', s, n + 1)
  <2>1. \E s \in 1 .. n + 1 : Current(s, n + 1) /\ Furthest(offset, s, n)
    <3>1. CASE in_word
      <4>1. PICK s : Current(s, n) /\ Furthest(word_offset, s, n)
        BY <3>1 DEF EqualInv, Comparing, n
      <4>2. s \in 1 .. n + 1
        BY <1>2, <4>1, CurrentIsWord
      <4> QED
        BY <1>8, <3>1, <4>1, <4>2 DEF offset
    <3>2. CASE ~ in_word
      <4>1. Furthest(0, n + 1, n)
        BY <1>2, FurthestNone
      <4> QED
        BY <1>2, <1>8, <3>2, <4>1 DEF offset
    <3> QED
      BY <3>1, <3>2
  <2>2. PICK s \in 1 .. n + 1 : Current(s, n + 1) /\ Furthest(offset, s, n)
    BY <2>1
  <2>3. offset \in 0 .. Len(ws_word)
    BY WordTypes, <1>2 DEF offset
  <2>4. Furthest(IF same THEN offset + 1 ELSE offset, s, n + 1)
    BY <1>2, <1>3, <2>2, <2>3, FurthestNext DEF same
  <2> QED
    BY <1>4, <2>2, <2>4
<1>12. Comparing'
  <2>1. in_word' = InWordAt(scanned)'
    <3>1. InWordAt(scanned)'
      BY <1>6, <1>7 DEF n
    <3> QED
      BY <1>4, <3>1, Zenon DEF InWordAt
  <2>2. scanned' = n + 1
    BY <1>2 DEF n
  <2>3. (good_word => /\ word_offset > 0
                      /\ Current(scanned - word_offset + 1, scanned)
                      /\ Matches(scanned - word_offset + 1, scanned))'
    BY <1>1, <1>10, <1>11, <2>2 DEF Current, Matches, Starts, IsLetter
  <2>4. (~ good_word => \A t : ~ (Current(t, scanned) /\ Matches(t, scanned)))'
    BY <1>1, <1>10, <1>11, <2>2 DEF Current, Matches, Starts, IsLetter
  <2>5. (\E s : Current(s, scanned) /\ Furthest(word_offset, s, scanned))'
    <3>1. \A k, s, m : Furthest(k, s, m)' = Furthest(k, s, m)
      BY <1>1, FurthestKept
    <3>2. \A s, m : Current(s, m)' = Current(s, m)
      BY <1>1 DEF Current, Starts, IsLetter
    <3> QED
      BY <1>15, <2>2, <3>1, <3>2
  <2> QED
    BY <1>4, <2>1, <2>3, <2>4, <2>5 DEF Comparing
<1>13. word_count' = Cardinality(Done(scanned)')
  <2>1. Done(n + 1) = Done(n)
    BY <1>2, <1>3, DoneNext
  <2> QED
    BY <1>1, <1>6, <2>1 DEF EqualInv, n
<1>14. EqualCounted'
  BY <1>1 DEF EqualCounted, Result
<1> QED
  BY <1>12, <1>13, <1>14 DEF EqualInv

LEMMA EqualEnd == ASSUME WordInv, EqualInv, end_case PROVE EqualInv'
<1> SUFFICES ASSUME ws_flag PROVE EqualInv'
  BY DEF EqualInv, end_case, file
<1> DEFINE n == Len(input)
           last == \E s \in LastWord : Occurs(Len(ws_word), s, Len(input))
<1>1. /\ UNCHANGED <<input, ws_flag, ws_word, taken, read_count, edx>>
      /\ UNCHANGED <<in_word, good_word, word_offset>>
      /\ pc = "end" /\ pc' = "write"
      /\ word_count' = IF in_word /\ at_end THEN word_count + 1 ELSE word_count
  BY DEF end_case, file
<1>2. n \in Nat /\ scanned = n /\ scanned' = n
  BY <1>1, InputLength DEF WordInv, TypeOK, AtEnd, scanned
<1>3. Comparing'
  <2>1. \A k, s, m : Furthest(k, s, m)' = Furthest(k, s, m)
    BY <1>1, FurthestKept
  <2>2. Comparing
    BY DEF EqualInv
  <2> QED
    BY <1>1, <1>2, <2>1, <2>2 DEF Comparing, Current, Matches, Starts, IsLetter, InWordAt
<1>4. word_count = Cardinality(Done(n)) /\ Cardinality(Done(n)) \in Nat
  BY <1>1, <1>2, DoneNow DEF EqualInv
<1>5. last <=> (in_word /\ at_end)
  <2>1. CASE in_word
    <3>1. PICK s : Current(s, n) /\ Furthest(word_offset, s, n)
      BY <1>2, <2>1 DEF EqualInv, Comparing
    <3>2. \A t \in LastWord : t = s
      BY <1>2, <3>1, LastIs, OneCurrent
    <3>3. s \in LastWord
      BY <3>1, LastIs
    <3>4. s \in 1 .. n + 1
      BY <1>2, <3>1, CurrentIsWord
    <3>5. Occurs(Len(ws_word), s, n) <=> at_end
      BY <1>2, <3>1, <3>4, WordTypes, FewerOccur DEF Furthest, at_end
    <3> QED
      BY <2>1, <3>2, <3>3, <3>5
  <2>2. CASE ~ in_word
    <3>1. \A s : ~ Current(s, n)
      BY <1>2, <2>2, CurrentIsWord DEF EqualInv, Comparing
    <3> QED
      BY <2>2, <3>1, LastIs
  <2> QED
    BY <2>1, <2>2
<1>6. last' <=> last
  <2>1. \A k, s, m : Occurs(k, s, m)' = Occurs(k, s, m)
    BY <1>1, FurthestKept
  <2>2. LastWord' = LastWord
    BY <1>1 DEF LastWord, Starts, IsLetter
  <2> QED
    BY <1>1, <2>1, <2>2
<1>7. {i \in Equal : i + Len(ws_word) <= Len(input)}' = Done(n)
  <2>1. Equal' = Equal
    BY <1>1 DEF Equal, Starts, IsLetter, WordAt
  <2> QED
    BY <1>1, <2>1, EqualIs
<1>8. word_count' = Cardinality(Done(n)) + (IF last THEN 1 ELSE 0)
  BY <1>1, <1>4, <1>5
<1>9. EqualCounted'
  BY <1>6, <1>7, <1>8 DEF EqualCounted
<1> QED
  BY <1>1, <1>3, <1>9 DEF EqualInv

LEMMA EqualNext == ASSUME WordInv, EqualInv, [Next]_vars PROVE EqualInv'
<1>1. CASE count_words
  <2>1. ws_flag' = ws_flag
    BY <1>1 DEF count_words, next_char, file
  <2>2. CASE ws_flag
    BY <1>1, <2>2, EqualBlank, EqualLetter DEF count_words
  <2>3. CASE ~ ws_flag
    BY <2>1, <2>3 DEF EqualInv
  <2> QED
    BY <2>2, <2>3
<1> QED
  BY <1>1, EqualQuiet, EqualRead, EqualEnd DEF Next

(* With -ws the words that are counted are those in front of a blank that  *)
(* are ws_word, and a last word without a blank that ws_word can be made   *)
(* of by striking out characters: however read cuts the file, and for      *)
(* every ws_word, the empty one included.                                  *)
THEOREM EqualWordsCounted == BothSpec => []EqualCounted
<1>1. BothInit => WordInv /\ EqualInv
  BY WordInit, EqualInit DEF BothInit
<1>2. WordInv /\ EqualInv /\ [BothNext]_allVars => (WordInv /\ EqualInv)'
  BY WordNext, EqualNext DEF BothNext, WordStep, LineStep, CopyStep, allVars
<1>3. EqualInv => EqualCounted
  BY DEF EqualInv, EqualCounted
<1> QED
  BY <1>1, <1>2, <1>3, PTL DEF BothSpec

===============================================================================
