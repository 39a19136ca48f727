------------------------- MODULE CommandHistoryProofs -------------------------
(***************************************************************************)
(* Proofs about CommandHistory for every ring size, every set of commands  *)
(* and numbers, and any nesting of recalls.                                *)
(*                                                                         *)
(* The inductive invariant is TypeOK /\ RingInv.  Its heart is that the    *)
(* next slot is the remainder of the count (PointerFollowsCount): recalls  *)
(* look a command up by remainder while add_history writes by pointer.     *)
(***************************************************************************)
EXTENDS CommandHistory, RemainderLemmas, SequenceTheorems, TLAPS

IInv == TypeOK /\ RingInv

(* The part of the invariant that is about the ring alone. *)
RingOK ==
    /\ h_array \in [Slots -> Lines \cup {None}]
    /\ h_count \in Nat
    /\ h_pointer \in Slots
    /\ PointerFollowsCount
    /\ FilledSlots

Frame == [slot : Int, freed : BOOLEAN]

(* Moving the pointer along with the count, as both branches at the end of *)
(* exclamation_mark_case do.                                               *)
LEMMA AdvanceKeepsPointer ==
    ASSUME RingOK, advance
    PROVE  h_count' \in Nat /\ h_pointer' \in Slots /\ PointerFollowsCount'
<1>1. HISTORY_SIZE \in Nat \ {0} /\ h_count \in Nat
  BY HistoryAssumption DEF RingOK
<1>2. h_count' = h_count + 1 /\ h_pointer' = (h_pointer + 1) % HISTORY_SIZE
  BY DEF advance
<1>3. h_pointer' = h_count' % HISTORY_SIZE
  BY <1>1, <1>2, NextMod DEF RingOK, PointerFollowsCount
<1>4. h_pointer' \in 0 .. HISTORY_SIZE - 1
  BY <1>1, <1>2, <1>3, Division
<1> QED
  BY <1>1, <1>2, <1>3, <1>4 DEF PointerFollowsCount, Slots

(* The slot of the next command holds NULL exactly until the ring is full. *)
LEMMA NextSlot ==
    ASSUME RingOK
    PROVE  /\ h_count < HISTORY_SIZE => h_pointer = h_count
           /\ h_count >= HISTORY_SIZE => h_array[h_pointer] # None
<1>1. HISTORY_SIZE \in Nat \ {0} /\ h_count \in Nat
  BY HistoryAssumption DEF RingOK
<1>2. CASE h_count < HISTORY_SIZE
  BY <1>1, <1>2, SmallMod DEF RingOK, PointerFollowsCount
<1>3. CASE h_count >= HISTORY_SIZE
  BY <1>1, <1>3 DEF RingOK, FilledSlots, Slots
<1> QED
  BY <1>1, <1>2, <1>3

LEMMA AddHistoryKeepsRing ==
    ASSUME RingOK, NEW text \in Lines, add_history(text)
    PROVE  RingOK' /\ \A s \in Slots : h_array[s] # None => h_array'[s] # None
<1>1. h_array' = [h_array EXCEPT ![h_pointer] = text] /\ advance
  BY DEF add_history
<1>2. h_count' \in Nat /\ h_pointer' \in Slots /\ PointerFollowsCount'
  BY <1>1, AdvanceKeepsPointer
<1>3. h_array' \in [Slots -> Lines \cup {None}]
  BY <1>1 DEF RingOK
<1>4. \A s \in Slots : h_array'[s] = IF s = h_pointer THEN text ELSE h_array[s]
  BY <1>1 DEF RingOK
<1>5. text # None
  BY NoneAssumption
<1>6. FilledSlots'
  <2>1. \A s \in Slots : h_array'[s] = None <=> s >= h_count + 1
    <3> SUFFICES ASSUME NEW s \in Slots
                 PROVE  h_array'[s] = None <=> s >= h_count + 1
      OBVIOUS
    <3>1. h_array[s] = None <=> s >= h_count
      BY DEF RingOK, FilledSlots
    <3>2. s \in Int /\ s < HISTORY_SIZE /\ h_count \in Nat /\ HISTORY_SIZE \in Nat
      BY HistoryAssumption DEF RingOK, Slots
    <3>3. CASE s = h_pointer
      BY <1>4, <1>5, <3>2, <3>3, NextSlot
    <3>4. CASE s # h_pointer
      BY <1>4, <3>1, <3>2, <3>4, NextSlot
    <3> QED
      BY <3>3, <3>4
  <2>2. h_count' = h_count + 1
    BY <1>1 DEF advance
  <2> QED
    BY <2>1, <2>2 DEF FilledSlots, Slots
<1> QED
  BY <1>2, <1>3, <1>4, <1>5, <1>6 DEF RingOK

(* Skipping a slot is sound because the slot skipped is a filled one. *)
LEMMA KeepSlotKeepsRing ==
    ASSUME RingOK, keep_slot, h_array[h_pointer] # None
    PROVE  RingOK'
<1>1. h_count' \in Nat /\ h_pointer' \in Slots /\ PointerFollowsCount'
  BY AdvanceKeepsPointer DEF keep_slot
<1>2. h_count' = h_count + 1 /\ h_array' = h_array
  BY DEF keep_slot, advance
<1>3. h_count >= HISTORY_SIZE
  <2>1. HISTORY_SIZE \in Nat /\ h_count \in Nat /\ h_pointer \in Slots
    BY HistoryAssumption DEF RingOK
  <2>2. ~ (h_pointer >= h_count)
    BY <2>1 DEF RingOK, FilledSlots
  <2> QED
    BY <2>1, <2>2, NextSlot DEF Slots
<1>4. \A s \in Slots : h_array[s] # None /\ ~ (s >= h_count + 1)
  BY <1>3, HistoryAssumption DEF RingOK, FilledSlots, Slots
<1>5. FilledSlots'
  BY <1>2, <1>4 DEF FilledSlots, Slots
<1> QED
  BY <1>1, <1>2, <1>5 DEF RingOK

-------------------------------------------------------------------------------

(* Recording a command leaves the texts of all recalls in place: a slot    *)
(* that is written again is marked, not emptied.                           *)
LEMMA ReturnToRecallKeeps ==
    ASSUME IInv, ReturnToRecall
    PROVE  IInv'
<1> DEFINE n == Len(frames)
           top == frames[n]
           copied == top.slot # h_pointer
<1>1. RingOK /\ PendingTexts /\ frames \in Seq(Frame) /\ frames # << >>
  BY DEF IInv, TypeOK, RingInv, RingOK, Frame, ReturnToRecall
<1>2. n \in Nat \ {0} /\ top \in Frame /\ n \in 1 .. Len(frames)
  BY <1>1, EmptySeq
<1>3. \A i \in 1 .. n - 1 : frames[i] \in Frame /\ i \in 1 .. Len(frames)
  BY <1>1, <1>2
<1>4. UNCHANGED <<pc, typed, line, listing, deepest>> /\ add' = FALSE
  BY DEF ReturnToRecall, dont_add_history
<1>5. RingOK' /\ \A s \in Slots : h_array[s] # None => h_array'[s] # None
  <2>1. CASE copied
    <3>1. PICK text \in Lines : add_history(text)
      BY <2>1 DEF ReturnToRecall
    <3> QED
      BY <1>1, <3>1, AddHistoryKeepsRing
  <2>2. CASE ~ copied
    <3>1. keep_slot
      BY <2>2 DEF ReturnToRecall
    <3>2. h_array[h_pointer] # None
      BY <1>1, <1>2, <2>2 DEF PendingTexts, RingOK
    <3> QED
      BY <1>1, <3>1, <3>2, KeepSlotKeepsRing DEF keep_slot
  <2> QED
    BY <2>1, <2>2
<1>6. frames' = [i \in 1 .. n - 1 |->
                   [slot |-> frames[i].slot,
                    freed |-> frames[i].freed \/ (copied /\ frames[i].slot = h_pointer)]]
  BY DEF ReturnToRecall
<1>7. /\ frames' \in Seq(Frame)
      /\ Len(frames') = n - 1
      /\ \A i \in 1 .. n - 1 : /\ frames'[i].slot = frames[i].slot
                               /\ frames[i].freed => frames'[i].freed
  BY <1>2, <1>3, <1>6 DEF Frame
<1>8. PendingTexts'
  <2> SUFFICES ASSUME NEW i \in 1 .. n - 1
               PROVE  /\ frames'[i].slot \in Slots => h_array'[frames'[i].slot] # None
                      /\ frames'[i].slot \notin Slots => frames'[i].freed
    BY <1>7 DEF PendingTexts, Slots
  <2>1. /\ frames[i].slot \in Slots => h_array[frames[i].slot] # None
        /\ frames[i].slot \notin Slots => frames[i].freed
    BY <1>1, <1>3 DEF PendingTexts
  <2>2. frames'[i].slot = frames[i].slot /\ (frames[i].freed => frames'[i].freed)
    BY <1>7, Zenon
  <2>3. \A s \in Slots : h_array[s] # None => h_array'[s] # None
    BY <1>5
  <2> QED
    BY <2>1, <2>2, <2>3, Zenon
<1> QED
  BY <1>4, <1>5, <1>7, <1>8 DEF IInv, TypeOK, RingInv, RingOK, Frame

(* Starting a recall. *)
LEMMA CallKeeps ==
    ASSUME IInv, Handling("bang"), NEW text \in Lines, NEW freed \in BOOLEAN,
           Call(text, freed),
           CalledSlot \in Slots => h_array[CalledSlot] # None,
           CalledSlot \notin Slots => freed,
           CalledSlot \in Int
    PROVE  IInv'
<1> DEFINE f == [slot |-> CalledSlot, freed |-> freed]
<1>1. frames \in Seq(Frame) /\ f \in Frame
  BY DEF IInv, TypeOK, Frame
<1>2. frames' = Append(frames, f) /\ line' = text /\ deepest' = Len(frames) + 1
      /\ Len(frames) < MaxDepth /\ UNCHANGED <<ring, pc, typed, add, listing>>
  BY DEF Call
<1>3. frames' \in Seq(Frame) /\ Len(frames') = Len(frames) + 1
      /\ \A k \in 1 .. Len(frames) + 1 : frames'[k] = IF k <= Len(frames) THEN frames[k] ELSE f
  BY <1>1, <1>2
<1>4. Len(frames) \in Nat
  BY <1>1
<1>5. deepest' \in 0 .. MaxDepth
  BY <1>2, <1>4, HistoryAssumption
<1>6. PendingTexts'
  <2> SUFFICES ASSUME NEW k \in 1 .. Len(frames')
               PROVE  /\ frames'[k].slot \in Slots => h_array[frames'[k].slot] # None
                      /\ frames'[k].slot \notin Slots => frames'[k].freed
    BY <1>2 DEF PendingTexts, ring, Slots
  <2>1. CASE k <= Len(frames)
    BY <1>3, <1>4, <2>1 DEF IInv, RingInv, PendingTexts
  <2>2. CASE ~ (k <= Len(frames))
    BY <1>3, <1>4, <2>2
  <2> QED
    BY <2>1, <2>2
<1> QED
  BY <1>2, <1>3, <1>5, <1>6
     DEF IInv, TypeOK, RingInv, PointerFollowsCount, FilledSlots, Slots, ring, Frame

(* A number of either sign selects an integer slot. *)
LEMMA CalledSlotInt ==
    ASSUME TypeOK, Handling("bang")
    PROVE  CalledSlot \in Int
<1>1. line.arg \in Int
  BY HistoryAssumption DEF TypeOK, Handling, Lines, Text
<1>2. CASE line.arg >= 0
  BY <1>1, <1>2, HistoryAssumption, Division DEF CalledSlot, CRem
<1>3. CASE ~ (line.arg >= 0)
  <2>1. - line.arg \in Int
    BY <1>1
  <2>2. (- line.arg) % HISTORY_SIZE \in 0 .. HISTORY_SIZE - 1
    BY <2>1, HistoryAssumption, Division
  <2> QED
    BY <1>3, <2>2, HistoryAssumption DEF CalledSlot, CRem
<1> QED
  BY <1>2, <1>3

-------------------------------------------------------------------------------

LEMMA InitInvariant == Init => IInv
<1> SUFFICES ASSUME Init PROVE IInv
  OBVIOUS
<1>1. HISTORY_SIZE \in Nat \ {0} /\ MaxDepth \in Nat
  BY HistoryAssumption
<1>2. 0 % HISTORY_SIZE = 0
  BY <1>1, SmallMod
<1>3. TypeOK
  BY <1>1 DEF Init, TypeOK, Slots, Lines, Text
<1>4. RingInv
  BY <1>1, <1>2 DEF Init, RingInv, PointerFollowsCount, FilledSlots, PendingTexts, Slots
<1> QED
  BY <1>3, <1>4 DEF IInv

LEMMA NextInvariant == IInv /\ [Next]_vars => IInv'
<1> SUFFICES ASSUME IInv, [Next]_vars PROVE IInv'
  OBVIOUS
<1> USE DEF IInv, TypeOK, RingInv, PointerFollowsCount, FilledSlots, PendingTexts, Slots
<1>1. CASE ReadLine
  BY <1>1, HistoryAssumption DEF ReadLine, ring
<1>2. CASE Quit
  BY <1>2 DEF Quit, ring
<1>3. CASE HandleNothing
  BY <1>3 DEF HandleNothing, Crash, ring
<1>4. CASE HandleRun
  BY <1>4 DEF HandleRun, ReturnAdd, ring
<1>5. CASE HandleHistory
  BY <1>5 DEF HandleHistory, ReturnAdd, ring
<1>6. CASE NotANumber
  BY <1>6 DEF NotANumber, ReturnAdd, ring
<1>7. CASE NotFound
  BY <1>7 DEF NotFound, ReturnAdd, ring
<1>8. CASE Recall
  <2>1. h_array[CalledSlot] \in Lines /\ CalledSlot \in Slots /\ h_array[CalledSlot] # None
    BY <1>8 DEF Recall
  <2> QED
    BY <1>8, <2>1, CallKeeps, CalledSlotInt DEF Recall
<1>9. CASE RecallOutside
  <2>1. PICK text \in Lines : Call(text, TRUE)
    BY <1>9 DEF RecallOutside
  <2> QED
    BY <1>9, <2>1, CallKeeps, CalledSlotInt DEF RecallOutside
<1>10. CASE RecallCrash
  BY <1>10 DEF RecallCrash, Crash, ring
<1>11. CASE ReturnToRecall
  BY <1>11, ReturnToRecallKeeps
<1>12. CASE ReturnToMain
  <2>1. CASE add
    <3>1. add_history(typed) /\ typed \in Lines /\ frames = << >>
      BY <1>12, <2>1 DEF ReturnToMain
    <3>2. RingOK'
      BY <3>1, AddHistoryKeepsRing DEF RingOK
    <3> QED
      BY <1>12, <3>1, <3>2 DEF ReturnToMain, RingOK
  <2>2. CASE ~ add
    BY <1>12, <2>2 DEF ReturnToMain, ring
  <2> QED
    BY <2>1, <2>2
<1>13. CASE UNCHANGED vars
  BY <1>13 DEF vars
<1> QED
  BY <1>1, <1>2, <1>3, <1>4, <1>5, <1>6, <1>7, <1>8, <1>9, <1>10, <1>11, <1>12, <1>13 DEF Next

THEOREM Invariant == Spec => []IInv
BY InitInvariant, NextInvariant, PTL DEF Spec

(* The state of the shell stays well formed. *)
THEOREM TypeCorrect == Spec => []TypeOK
<1>1. IInv => TypeOK
  BY DEF IInv
<1> QED
  BY <1>1, Invariant, PTL

(* For every ring size and any nesting of recalls, the pointer is the      *)
(* remainder of the count, exactly the slots of recallable numbers are     *)
(* filled, and pending recalls keep finding a text.                        *)
THEOREM RingConsistent == Spec => []RingInv
<1>1. IInv => RingInv
  BY DEF IInv
<1> QED
  BY <1>1, Invariant, PTL

-------------------------------------------------------------------------------

(* A number of the window has a text in its slot (task4.c:210-217).        *)
LEMMA WindowFilled ==
    ASSUME RingOK, NEW i \in Recallable
    PROVE  i \in Nat /\ i % HISTORY_SIZE \in Slots /\ Entry(i) \in Lines
<1>1. HISTORY_SIZE \in Nat \ {0} /\ h_count \in Nat
  BY HistoryAssumption DEF RingOK
<1>2. i \in Nat /\ i < h_count
  BY <1>1 DEF Recallable
<1>3. i % HISTORY_SIZE \in 0 .. HISTORY_SIZE - 1
  BY <1>1, <1>2, Division
<1>4. ~ (i % HISTORY_SIZE >= h_count)
  <2>1. CASE h_count >= HISTORY_SIZE
    BY <1>1, <1>3, <2>1
  <2>2. CASE h_count < HISTORY_SIZE
    BY <1>1, <1>2, <2>2, SmallMod
  <2> QED
    BY <1>1, <2>1, <2>2
<1>5. h_array[i % HISTORY_SIZE] # None
  BY <1>3, <1>4 DEF RingOK, FilledSlots, Slots
<1> QED
  BY <1>2, <1>3, <1>5 DEF RingOK, Entry, Slots

(* Whatever was typed before, only a negative number, a line without a     *)
(* command or a recall that leads to itself brings the shell down: the     *)
(* check at task4.c:210 admits no other number whose slot holds NULL.      *)
THEOREM CrashesExplained == Spec => []CrashCauses
<1>1. Init => CrashCauses
  BY DEF Init, CrashCauses
<1>2. IInv /\ CrashCauses /\ [Next]_vars => CrashCauses'
  <2> SUFFICES ASSUME IInv, CrashCauses, [Next]_vars, pc' = "crashed"
               PROVE  CrashCauses'
    BY DEF CrashCauses
  <2>1. CASE UNCHANGED vars
    BY <2>1 DEF vars, CrashCauses
  <2>2. CASE HandleNothing
    BY <2>2 DEF HandleNothing, Handling, Crash, CrashCauses
  <2>3. CASE RecallCrash
    <3>1. UNCHANGED <<line, frames>> /\ line.op = "bang" /\ Accepted(line.arg)
      BY <2>3 DEF RecallCrash, Crash, Handling
    <3>2. CASE Len(frames) = MaxDepth
      BY <3>1, <3>2 DEF CrashCauses
    <3>3. CASE CalledSlot \in Slots => h_array[CalledSlot] = None
      <4>1. line.arg \in Int /\ h_count \in Nat /\ HISTORY_SIZE \in Nat \ {0}
        BY <3>1, HistoryAssumption DEF IInv, TypeOK, Lines, Text
      <4>2. SUFFICES ASSUME line.arg >= 0 PROVE FALSE
        BY <3>1, <4>1 DEF CrashCauses
      <4>3. line.arg \in Recallable
        BY <3>1, <4>1, <4>2 DEF Accepted, Recallable
      <4>4. RingOK
        BY DEF IInv, TypeOK, RingInv, RingOK
      <4>5. CalledSlot = line.arg % HISTORY_SIZE
        BY <4>2 DEF CalledSlot, CRem
      <4> QED
        BY <3>3, <4>3, <4>4, <4>5, WindowFilled, NoneAssumption DEF Entry
    <3> QED
      BY <2>3, <3>2, <3>3 DEF RecallCrash
  <2>4. ~ (ReadLine \/ Quit \/ HandleRun \/ HandleHistory \/ NotANumber \/ NotFound
             \/ Recall \/ RecallOutside \/ ReturnToRecall \/ ReturnToMain)
    BY DEF ReadLine, Quit, HandleRun, HandleHistory, NotANumber, NotFound, ReturnAdd,
           Recall, RecallOutside, Call, Handling, ReturnToRecall, ReturnToMain
  <2> QED
    BY <2>1, <2>2, <2>3, <2>4 DEF Next
<1> QED
  BY <1>1, <1>2, Invariant, PTL DEF Spec

-------------------------------------------------------------------------------

(* Moving on by one command writes its text under the new number and       *)
(* leaves the text of every other number of the new window alone.          *)
LEMMA RecordStep ==
    ASSUME RingOK, RingOK', NEW text \in Lines,
           h_count' = h_count + 1,
           h_array' = [h_array EXCEPT ![h_pointer] = text]
    PROVE  Log!Record(text)
<1>1. HISTORY_SIZE \in Nat \ {0} /\ h_count \in Nat
  BY HistoryAssumption DEF RingOK
<1>2. Recallable' = Log!Window(h_count + 1)
  BY DEF Recallable, Log!Window
<1>3. \A i \in Recallable' :
        Entry(i)' = IF i = h_count THEN text ELSE [j \in Recallable |-> Entry(j)][i]
  <2> SUFFICES ASSUME NEW i \in Recallable'
               PROVE  Entry(i)' = IF i = h_count THEN text ELSE [j \in Recallable |-> Entry(j)][i]
    OBVIOUS
  <2>1. i \in Nat /\ i <= h_count /\ h_count < i + HISTORY_SIZE
    BY <1>1 DEF Recallable
  <2>2. i % HISTORY_SIZE \in Slots
    BY <1>1, <2>1, Division DEF Slots
  <2>3. CASE i = h_count
    BY <2>2, <2>3 DEF RingOK, PointerFollowsCount, Entry
  <2>4. CASE i # h_count
    <3>1. i < h_count
      BY <1>1, <2>1, <2>4
    <3>2. i % HISTORY_SIZE # h_pointer
      BY <1>1, <2>1, <3>1, DistinctMod DEF RingOK, PointerFollowsCount
    <3>3. Entry(i)' = Entry(i)
      BY <2>2, <3>2 DEF Entry, RingOK
    <3>4. i \in Recallable
      BY <1>1, <2>1, <3>1 DEF Recallable
    <3> QED
      BY <2>4, <3>3, <3>4
  <2> QED
    BY <2>3, <2>4
<1> QED
  BY <1>2, <1>3 DEF Log!Record

LEMMA AddHistoryRecords ==
    ASSUME RingOK, NEW text \in Lines, add_history(text)
    PROVE  Log!Next
<1>1. RingOK'
  BY AddHistoryKeepsRing
<1>2. Log!Record(text)
  BY <1>1, RecordStep DEF add_history, advance
<1> QED
  BY <1>2 DEF Log!Next

LEMMA KeepSlotRecords ==
    ASSUME RingOK, keep_slot, h_array[h_pointer] # None
    PROVE  Log!Next
<1>1. RingOK'
  BY KeepSlotKeepsRing
<1>2. h_array[h_pointer] \in Lines
  BY DEF RingOK
<1>3. h_array' = [h_array EXCEPT ![h_pointer] = h_array[h_pointer]]
  BY DEF keep_slot, RingOK
<1>4. Log!Record(h_array[h_pointer])
  BY <1>1, <1>2, <1>3, RecordStep DEF keep_slot, advance
<1> QED
  BY <1>2, <1>4 DEF Log!Next

LEMMA RingStutters == UNCHANGED ring => UNCHANGED Log!vars
BY DEF ring, Log!vars, Recallable, Entry

LEMMA LogInit == Init => Log!Init
<1> SUFFICES ASSUME Init PROVE Log!Init
  OBVIOUS
<1>1. h_count = 0 /\ HISTORY_SIZE \in Nat \ {0}
  BY HistoryAssumption DEF Init
<1>2. Recallable = {} /\ Log!Window(0) = {}
  BY <1>1 DEF Recallable, Log!Window
<1> QED
  BY <1>1, <1>2 DEF Log!Init

LEMMA LogStep == IInv /\ [Next]_vars => [Log!Next]_(Log!vars)
<1> SUFFICES ASSUME IInv, [Next]_vars PROVE Log!Next \/ UNCHANGED Log!vars
  OBVIOUS
<1>1. RingOK /\ frames \in Seq(Frame)
  BY DEF IInv, TypeOK, RingInv, RingOK, Frame
<1>2. CASE ReturnToRecall
  <2> DEFINE top == frames[Len(frames)]
  <2>1. CASE top.slot # h_pointer
    <3>1. PICK text \in Lines : add_history(text)
      BY <1>2, <2>1 DEF ReturnToRecall
    <3> QED
      BY <1>1, <3>1, AddHistoryRecords
  <2>2. CASE top.slot = h_pointer
    <3>1. keep_slot
      BY <1>2, <2>2 DEF ReturnToRecall
    <3>2. Len(frames) \in 1 .. Len(frames)
      BY <1>1, <1>2, EmptySeq DEF ReturnToRecall
    <3>3. h_array[h_pointer] # None
      BY <1>1, <2>2, <3>2 DEF IInv, RingInv, PendingTexts, RingOK
    <3> QED
      BY <1>1, <3>1, <3>3, KeepSlotRecords
  <2> QED
    BY <2>1, <2>2
<1>3. CASE ReturnToMain
  <2>1. CASE add
    BY <1>1, <1>3, <2>1, AddHistoryRecords DEF ReturnToMain, IInv, TypeOK
  <2>2. CASE ~ add
    BY <1>3, <2>2, RingStutters DEF ReturnToMain
  <2> QED
    BY <2>1, <2>2
<1>4. CASE \/ ReadLine \/ Quit \/ HandleNothing \/ HandleRun \/ HandleHistory \/ NotANumber
           \/ NotFound \/ Recall \/ RecallOutside \/ RecallCrash \/ UNCHANGED vars
  <2>1. UNCHANGED ring
    BY <1>4 DEF ReadLine, Quit, HandleNothing, HandleRun, HandleHistory, NotANumber, NotFound,
                Recall, RecallOutside, RecallCrash, ReturnAdd, Call, Crash, ring, vars
  <2> QED
    BY <2>1, RingStutters
<1> QED
  BY <1>2, <1>3, <1>4 DEF Next

(* The ring implements the numbered log: whatever mixture of copying and   *)
(* skipping records a command, it gets the next number, and no number that *)
(* can still be recalled changes its text.                                 *)
THEOREM RingImplementsLog == Spec => LogSpec
BY LogInit, LogStep, Invariant, PTL DEF Spec, LogSpec, Log!Spec

-------------------------------------------------------------------------------
(* What is listed and what is recorded.  While a line or a command that it *)
(* recalls is handled, the line, the recall in progress and the listing    *)
(* belong together (Carried, Listed); RingInv is what makes the text still *)
(* be in its slot when it is copied.                                       *)

Depth ==
    /\ pc = "prompt" => frames = << >>
    /\ pc = "handle" => deepest = Len(frames)
    /\ pc = "return" => deepest >= Len(frames)

(* The text of the recall in progress is still in the slot it was found in.*)
RecallIn(frame) ==
    typed.arg >= 0 => frame.slot \in Slots /\ ~ frame.freed /\ line = h_array[frame.slot]

NewestIsLine ==
    /\ h_count > 0
    /\ typed.op = "bang"
    /\ typed.arg >= 0 => Entry(h_count - 1) = line

Carried ==
    pc \in {"handle", "return"} /\ deepest <= 1 =>
        /\ deepest = 0 => line = typed
        /\ Len(frames) = 1 => typed.op = "bang" /\ RecallIn(frames[1])
        /\ pc = "return" => (add <=> deepest = Len(frames))
        /\ pc = "return" /\ ~ add => NewestIsLine

(* What print_history has listed, before and after a command is recorded.  *)
Lists(numbers) ==
    DOMAIN listing = numbers /\ \A i \in numbers : listing[i] = Entry(i)

Listed ==
    pc = "return" /\ deepest <= 1 /\ line.op = "history" =>
        IF add THEN Lists(FirstListed .. h_count - 1) ELSE Lists(Recallable \ {h_count - 1})

Kept == Depth /\ Carried /\ Listed /\ ListingRight /\ DirectRecallRecorded

(* A command is recorded: written to the next slot, or kept in it.         *)
Recorded(text) ==
    /\ text \in Lines
    /\ h_count' = h_count + 1
    /\ h_array' = [h_array EXCEPT ![h_pointer] = text]

LEMMA RecordedEntries ==
    ASSUME RingOK, NEW text, Recorded(text)
    PROVE  /\ h_array'[h_count % HISTORY_SIZE] = text
           /\ \A i \in Nat : i < h_count /\ h_count < i + HISTORY_SIZE =>
                 h_array'[i % HISTORY_SIZE] = h_array[i % HISTORY_SIZE]
<1>1. HISTORY_SIZE \in Nat \ {0} /\ h_count \in Nat
  BY HistoryAssumption DEF RingOK
<1>2. h_array'[h_count % HISTORY_SIZE] = text
  BY DEF RingOK, PointerFollowsCount, Recorded
<1>3. ASSUME NEW i \in Nat, i < h_count, h_count < i + HISTORY_SIZE
      PROVE  h_array'[i % HISTORY_SIZE] = h_array[i % HISTORY_SIZE]
  <2>1. i % HISTORY_SIZE \in Slots
    BY <1>1, Division DEF Slots
  <2>2. i % HISTORY_SIZE # h_pointer
    BY <1>1, <1>3, DistinctMod DEF RingOK, PointerFollowsCount
  <2> QED
    BY <2>1, <2>2 DEF RingOK, Recorded
<1> QED
  BY <1>2, <1>3

(* The numbers listed are those that stay recallable, and each is listed   *)
(* with the text it is recalled by.                                        *)
LEMMA ListingIs ==
    ASSUME RingOK, print_history, UNCHANGED ring
    PROVE  Lists(FirstListed .. h_count - 1)'
<1>1. HISTORY_SIZE \in Nat \ {0} /\ h_count \in Nat
  BY HistoryAssumption DEF RingOK
<1>2. ASSUME NEW j \in FirstListed .. h_count - 1
      PROVE  ListedSlot(j) = j % HISTORY_SIZE /\ h_array[ListedSlot(j)] # None
  <2>1. j \in Nat /\ j \in Recallable
    BY <1>1 DEF FirstListed, Recallable
  <2>2. ListedSlot(j) = j % HISTORY_SIZE
    <3>1. CASE h_count < HISTORY_SIZE
      <4>1. 0 + j - 0 = j
        BY <2>1
      <4> QED
        BY <3>1, <4>1 DEF ListedSlot, FirstSlot, FirstListed
    <3>2. CASE ~ (h_count < HISTORY_SIZE)
      <4>1. FirstSlot = (h_count + 1) % HISTORY_SIZE
        BY <1>1, <3>2, NextMod DEF FirstSlot, RingOK, PointerFollowsCount
      <4>2. FirstListed = (h_count + 1) - HISTORY_SIZE
        BY <1>1, <3>2 DEF FirstListed
      <4>3. h_count + 1 \in Nat
        BY <1>1
      <4> QED
        BY <1>1, <2>1, <4>1, <4>2, <4>3, RoundMod DEF ListedSlot
    <3> QED
      BY <3>1, <3>2
  <2>3. Entry(j) \in Lines
    BY <2>1, WindowFilled
  <2> QED
    BY <2>2, <2>3, NoneAssumption DEF Entry
<1>3. {j \in FirstListed .. h_count - 1 : h_array[ListedSlot(j)] # None}
         = FirstListed .. h_count - 1
  BY <1>2
<1>4. listing' = [j \in FirstListed .. h_count - 1 |-> h_array[ListedSlot(j)]]
  BY <1>3 DEF print_history
<1>5. /\ DOMAIN listing' = FirstListed .. h_count - 1
      /\ \A j \in FirstListed .. h_count - 1 : listing'[j] = h_array[j % HISTORY_SIZE]
  BY <1>2, <1>4
<1>6. (FirstListed .. h_count - 1)' = FirstListed .. h_count - 1
  BY DEF ring, FirstListed
<1> QED
  BY <1>5, <1>6 DEF Lists, Entry, ring

(* Recording a command leaves what was listed true. *)
LEMMA ListedRecorded ==
    ASSUME RingOK, NEW text, Recorded(text), UNCHANGED listing,
           Lists(FirstListed .. h_count - 1)
    PROVE  Lists(Recallable \ {h_count - 1})'
<1>1. HISTORY_SIZE \in Nat \ {0} /\ h_count \in Nat /\ h_count' = h_count + 1
  BY HistoryAssumption DEF RingOK, Recorded
<1>2. (Recallable \ {h_count - 1})' = FirstListed .. h_count - 1
  BY <1>1 DEF Recallable, FirstListed
<1>3. ASSUME NEW j \in FirstListed .. h_count - 1
      PROVE  h_array'[j % HISTORY_SIZE] = h_array[j % HISTORY_SIZE]
  <2>1. j \in Nat /\ j < h_count /\ h_count < j + HISTORY_SIZE
    BY <1>1 DEF FirstListed
  <2> QED
    BY <2>1, RecordedEntries
<1> QED
  BY <1>2, <1>3 DEF Lists, Entry

-------------------------------------------------------------------------------

LEMMA KeptInit == Init => Kept
<1> SUFFICES ASSUME Init PROVE Kept
  OBVIOUS
<1>1. frames = << >> /\ deepest = 0 /\ pc = "prompt" /\ h_count = 0 /\ line.op = "nothing"
  BY DEF Init, Text
<1> QED
  BY <1>1 DEF Kept, Depth, Carried, Listed, ListingRight, ListedAtPrompt, DirectRecallRecorded

LEMMA KeptRead == ASSUME Kept, ReadLine \/ Quit PROVE Kept'
<1>1. CASE ReadLine
  <2>1. /\ pc' = "handle" /\ frames' = << >> /\ deepest' = 0 /\ line' = typed'
    BY <1>1 DEF ReadLine, Kept, Depth
  <2>2. Len(frames') = 0
    BY <2>1
  <2> QED
    BY <2>1, <2>2 DEF Kept, Depth, Carried, Listed, ListingRight, ListedAtPrompt,
                      DirectRecallRecorded
<1>2. CASE Quit
  BY <1>2 DEF Quit, Kept, Depth, Carried, Listed, ListingRight, ListedAtPrompt,
              DirectRecallRecorded
<1> QED
  BY <1>1, <1>2

LEMMA KeptCrash == ASSUME pc' = "crashed" PROVE Kept'
  BY DEF Kept, Depth, Carried, Listed, ListingRight, ListedAtPrompt, DirectRecallRecorded

(* A line is handled. *)
LEMMA KeptHandled ==
    ASSUME IInv, Kept, pc = "handle", ReturnAdd,
           line.op = "history" => print_history
    PROVE  Kept'
<1>1. /\ pc' = "return" /\ add' = TRUE
      /\ UNCHANGED <<ring, typed, line, frames, deepest>>
  BY DEF ReturnAdd
<1>2. RingOK /\ Len(frames) \in Nat /\ deepest = Len(frames)
  BY DEF IInv, TypeOK, RingInv, RingOK, Kept, Depth
<1>3. Depth'
  BY <1>1, <1>2 DEF Depth
<1>4. Carried'
  BY <1>1, <1>2 DEF Kept, Carried, RecallIn, Slots, ring
<1>5. Listed'
  <2>1. line.op = "history" => Lists(FirstListed .. h_count - 1)'
    BY <1>1, <1>2, ListingIs
  <2> QED
    BY <1>1, <2>1 DEF Listed
<1> QED
  BY <1>1, <1>3, <1>4, <1>5 DEF Kept, ListingRight, ListedAtPrompt, DirectRecallRecorded

(* A recall begins. *)
LEMMA KeptCall == ASSUME IInv, Kept, Recall \/ RecallOutside PROVE Kept'
<1>1. PICK text, freed :
         /\ Call(text, freed)
         /\ CalledSlot \in Slots => text = h_array[CalledSlot] /\ ~ freed
  BY DEF Recall, RecallOutside
<1> DEFINE f == [slot |-> CalledSlot, freed |-> freed]
<1>2. /\ pc = "handle" /\ pc' = "handle" /\ line.op = "bang"
      /\ line' = text /\ frames' = Append(frames, f) /\ deepest' = Len(frames) + 1
      /\ UNCHANGED <<ring, typed, add, listing>>
  BY <1>1 DEF Call, Recall, RecallOutside, Handling
<1>3. frames \in Seq(Frame) /\ Len(frames) \in Nat /\ deepest = Len(frames)
  BY <1>2 DEF IInv, TypeOK, Frame, Kept, Depth
<1>4. Len(frames') = Len(frames) + 1
  BY <1>2, <1>3
<1>5. Depth'
  BY <1>2, <1>4 DEF Depth
<1>6. Carried'
  <2>1. SUFFICES ASSUME deepest' <= 1
                 PROVE  frames'[1] = f /\ typed' = line /\ deepest' = 1
    <3>1. line.arg >= 0 /\ line.arg \in Int => CalledSlot \in Slots
      BY HistoryAssumption, Division DEF CalledSlot, CRem, Slots
    <3>2. line.arg \in Int
      BY <1>2, HistoryAssumption DEF IInv, TypeOK, Lines, Text
    <3>3. f.slot = CalledSlot /\ f.freed = freed
      OBVIOUS
    <3> HIDE DEF f
    <3>4. ASSUME deepest' <= 1, frames'[1] = f, typed' = line
          PROVE  (RecallIn(frames[1]))'
      BY <1>1, <1>2, <3>1, <3>2, <3>3, <3>4 DEF RecallIn, Slots, ring
    <3> QED
      BY <1>2, <2>1, <3>4 DEF Carried
  <2>2. Len(frames) = 0 /\ deepest = 0
    BY <1>2, <1>3, <2>1
  <2>3. frames'[1] = f
    BY <1>2, <1>3, <2>2
  <2> QED
    BY <1>2, <2>2, <2>3 DEF Kept, Carried
<1> QED
  BY <1>2, <1>5, <1>6 DEF Kept, Listed, ListingRight, ListedAtPrompt, DirectRecallRecorded

(* The shell is back in a recall: the recalled command is recorded. *)
LEMMA KeptRecalled == ASSUME IInv, Kept, ReturnToRecall PROVE Kept'
<1> DEFINE n == Len(frames)
           top == frames[n]
<1>1. /\ pc = "return" /\ pc' = "return" /\ frames # << >> /\ add' = FALSE
      /\ UNCHANGED <<typed, line, listing, deepest>>
  BY DEF ReturnToRecall, dont_add_history
<1>2. RingOK /\ frames \in Seq(Frame) /\ n \in Nat \ {0} /\ deepest \in Nat
  <2>1. RingOK /\ frames \in Seq(Frame) /\ deepest \in Nat
    BY HistoryAssumption DEF IInv, TypeOK, RingInv, RingOK, Frame
  <2> QED
    BY <1>1, <2>1, EmptySeq
<1>3. frames' \in Seq(Frame) /\ Len(frames') = n - 1
  <2>1. frames' = [i \in 1 .. n - 1 |->
                     [slot |-> frames[i].slot,
                      freed |-> frames[i].freed
                                  \/ (top.slot # h_pointer /\ frames[i].slot = h_pointer)]]
    BY DEF ReturnToRecall
  <2>2. \A i \in 1 .. n - 1 : frames[i] \in Frame
    BY <1>2
  <2> QED
    BY <1>2, <2>1, <2>2 DEF Frame
<1>4. PICK text : Recorded(text) /\ (top.slot \in Slots /\ ~ top.freed => text = h_array[top.slot])
  <2>1. CASE top.slot # h_pointer
    <3>1. PICK text \in Lines : (~ top.freed => text = h_array[top.slot]) /\ add_history(text)
      BY <2>1 DEF ReturnToRecall
    <3> QED
      BY <3>1 DEF Recorded, add_history, advance
  <2>2. CASE top.slot = h_pointer
    <3>1. keep_slot
      BY <2>2 DEF ReturnToRecall
    <3>2. n \in 1 .. Len(frames)
      BY <1>2
    <3>3. h_array[h_pointer] \in Lines
      BY <1>2, <2>2, <3>2 DEF IInv, RingInv, PendingTexts, RingOK
    <3>4. h_array' = [h_array EXCEPT ![h_pointer] = h_array[h_pointer]]
      BY <1>2, <3>1 DEF keep_slot, RingOK
    <3>5. Recorded(h_array[h_pointer])
      BY <3>1, <3>3, <3>4 DEF Recorded, keep_slot, advance
    <3> QED
      BY <2>2, <3>5
  <2> QED
    BY <2>1, <2>2
<1>5. Depth'
  BY <1>1, <1>2, <1>3 DEF Kept, Depth
<1>6. ASSUME deepest <= 1
      PROVE  n = 1 /\ deepest = 1 /\ add /\ typed.op = "bang" /\ RecallIn(top)
  <2>1. deepest >= n
    BY <1>1 DEF Kept, Depth
  <2>2. n = 1 /\ deepest = 1
    BY <1>2, <1>6, <2>1
  <2> HIDE DEF n
  <2>3. top = frames[1] /\ Len(frames) = 1
    BY <2>2 DEF n
  <2> HIDE DEF top
  <2>4. (add <=> deepest = Len(frames)) /\ typed.op = "bang" /\ RecallIn(frames[1])
    BY <1>1, <2>2, <2>3 DEF Kept, Carried
  <2> QED
    BY <2>2, <2>3, <2>4
<1>7. h_count' = h_count + 1 /\ h_count \in Nat
  BY <1>2, <1>4 DEF Recorded, RingOK
<1>8. Carried'
  <2> SUFFICES ASSUME deepest <= 1
               PROVE  /\ deepest # 0 /\ Len(frames') = 0
                      /\ h_count' > 0 /\ typed.op = "bang"
                      /\ typed.arg >= 0 => h_array'[(h_count' - 1) % HISTORY_SIZE] = line
    BY <1>1 DEF Carried, NewestIsLine, Entry
  <2>1. h_count' - 1 = h_count
    BY <1>7
  <2>2. typed.arg >= 0 => h_array'[h_count % HISTORY_SIZE] = line
    BY <1>2, <1>4, <1>6, RecordedEntries DEF RecallIn
  <2>3. deepest # 0 /\ Len(frames') = 0 /\ typed.op = "bang"
    <3>1. n = 1 /\ deepest = 1 /\ typed.op = "bang"
      BY <1>6
    <3> QED
      BY <1>3, <3>1
  <2>4. h_count' > 0
    BY <1>7
  <2> QED
    BY <2>1, <2>2, <2>3, <2>4
<1>9. Listed'
  <2> SUFFICES ASSUME deepest <= 1, line.op = "history"
               PROVE  Lists(Recallable \ {h_count - 1})'
    BY <1>1 DEF Listed
  <2>1. Lists(FirstListed .. h_count - 1)
    BY <1>1, <1>6 DEF Kept, Listed
  <2> QED
    BY <1>1, <1>2, <1>4, <2>1, ListedRecorded
<1> QED
  BY <1>1, <1>5, <1>8, <1>9 DEF Kept, ListingRight, ListedAtPrompt, DirectRecallRecorded

(* The shell is back at its main loop. *)
LEMMA KeptReturned == ASSUME IInv, Kept, ReturnToMain PROVE Kept'
<1>1. /\ pc = "return" /\ pc' = "prompt" /\ frames = << >> /\ Len(frames) = 0
      /\ UNCHANGED <<typed, line, add, frames, listing, deepest>>
  BY DEF ReturnToMain
<1>2. RingOK /\ h_count \in Nat /\ deepest \in Nat
  BY HistoryAssumption DEF IInv, TypeOK, RingInv, RingOK
<1>3. CASE add
  <2>1. Recorded(typed)
    BY <1>3 DEF ReturnToMain, add_history, advance, Recorded, IInv, TypeOK
  <2>2. h_count' = h_count + 1 /\ h_count' - 1 = h_count
    BY <1>2, <2>1 DEF Recorded
  <2>3. deepest <= 1 => deepest = 0 /\ line = typed
    BY <1>1, <1>3 DEF Kept, Carried
  <2>4. DirectRecallRecorded'
    BY <1>1, <1>2, <2>1, <2>2, <2>3, RecordedEntries DEF DirectRecallRecorded, Entry
  <2>5. ListingRight'
    <3> SUFFICES ASSUME deepest <= 1, line.op = "history"
                 PROVE  Lists(Recallable \ {h_count - 1})'
      BY <1>1 DEF ListingRight, ListedAtPrompt, Lists
    <3>1. Lists(FirstListed .. h_count - 1)
      BY <1>1, <1>3 DEF Kept, Listed
    <3> QED
      BY <1>1, <1>2, <2>1, <3>1, ListedRecorded
  <2> QED
    BY <1>1, <2>4, <2>5 DEF Kept, Depth, Carried, Listed
<1>4. CASE ~ add
  <2>1. UNCHANGED ring
    BY <1>4 DEF ReturnToMain
  <2>2. deepest <= 1 => NewestIsLine
    BY <1>1, <1>4 DEF Kept, Carried
  <2>3. DirectRecallRecorded'
    BY <1>1, <2>1, <2>2 DEF DirectRecallRecorded, NewestIsLine, Entry, ring
  <2>4. ListingRight'
    BY <1>1, <1>4, <2>1 DEF Kept, Listed, Lists, ListingRight, ListedAtPrompt, Entry, ring, Recallable
  <2> QED
    BY <1>1, <2>3, <2>4 DEF Kept, Depth, Carried, Listed
<1> QED
  BY <1>3, <1>4

LEMMA KeptNext == IInv /\ Kept /\ [Next]_vars => Kept'
<1> SUFFICES ASSUME IInv, Kept, [Next]_vars PROVE Kept'
  OBVIOUS
<1>1. CASE HandleRun \/ HandleHistory \/ NotANumber \/ NotFound
  <2>1. pc = "handle" /\ ReturnAdd /\ (line.op = "history" => print_history)
    BY <1>1 DEF HandleRun, HandleHistory, NotANumber, NotFound, Handling
  <2> QED
    BY <2>1, KeptHandled
<1>2. CASE HandleNothing \/ RecallCrash
  BY <1>2, KeptCrash DEF HandleNothing, RecallCrash, Crash
<1>3. CASE UNCHANGED vars
  <2> USE <1>3 DEF vars
  <2>1. Depth' /\ Carried'
    BY DEF Kept, Depth, Carried, RecallIn, NewestIsLine, Entry, Slots
  <2>2. Listed'
    BY DEF Kept, Listed, Lists, FirstListed, Recallable, Entry
  <2>3. ListingRight' /\ DirectRecallRecorded'
    BY DEF Kept, ListingRight, ListedAtPrompt, DirectRecallRecorded, Recallable, Entry
  <2> QED
    BY <2>1, <2>2, <2>3 DEF Kept
<1> QED
  BY <1>1, <1>2, <1>3, KeptRead, KeptCall, KeptRecalled, KeptReturned DEF Next

(* What print_history promises holds for rings of any size: when "history" *)
(* was typed, or recalled directly, every number listed can be recalled at *)
(* the next prompt and names the text it was listed with, and only the     *)
(* newest command was not listed.                                          *)
THEOREM ListingCorrect == Spec => []ListingRight
<1>1. Kept => ListingRight
  BY DEF Kept
<1> QED
  BY <1>1, KeptInit, KeptNext, Invariant, PTL DEF Spec

(* For every line but a recall of a recall, the command recorded last is   *)
(* the one that was carried out.                                           *)
THEOREM RecordsWhatRan == Spec => []DirectRecallRecorded
<1>1. Kept => DirectRecallRecorded
  BY DEF Kept
<1> QED
  BY <1>1, KeptInit, KeptNext, Invariant, PTL DEF Spec

===============================================================================
