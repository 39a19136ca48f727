------------------------------- MODULE ByteTools -------------------------------
(***************************************************************************)
(* The programs that look at bytes, on the same two files: the binary      *)
(* compare program and patch change them, and at any time the encoder may  *)
(* be given one of them, or the comparison both.                           *)
(***************************************************************************)
EXTENDS BinaryDiff, ByteStrings

ToolsSpec == DiffInit /\ [][DiffNext]_diffVars

-------------------------------------------------------------------------------
(* Properties. *)

(* The refinement: see Set in BinaryDiff. *)
SetSpec == Set!Spec

(* The value of the string s as a number of base 256, as long as t: the    *)
(* order of a dictionary.                                                  *)
Weight(s) ==
    LET weight[k \in 0 .. MaxLen] == IF k = 0 THEN 0 ELSE 256 * weight[k - 1] + at(s, k)
    IN  weight[MaxLen]

Sign(n) == IF n > 0 THEN 1 ELSE IF n < 0 THEN -1 ELSE 0

(* The assembly compares as a dictionary of bytes does; the C version      *)
(* agrees on which strings are equal, and on the order of the others       *)
(* unless one of the first bytes that differ has its highest bit set and   *)
(* the other has not: then it says the opposite (cmpstr.c:4-8 and          *)
(* cmpstr.asm:11-37).  For a single character the two versions of my_cmp   *)
(* name different winners also when both are equal (my_cmp.c:3 and         *)
(* my_cmp.asm:13-22).                                                      *)
CompareAgree ==
    LET k == Min({j \in 1 .. MaxLen + 1 : at(orig, j) # at(new, j)} \cup {MaxLen + 1})
        mixed == (at(orig, k) >= 128) # (at(new, k) >= 128)
    IN  /\ Sign(cmpstr_asm(orig, new)) = Sign(Weight(orig) - Weight(new))
        /\ Sign(cmpstr(orig, new)) =
              IF mixed THEN - Sign(cmpstr_asm(orig, new)) ELSE Sign(cmpstr_asm(orig, new))
        /\ my_cmp(at(orig, 1), at(new, 1)) # my_cmp_asm(at(orig, 1), at(new, 1)) <=>
              at(orig, 1) = at(new, 1) \/ (at(orig, 1) >= 128) # (at(new, 1) >= 128)

(* What a code stands for. *)
Decoded(code) ==
    IF "byte" \in DOMAIN code THEN code.byte
    ELSE IF "number" \in DOMAIN code THEN code.number % 256
    ELSE LET value[k \in 0 .. 8] ==  \* of the first k digits
                 IF k = 0 THEN 0 ELSE 2 * value[k - 1] + code.digits[k - 1]
         IN  value[8]

(* What a sequence of codes stands for. *)
DecodedText(codes) == [k \in DOMAIN codes |-> Decoded(codes[k])]

Farewell == DecodedText(exiting)

FAREWELL == [k \in DOMAIN Farewell |->
               IF Farewell[k] \in 97 .. 122 THEN Farewell[k] - 32 ELSE Farewell[k]]

(* What the encoder writes to the file given with "-o" can be decoded to   *)
(* the file it read, numbers and digits alike, and a text is restored when *)
(* its case is changed twice.  Without "-o" the same comes out with        *)
(* "exiting..." behind it, and changing the case twice leaves two of them, *)
(* the first in capitals.  Of a file with a byte 255 everything behind it  *)
(* is lost (lab1/task2.c:8-41, 45, 58-60 and 63-84).                       *)
EncodedRight ==
    LET kept == [k \in {n \in DOMAIN new : \A j \in 1 .. n : new[j] # 255} |-> new[k]]
        twice(o) == encoded("c", o, DecodedText(encoded("c", o, new)))
    IN  /\ \A task \in {"a", "b"} :
             /\ DecodedText(encoded(task, TRUE, new)) = kept
             /\ DecodedText(encoded(task, FALSE, new)) = kept \o Farewell
        /\ DecodedText(twice(TRUE)) = kept
        /\ DecodedText(twice(FALSE)) = kept \o (FAREWELL \o Farewell)

================================================================================
