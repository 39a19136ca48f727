------------------------------ MODULE ByteStrings ------------------------------
(***************************************************************************)
(* Programs that look at strings byte by byte: the comparison of lab4, in  *)
(* C and in assembly, of two strings (src/lab4/task2) and of two           *)
(* characters (src/lab4/task0), and the encoder of lab1                    *)
(* (src/lab1/task2.c).                                                     *)
(*                                                                         *)
(* A string is the sequence of its bytes before the terminating 0.  The    *)
(* compiler's char is signed; the assembly extends bytes with zeros.       *)
(***************************************************************************)
EXTENDS Integers, SequencesExt

char(b) == IF b >= 128 THEN b - 256 ELSE b

(* s[curr], counted from one, with the terminating 0. *)
at(s, curr) == IF curr \in DOMAIN s THEN s[curr] ELSE 0

-------------------------------------------------------------------------------
(* cmpstr in C: the loop runs while one string goes on and there is no     *)
(* difference.                                                             *)
returned(c1, c2, differ) ==
    IF differ THEN c1 - c2
    ELSE IF c1 = c2 THEN 0
    ELSE IF c2 = 0 THEN c1
    ELSE c2

(* Mutant: the loop runs while both strings go on. *)
cmpstr_And(s1, s2) ==
    LET goes(k) == at(s1, k) # 0 /\ at(s2, k) # 0
        curr == CHOOSE k \in 1 .. Len(s1) + 1 :
                   /\ ~ goes(k) \/ at(s1, k) # at(s2, k)
                   /\ \A j \in 1 .. k - 1 : goes(j) /\ at(s1, j) = at(s2, j)
    IN  returned(char(at(s1, curr)), char(at(s2, curr)), goes(curr))

cmpstr(s1, s2) ==
    LET goes(k) == at(s1, k) # 0 \/ at(s2, k) # 0
        curr == CHOOSE k \in 1 .. Len(s1) + 1 :
                   /\ ~ goes(k) \/ at(s1, k) # at(s2, k)
                   /\ \A j \in 1 .. k - 1 : goes(j) /\ at(s1, j) = at(s2, j)
    IN  returned(char(at(s1, curr)), char(at(s2, curr)), goes(curr))

(* cmpstr in assembly: leaves the loop at the end of either string, or at  *)
(* a difference, with the difference of two bytes without a sign.          *)
cmpstr_asm(s1, s2) ==
    LET left(k) == at(s1, k) = 0 \/ at(s2, k) = 0 \/ at(s1, k) # at(s2, k)
        eax == CHOOSE k \in 1 .. Len(s1) + 1 : left(k) /\ \A j \in 1 .. k - 1 : ~ left(j)
    IN  at(s1, eax) - at(s2, eax)

my_cmp(ch1, ch2) == IF char(ch1) > char(ch2) THEN 1 ELSE 2

my_cmp_asm(ch1, ch2) == IF ch1 - ch2 < 0 THEN 2 ELSE 1

-------------------------------------------------------------------------------
(* The encoder.  What it writes is a sequence of bytes as they are and of  *)
(* codes: a number with a sign, or eight digits.                           *)

task1a(c) == [number |-> char(c)]

(* Mutant: the digits are filled in from the left. *)
getBinary_Reversed(dec) == [k \in 0 .. 7 |-> (dec \div 2^k) % 2]

(* dec & 1, and a shift that keeps the sign, from digit 7 to digit 0. *)
getBinary(dec) ==
    LET shifted[k \in 0 .. 7] == IF k = 7 THEN dec ELSE shifted[k + 1] \div 2
    IN  [k \in 0 .. 7 |-> shifted[k] % 2]

task1b(c) == [digits |-> getBinary(char(c))]

getOpposite(num) ==
    CASE num \in 97 .. 122 -> num - 32
      [] num \in 65 .. 90 -> num + 32
      [] OTHER -> num

task1c(c) == [byte |-> getOpposite(char(c)) % 256]

(* fgetc's int is assigned to a char before it is compared with EOF. *)
taken(s) ==
    LET end == SelectInSeq(s, LAMBDA b : char(b) = -1)
    IN  IF end = 0 THEN s ELSE SubSeq(s, 1, end - 1)

(* printf("\nexiting...\n"), byte by byte. *)
exiting ==
    LET bytes == <<10, 101, 120, 105, 116, 105, 110, 103, 46, 46, 46, 10>>
    IN  [k \in 1 .. 12 |-> [byte |-> bytes[k]]]

(* It goes to stdout: with "-o" the codes go elsewhere.                    *)
farewell(o) == IF o THEN << >> ELSE exiting

(* What comes into the output: the file given with "-o", or stdout.        *)
encoded(task, o, s) ==
    [k \in DOMAIN taken(s) |->
        CASE s[k] = 10 -> [byte |-> 10]
          [] s[k] # 10 /\ task = "b" -> task1b(s[k])
          [] s[k] # 10 /\ task = "c" -> task1c(s[k])
          [] s[k] # 10 /\ task = "a" -> task1a(s[k])]
    \o farewell(o)

================================================================================
