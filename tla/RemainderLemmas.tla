-------------------------- MODULE RemainderLemmas --------------------------
(***************************************************************************)
(* Facts about % that the proofs about the history ring rest on.  The SMT  *)
(* backend knows Euclid's division but not its consequences for a divisor  *)
(* that is not a number.                                                   *)
(***************************************************************************)
EXTENDS Integers, TLAPS

(* The division theorem as the provers know it. *)
LEMMA Division ==
    ASSUME NEW n \in Nat \ {0}, NEW a \in Int
    PROVE  /\ a % n \in 0 .. n - 1
           /\ a = n * (a \div n) + (a % n)
           /\ a \div n \in Int
BY SMT

(* Quotient and remainder are unique. *)
LEMMA DivisionUnique ==
    ASSUME NEW n \in Nat \ {0}, NEW q \in Int, NEW p \in Int, NEW r \in 0 .. n - 1, NEW s \in 0 .. n - 1,
           n * q + r = n * p + s
    PROVE  r = s /\ q = p
<1>1. CASE q = p
  BY <1>1, SMT
<1>2. CASE q > p
  <2>1. q - p >= 1 BY <1>2
  <2>2. n * (q - p) >= n BY <2>1, SMT
  <2>3. n * (q - p) = s - r BY SMT
  <2> QED BY <2>2, <2>3, SMT
<1>3. CASE q < p
  <2>1. p - q >= 1 BY <1>3
  <2>2. n * (p - q) >= n BY <2>1, SMT
  <2>3. n * (p - q) = r - s BY SMT
  <2> QED BY <2>2, <2>3, SMT
<1> QED BY <1>1, <1>2, <1>3

(* A slot number is its own remainder: before the ring is full, command c
   is in slot c. *)
LEMMA SmallMod == ASSUME NEW n \in Nat \ {0}, NEW s \in 0 .. n - 1 PROVE s % n = s
  BY SMT

(* Advancing the pointer keeps it the remainder of the count
   (task4.c:195-197). *)
LEMMA NextMod ==
    ASSUME NEW n \in Nat \ {0}, NEW c \in Nat
    PROVE  ((c % n) + 1) % n = (c + 1) % n
<1> DEFINE r == c % n
           q == c \div n
<1>1. r \in 0 .. n - 1 /\ q \in Int /\ c = n * q + r
  BY Division
<1>2. (r + 1) % n \in 0 .. n - 1 /\ (r + 1) \div n \in Int /\ r + 1 = n * ((r + 1) \div n) + ((r + 1) % n)
  BY <1>1, Division
<1>3. (c + 1) % n \in 0 .. n - 1 /\ (c + 1) \div n \in Int /\ c + 1 = n * ((c + 1) \div n) + ((c + 1) % n)
  BY Division
<1>4. n * (q + (r + 1) \div n) = n * q + n * ((r + 1) \div n)
  BY <1>1, <1>2, SMT
<1>5. n * (q + (r + 1) \div n) + ((r + 1) % n) = n * ((c + 1) \div n) + ((c + 1) % n)
  BY <1>1, <1>2, <1>3, <1>4, SMT
<1> DEFINE q1 == q + (r + 1) \div n
           r1 == (r + 1) % n
           q2 == (c + 1) \div n
           r2 == (c + 1) % n
<1>6. q1 \in Int /\ q2 \in Int /\ r1 \in 0 .. n - 1 /\ r2 \in 0 .. n - 1 /\ n * q1 + r1 = n * q2 + r2
  BY <1>1, <1>2, <1>3, <1>5
<1> HIDE DEF q1, r1, q2, r2
<1>7. r1 = r2
  BY <1>6, DivisionUnique, Zenon
<1> QED
  BY <1>7 DEF r1, r2, r

(* Numbers less than n apart have different slots: recording a command
   overwrites no number that stays recallable. *)
LEMMA DistinctMod ==
    ASSUME NEW n \in Nat \ {0}, NEW i \in Nat, NEW j \in Nat, i < j, j < i + n
    PROVE  i % n # j % n
<1> SUFFICES ASSUME i % n = j % n PROVE FALSE
  OBVIOUS
<1>1. i \div n \in Int /\ j \div n \in Int /\ i % n \in 0 .. n - 1
  BY Division
<1>2. i = n * (i \div n) + (i % n) /\ j = n * (j \div n) + (i % n)
  BY Division
<1>3. n * (j \div n - i \div n) = j - i
  BY <1>1, <1>2, SMT
<1>4. j \div n - i \div n >= 1
  BY <1>1, <1>3, SMT
<1>5. n * (j \div n - i \div n) >= n
  BY <1>1, <1>4, SMT
<1> QED
  BY <1>3, <1>5

(* A number that goes round with the ring meets the slot of its remainder: *)
(* print_history counts slots and numbers up together (task4.c:277-288).   *)
LEMMA RoundMod ==
    ASSUME NEW n \in Nat \ {0}, NEW a \in Nat, NEW i \in Nat
    PROVE  ((a % n) + i - (a - n)) % n = i % n
<1> DEFINE r == a % n
           q == a \div n
           v == r + i - (a - n)
           p == i \div n
           s == i % n
<1>1. r \in 0 .. n - 1 /\ q \in Int /\ a = n * q + r
  BY Division
<1>2. s \in 0 .. n - 1 /\ p \in Int /\ i = n * p + s
  BY Division
<1>3. v \in Int
  BY <1>1
<1>4. v % n \in 0 .. n - 1 /\ v \div n \in Int /\ v = n * (v \div n) + (v % n)
  BY <1>3, Division
<1>5. n * (p + 1 - q) = n * p + n - n * q
  BY <1>1, <1>2, SMT
<1>6. v = n * (p + 1 - q) + s
  BY <1>1, <1>2, <1>5, SMT
<1> DEFINE u == v \div n
           w == v % n
           t == p + 1 - q
<1>7. u \in Int /\ t \in Int /\ w \in 0 .. n - 1 /\ n * u + w = n * t + s
  BY <1>1, <1>2, <1>4, <1>6
<1> HIDE DEF u, w, t, s
<1>8. w = s
  BY <1>2, <1>7, DivisionUnique, Zenon
<1> QED
  BY <1>8 DEF w, s

============================================================================
