---------------------------- MODULE ShellJobsProofs ----------------------------
(***************************************************************************)
(* The main loop of the shell and its parser, for any lines, any number of *)
(* processes and any array of arguments that has room for a name and NULL. *)
(*                                                                         *)
(* The parser consists of recursive functions over the places of a line,   *)
(* so that what they compute follows by an induction over Nat that is      *)
(* first-order (FromZero): from the start of a piece for the words found   *)
(* in it, and from the end of the line for the list of commands.  Piece    *)
(* and Visible say how what a function is given lies in the line, and what *)
(* it returns is compared with the reference by places of the line.        *)
(*                                                                         *)
(* ShellInv is inductive.  Stage says what the shell has in hand wherever  *)
(* it is; WaitsRight, that the children marked as awaited are those of the *)
(* list of waitpid calls to come, each once.                               *)
(***************************************************************************)
EXTENDS ShellJobs, CountLemmas, SequenceTheorems

-------------------------------------------------------------------------------
(* Lines, and their beginnings. *)

(* What is before the first token of C.                                    *)
LEMMA BeforeIs ==
    ASSUME NEW T, NEW s \in Seq(T), NEW C
    PROVE  /\ Before(s, C) \in Seq(T)
           /\ Len(Before(s, C)) \in 0 .. Len(s)
           /\ \A j \in 1 .. Len(Before(s, C)) : Before(s, C)[j] = s[j] /\ s[j] \notin C
           /\ Len(Before(s, C)) < Len(s) => s[Len(Before(s, C)) + 1] \in C
<1> DEFINE I == {i \in 1 .. Len(s) : s[i] \in C}
           i == IF I # {} THEN Min(I) ELSE 0
           b == Before(s, C)
<1>1. b = IF i = 0 THEN s ELSE SubSeq(s, 1, i - 1)
  BY DEF Before, SelectInSeq
<1>2. Len(s) \in Nat /\ I \in SUBSET Nat
  OBVIOUS
<1>3. CASE I = {}
  <2>1. b = s
    BY <1>1, <1>3
  <2> QED
    BY <1>2, <1>3, <2>1
<1>4. CASE I # {}
  <2>1. PICK m \in I : \A y \in I : m <= y
    BY <1>2, <1>4, LeastElement
  <2>2. Min(I) = m
    <3>1. I \subseteq Int
      OBVIOUS
    <3> HIDE DEF I
    <3> QED
      BY <2>1, <3>1, LeastChosen, Zenon DEF Min
  <2>3. m \in 1 .. Len(s) /\ s[m] \in C /\ \A j \in 1 .. m - 1 : s[j] \notin C
    BY <1>2, <2>1
  <2>4. b = SubSeq(s, 1, m - 1)
    <3>1. i = m /\ m # 0
      BY <1>2, <1>4, <2>2, <2>3
    <3> HIDE DEF i, b
    <3> QED
      BY <1>1, <3>1
  <2>5. /\ SubSeq(s, 1, m - 1) \in Seq(T)
        /\ Len(SubSeq(s, 1, m - 1)) = IF 1 <= m - 1 THEN (m - 1) - 1 + 1 ELSE 0
        /\ \A j \in 1 .. (m - 1) - 1 + 1 : SubSeq(s, 1, m - 1)[j] = s[1 + j - 1]
    <3>1. m - 1 \in Int /\ \A j \in 1 .. m - 1 : s[j] \in T
      BY <1>2, <2>3
    <3> QED
      BY <3>1, SubSeqProperties
  <2> HIDE DEF b, I
  <2>6. b \in Seq(T) /\ Len(b) = m - 1 /\ \A j \in 1 .. m - 1 : b[j] = s[j]
    BY <1>2, <2>3, <2>4, <2>5
  <2> QED
    BY <1>2, <2>3, <2>6 DEF b
<1> QED
  BY <1>3, <1>4

(* What is behind the first n tokens.                                      *)
LEMMA BehindIs ==
    ASSUME NEW T, NEW s \in Seq(T), NEW n \in 0 .. Len(s)
    PROVE  /\ SubSeq(s, n + 1, Len(s)) \in Seq(T)
           /\ Len(SubSeq(s, n + 1, Len(s))) = Len(s) - n
           /\ \A j \in 1 .. Len(s) - n : SubSeq(s, n + 1, Len(s))[j] = s[n + j]
<1> DEFINE r == SubSeq(s, n + 1, Len(s))
<1>1. /\ Len(s) \in Nat /\ n + 1 \in Int /\ Len(s) \in Int
      /\ \A i \in n + 1 .. Len(s) : s[i] \in T
  OBVIOUS
<1>2. /\ r \in Seq(T)
      /\ Len(r) = IF n + 1 <= Len(s) THEN Len(s) - (n + 1) + 1 ELSE 0
      /\ \A j \in 1 .. Len(s) - (n + 1) + 1 : r[j] = s[(n + 1) + j - 1]
  BY <1>1, SubSeqProperties
<1> HIDE DEF r
<1> DEFINE l == Len(s)
<1>3. l \in Nat /\ n \in 0 .. l
  BY <1>1
<1>4. Len(r) = IF n + 1 <= l THEN l - (n + 1) + 1 ELSE 0
  BY <1>2
<1>5. \A j \in 1 .. l - (n + 1) + 1 : r[j] = s[(n + 1) + j - 1]
  BY <1>2
<1> HIDE DEF l
<1>6. Len(r) = l - n
  BY <1>3, <1>4
<1>7. ASSUME NEW j \in 1 .. l - n PROVE r[j] = s[n + j]
  <2>1. j \in 1 .. l - (n + 1) + 1 /\ (n + 1) + j - 1 = n + j
    BY <1>3
  <2> QED
    BY <1>5, <2>1
<1> QED
  BY <1>2, <1>6, <1>7 DEF r, l

(* Token by token. *)
LEMMA Beginning ==
    ASSUME NEW T, NEW s \in Seq(T), NEW n \in 0 .. Len(s)
    PROVE  /\ SubSeq(s, 1, n) \in Seq(T)
           /\ Len(SubSeq(s, 1, n)) = n
           /\ \A j \in 1 .. n : SubSeq(s, 1, n)[j] = s[j]
<1>1. Len(s) \in Nat /\ n \in Int /\ \A i \in 1 .. n : s[i] \in T
  OBVIOUS
<1>2. /\ SubSeq(s, 1, n) \in Seq(T)
      /\ Len(SubSeq(s, 1, n)) = IF 1 <= n THEN n - 1 + 1 ELSE 0
      /\ \A j \in 1 .. n - 1 + 1 : SubSeq(s, 1, n)[j] = s[1 + j - 1]
  BY <1>1, SubSeqProperties
<1> QED
  BY <1>1, <1>2

(* The words found among the first n tokens of a line.                     *)
WordsStep(line, f, n) ==
    IF n = 0 THEN << >>
    ELSE IF IsWord(line[n]) THEN Append(f[n - 1], line[n]) ELSE f[n - 1]

WordsFound(line) ==
    CHOOSE strtok : strtok = [n \in 0 .. Len(line) |-> WordsStep(line, strtok, n)]

LEMMA WordsFoundFor == ASSUME NEW s PROVE words(s) = WordsFound(Before(s, {"<", ">"}))[Len(Before(s, {"<", ">"}))]
  BY DEF words, WordsFound, WordsStep

LEMMA WordsFoundIs ==
    ASSUME NEW T, NEW line \in Seq(T)
    PROVE  WordsFound(line) = [n \in 0 .. Len(line) |-> WordsStep(line, WordsFound(line), n)]
<1> DEFINE Fun(f, m) == [n \in 0 .. m |-> WordsStep(line, f, n)]
           S == {m \in Nat : \E f : f = Fun(f, m)}
<1>1. 0 \in S
  <2> DEFINE f == [n \in 0 .. 0 |-> << >>]
  <2>1. f = Fun(f, 0)
    BY DEF WordsStep
  <2> QED
    BY <2>1
<1>2. ASSUME NEW m \in S PROVE m + 1 \in S
  <2>1. m \in Nat
    OBVIOUS
  <2>2. PICK f : f = Fun(f, m)
    OBVIOUS
  <2> DEFINE g == [n \in 0 .. m + 1 |-> IF n <= m THEN f[n] ELSE WordsStep(line, f, m + 1)]
  <2>3. ASSUME NEW n \in 0 .. m + 1 PROVE g[n] = WordsStep(line, g, n)
    <3>1. CASE n <= m
      <4>1. n \in 0 .. m
        BY <2>1, <3>1
      <4>2. f[n] = WordsStep(line, f, n)
        BY <2>2, <4>1
      <4>3. n # 0 => n - 1 \in 0 .. m + 1 /\ n - 1 <= m
        BY <2>1, <4>1
      <4> QED
        BY <3>1, <4>2, <4>3 DEF WordsStep
    <3>2. CASE n = m + 1
      <4>1. n # 0 /\ n - 1 \in 0 .. m + 1 /\ n - 1 = m /\ ~ (n <= m)
        BY <2>1, <3>2
      <4> QED
        BY <2>1, <3>2, <4>1 DEF WordsStep
    <3> QED
      BY <2>1, <3>1, <3>2
  <2>4. g = Fun(g, m + 1)
    BY <2>3
  <2> QED
    BY <2>1, <2>4
<1>3. S = Nat
  <2>1. S \in SUBSET Nat
    OBVIOUS
  <2> HIDE DEF S
  <2> QED
    BY <1>1, <1>2, <2>1, FromZero
<1>4. \E f : f = Fun(f, Len(line))
  BY <1>3
<1> QED
  BY <1>4, Zenon DEF WordsFound

(* Words among the j tokens behind the first n of s.                       *)
WordsIn(s, n, j) == {p \in n + 1 .. n + j : IsWord(s[p])}

(* f holds them.                                                           *)
Holds(f, s, n, j) ==
    /\ Len(f) = Cardinality(WordsIn(s, n, j))
    /\ \A p \in WordsIn(s, n, j) : /\ Cardinality(WordsIn(s, n, p - n)) \in 1 .. Len(f)
                                   /\ f[Cardinality(WordsIn(s, n, p - n))] = s[p]

LEMMA WordsInNext ==
    ASSUME NEW s, NEW n \in Nat, NEW j \in Nat
    PROVE  /\ Cardinality(WordsIn(s, n, 0)) = 0
           /\ Cardinality(WordsIn(s, n, j)) \in Nat
           /\ WordsIn(s, n, j + 1) = IF IsWord(s[n + j + 1]) THEN WordsIn(s, n, j) \cup {n + j + 1}
                                                              ELSE WordsIn(s, n, j)
           /\ Cardinality(WordsIn(s, n, j + 1)) =
                IF IsWord(s[n + j + 1]) THEN Cardinality(WordsIn(s, n, j)) + 1
                                        ELSE Cardinality(WordsIn(s, n, j))
<1>1. WordsIn(s, n, j) \subseteq 1 .. n + j /\ n + j \in Nat
  BY DEF WordsIn
<1>2. WordsIn(s, n, 0) = {}
  BY DEF WordsIn
<1>3. WordsIn(s, n, j + 1) = IF IsWord(s[n + j + 1]) THEN WordsIn(s, n, j) \cup {n + j + 1}
                                                     ELSE WordsIn(s, n, j)
  BY DEF WordsIn
<1>4. Cardinality(WordsIn(s, n, j)) \in Nat
  BY <1>1, CountFinite
<1>5. Cardinality(WordsIn(s, n, j) \cup {(n + j) + 1}) = Cardinality(WordsIn(s, n, j)) + 1
  BY <1>1, CountNext
<1> QED
  BY <1>2, <1>3, <1>4, <1>5, CountNone

LEMMA FoundAre ==
    ASSUME NEW line \in Seq(Tokens), NEW s, NEW n \in Nat,
           \A j \in 1 .. Len(line) : line[j] = s[n + j]
    PROVE  \A j \in 0 .. Len(line) : /\ WordsFound(line)[j] \in Seq(Words \cup {Tab})
                                     /\ Holds(WordsFound(line)[j], s, n, j)
<1> DEFINE f == WordsFound(line)
           Claim(j) == f[j] \in Seq(Words \cup {Tab}) /\ Holds(f[j], s, n, j)
           S == {j \in Nat : j <= Len(line) => Claim(j)}
<1>1. Len(line) \in Nat /\ \A j \in 0 .. Len(line) : f[j] = WordsStep(line, f, j)
  BY WordsFoundIs
<1> HIDE DEF f
<1>2. 0 \in S
  <2>1. f[0] = << >>
    BY <1>1 DEF WordsStep
  <2>2. WordsIn(s, n, 0) = {}
    BY DEF WordsIn
  <2>3. f[0] \in Seq(Words \cup {Tab}) /\ Len(f[0]) = 0
    BY <2>1
  <2>4. Holds(f[0], s, n, 0)
    BY <2>2, <2>3, CountNone DEF Holds
  <2> QED
    BY <2>3, <2>4
<1>3. ASSUME NEW j \in Nat, Claim(j), j + 1 <= Len(line) PROVE Claim(j + 1)
  <2> DEFINE t == line[j + 1]
             W == WordsIn(s, n, j)
  <2>1. /\ f[j + 1] = IF IsWord(t) THEN Append(f[j], t) ELSE f[j]
        /\ t \in Tokens /\ t = s[n + j + 1]
    <3>1. j + 1 \in 1 .. Len(line) /\ j + 1 \in 0 .. Len(line) /\ j + 1 # 0 /\ (j + 1) - 1 = j
          /\ n + (j + 1) = n + j + 1
      BY <1>1, <1>3
    <3> QED
      BY <1>1, <3>1 DEF WordsStep
  <2>2. Cardinality(W) \in Nat
    BY WordsInNext
  <2>3. CASE ~ IsWord(t)
    <3>1. f[j + 1] = f[j] /\ WordsIn(s, n, j + 1) = W
      BY <2>1, <2>3, WordsInNext
    <3> QED
      BY <1>3, <3>1 DEF Holds
  <2>4. CASE IsWord(t)
    <3>1. /\ WordsIn(s, n, j + 1) = W \cup {n + j + 1}
          /\ Cardinality(WordsIn(s, n, j + 1)) = Cardinality(W) + 1
      BY <2>1, <2>4, WordsInNext
    <3>2. t \in Words \cup {Tab}
      BY <2>1, <2>4 DEF IsWord, Tokens
    <3>3. /\ f[j] \in Seq(Words \cup {Tab}) /\ Len(f[j]) = Cardinality(W)
          /\ \A p \in W : /\ Cardinality(WordsIn(s, n, p - n)) \in 1 .. Len(f[j])
                          /\ f[j][Cardinality(WordsIn(s, n, p - n))] = s[p]
      BY <1>3 DEF Holds
    <3> DEFINE g == Append(f[j], t)
    <3>4. /\ g \in Seq(Words \cup {Tab}) /\ Len(g) = Len(f[j]) + 1 /\ g[Len(f[j]) + 1] = t
          /\ \A k \in 1 .. Len(f[j]) : g[k] = f[j][k]
      BY <3>2, <3>3, AppendProperties
    <3>5. f[j + 1] = g
      BY <2>1, <2>4
    <3> HIDE DEF g
    <3>6. ASSUME NEW p \in WordsIn(s, n, j + 1)
          PROVE  /\ Cardinality(WordsIn(s, n, p - n)) \in 1 .. Len(g)
                 /\ g[Cardinality(WordsIn(s, n, p - n))] = s[p]
      <4>1. CASE p \in W
        BY <2>2, <3>3, <3>4, <4>1
      <4>2. CASE p = n + j + 1
        <5>1. p - n = j + 1
          BY <4>2
        <5> QED
          BY <2>1, <2>2, <3>1, <3>3, <3>4, <4>2, <5>1
      <4> QED
        BY <3>1, <4>1, <4>2
    <3> QED
      BY <3>1, <3>3, <3>4, <3>5, <3>6 DEF Holds
  <2> QED
    BY <2>3, <2>4
<1>4. S = Nat
  <2>1. S \in SUBSET Nat
    OBVIOUS
  <2>2. ASSUME NEW j \in S PROVE j + 1 \in S
    <3>1. j \in Nat /\ (j <= Len(line) => Claim(j))
      OBVIOUS
    <3> HIDE DEF Claim
    <3> QED
      BY <1>1, <1>3, <3>1
  <2> HIDE DEF S
  <2> QED
    BY <1>2, <2>1, <2>2, FromZero
<1> HIDE DEF Claim
<1>5. \A j \in 0 .. Len(line) : Claim(j)
  BY <1>1, <1>4
<1> QED
  BY <1>5 DEF Claim, f


-------------------------------------------------------------------------------
(* A command. *)

LEMMA ShorterIs ==
    ASSUME NEW a \in Nat, NEW b \in Nat
    PROVE  Min({a, b}) = IF a <= b THEN a ELSE b
<1>1. CASE a <= b
  <2>1. Min({a, b}) = a
    BY <1>1, LeastChosen DEF Min
  <2> QED
    BY <1>1, <2>1
<1>2. CASE ~ (a <= b)
  <2>1. Min({a, b}) = b
    BY <1>2, LeastChosen DEF Min
  <2> QED
    BY <1>2, <2>1
<1> QED
  BY <1>1, <1>2

(* line is what stands in s behind the first n tokens, without operators   *)
(* between commands.                                                       *)
Piece(line, s, n) ==
    /\ line \in Seq(Tokens)
    /\ \A j \in 1 .. Len(line) : line[j] = s[n + j] /\ s[n + j] \notin {"|", "&", "\n"}

(* strtok finds the words in front of the first redirection.               *)
LEMMA WordsAre ==
    ASSUME NEW line, NEW s, NEW n \in Nat, Piece(line, s, n)
    PROVE  /\ words(line) \in Seq(Words \cup {Tab})
           /\ Holds(words(line), s, n, Len(Before(line, {"<", ">"})))
<1> DEFINE b == Before(line, {"<", ">"})
<1>1. b \in Seq(Tokens) /\ Len(b) \in 0 .. Len(line) /\ \A j \in 1 .. Len(b) : b[j] = line[j]
  BY BeforeIs DEF Piece
<1>2. Len(line) \in Nat
  BY DEF Piece
<1>3. Len(b) \in Nat /\ Len(b) \in 0 .. Len(b) /\ \A j \in 1 .. Len(b) : b[j] = s[n + j]
  BY <1>1, <1>2 DEF Piece
<1>4. words(line) = WordsFound(b)[Len(b)]
  BY WordsFoundFor
<1> HIDE DEF b
<1>5. /\ WordsFound(b)[Len(b)] \in Seq(Words \cup {Tab})
      /\ Holds(WordsFound(b)[Len(b)], s, n, Len(b))
  BY <1>1, <1>3, FoundAre
<1> QED
  BY <1>4, <1>5 DEF b

(* They are the words that the reference calls the arguments.              *)
LEMMA ArgumentPlacesAre ==
    ASSUME NEW line, NEW s, NEW n \in Nat, Piece(line, s, n)
    PROVE  /\ ArgumentPlaces(s, n + 1 .. n + Len(line)) =
                WordsIn(s, n, Len(Before(line, {"<", ">"})))
           /\ \A p \in ArgumentPlaces(s, n + 1 .. n + Len(line)) :
                {q \in ArgumentPlaces(s, n + 1 .. n + Len(line)) : q <= p} = WordsIn(s, n, p - n)
<1> DEFINE b == Len(Before(line, {"<", ">"}))
           l == Len(line)
           P == n + 1 .. n + l
<1>1. /\ b \in 0 .. l /\ l \in Nat
      /\ \A j \in 1 .. l : line[j] = s[n + j]
      /\ \A j \in 1 .. b : line[j] \notin {"<", ">"}
      /\ b < l => line[b + 1] \in {"<", ">"}
  BY BeforeIs DEF Piece
<1> HIDE DEF b, l
<1>2. \A p \in n + 1 .. n + b : s[p] \notin {"<", ">"}
  <2> SUFFICES ASSUME NEW p \in n + 1 .. n + b PROVE s[p] \notin {"<", ">"}
    OBVIOUS
  <2>1. p - n \in 1 .. b /\ p - n \in 1 .. l /\ n + (p - n) = p
    BY <1>1
  <2> QED
    BY <1>1, <2>1
<1>3. b < l => n + (b + 1) \in P /\ s[n + (b + 1)] \in {"<", ">"}
  BY <1>1
<1>4. ASSUME NEW p \in ArgumentPlaces(s, P) PROVE p \in WordsIn(s, n, b)
  <2>1. p \in P /\ IsWord(s[p]) /\ \A q \in P : s[q] \in {"<", ">"} => p < q
    BY DEF ArgumentPlaces
  <2>2. b < l => p < n + (b + 1)
    BY <1>3, <2>1
  <2> QED
    BY <1>1, <2>1, <2>2 DEF WordsIn
<1>5. ASSUME NEW p \in WordsIn(s, n, b) PROVE p \in ArgumentPlaces(s, P)
  <2>1. p \in n + 1 .. n + b /\ IsWord(s[p]) /\ p \in P
    BY <1>1 DEF WordsIn
  <2>2. ASSUME NEW q \in P, s[q] \in {"<", ">"} PROVE p < q
    BY <1>1, <1>2, <2>1, <2>2
  <2> QED
    BY <2>1, <2>2 DEF ArgumentPlaces
<1>6. ArgumentPlaces(s, P) = WordsIn(s, n, b)
  BY <1>4, <1>5
<1>7. ASSUME NEW p \in WordsIn(s, n, b)
      PROVE  {q \in WordsIn(s, n, b) : q <= p} = WordsIn(s, n, p - n)
  BY <1>1 DEF WordsIn
<1> QED
  BY <1>6, <1>7 DEF b, l

RightArguments(argv, s, places) ==
    /\ argv \in Seq(Words \cup {Tab})
    /\ Len(argv) = Min({Cardinality(places), MAX_ARGUMENTS - 1})
    /\ \A p \in places : Rank(p, places) < MAX_ARGUMENTS => argv[Rank(p, places)] = s[p]

LEMMA ArgumentsRight ==
    ASSUME NEW line, NEW s, NEW n \in Nat, Piece(line, s, n),
           NEW places, places = ArgumentPlaces(s, n + 1 .. n + Len(line))
    PROVE  RightArguments(arguments(line), s, places)
<1> DEFINE b == Len(Before(line, {"<", ">"}))
           w == words(line)
           m == Min({MAX_ARGUMENTS - 1, Len(w)})
<1>1. w \in Seq(Words \cup {Tab}) /\ Holds(w, s, n, b)
  BY WordsAre
<1>2. places = WordsIn(s, n, b) /\ \A p \in places : {q \in places : q <= p} = WordsIn(s, n, p - n)
  BY ArgumentPlacesAre
<1>3. arguments(line) = SubSeq(w, 1, m)
  BY DEF arguments
<1> HIDE DEF w, b
<1>4. Len(w) \in Nat /\ MAX_ARGUMENTS - 1 \in Nat
  BY <1>1, ParserAssumption
<1>5. m = (IF MAX_ARGUMENTS - 1 <= Len(w) THEN MAX_ARGUMENTS - 1 ELSE Len(w))
  BY <1>4, ShorterIs
<1>6. Len(w) = Cardinality(places)
  BY <1>1, <1>2 DEF Holds
<1>7. m = Min({Cardinality(places), MAX_ARGUMENTS - 1})
  BY <1>4, <1>5, <1>6, ShorterIs
<1> HIDE DEF m
<1>8. m \in 0 .. Len(w)
  BY <1>4, <1>5
<1>9. /\ SubSeq(w, 1, m) \in Seq(Words \cup {Tab}) /\ Len(SubSeq(w, 1, m)) = m
      /\ \A j \in 1 .. m : SubSeq(w, 1, m)[j] = w[j]
  BY <1>1, <1>8, Beginning
<1>10. ASSUME NEW p \in places, Rank(p, places) < MAX_ARGUMENTS
       PROVE  arguments(line)[Rank(p, places)] = s[p]
  <2> DEFINE c == Rank(p, places)
  <2>1. c \in 1 .. Len(w) /\ w[c] = s[p]
    BY <1>1, <1>2 DEF Holds, Rank
  <2> HIDE DEF c
  <2>2. c < MAX_ARGUMENTS
    BY <1>10 DEF c
  <2>3. c \in 1 .. m
    BY <1>4, <1>5, <2>1, <2>2, ParserAssumption
  <2>4. arguments(line)[c] = s[p]
    BY <1>3, <1>9, <2>1, <2>3
  <2> QED
    BY <2>4 DEF c
<1> QED
  BY <1>3, <1>7, <1>9, <1>10 DEF RightArguments


LEMMA SpaceIs == Space \notin {"\n", "<", ">", "|", "&"} /\ Tab \notin Separators
  BY Zenon DEF Space, Tab, Separators

(* The first word in front of any redirection, unless one comes first.     *)
LEMMA FirstWordIs ==
    ASSUME NEW line, NEW s, NEW n \in Nat, Piece(line, s, n)
    PROVE  LET later == {p \in n + 1 .. n + Len(line) : s[p] # Space}
           IN  /\ cloneFirstWord(line) = IF later = {} \/ ~ IsWord(s[Min(later)]) THEN None
                                         ELSE s[Min(later)]
               /\ cloneFirstWord(line) \in Words \cup {Tab, None}
<1> DEFINE b == Len(Before(line, {"<", ">"}))
           l == Len(line)
           w == words(line)
           later == {p \in n + 1 .. n + l : s[p] # Space}
<1>1. /\ b \in 0 .. l /\ l \in Nat
      /\ \A j \in 1 .. b : line[j] \notin {"<", ">"}
      /\ b < l => line[b + 1] \in {"<", ">"}
  BY BeforeIs DEF Piece
<1>2. \A p \in n + 1 .. n + l : /\ p - n \in 1 .. l /\ s[p] = line[p - n]
                                /\ s[p] \in Tokens /\ s[p] \notin {"|", "&", "\n"}
  <2> SUFFICES ASSUME NEW p \in n + 1 .. n + l
               PROVE  /\ p - n \in 1 .. l /\ s[p] = line[p - n]
                      /\ s[p] \in Tokens /\ s[p] \notin {"|", "&", "\n"}
    OBVIOUS
  <2>1. p - n \in 1 .. l /\ n + (p - n) = p
    BY <1>1
  <2> QED
    BY <2>1 DEF Piece
<1>3. w \in Seq(Words \cup {Tab}) /\ Holds(w, s, n, b) /\ Len(w) \in Nat
  BY WordsAre
<1>4. cloneFirstWord(line) = IF w = << >> THEN None ELSE w[1]
  BY DEF cloneFirstWord
<1>5. cloneFirstWord(line) \in Words \cup {Tab, None}
  <2>1. w # << >> => w[1] \in Words \cup {Tab}
    BY <1>3
  <2> QED
    BY <1>4, <2>1
<1> HIDE DEF b, l, w
<1>6. WordsIn(s, n, b) \subseteq later
  BY <1>1 DEF WordsIn, IsWord, Separators
<1>7. ASSUME WordsIn(s, n, b) = {} PROVE w = << >>
  <2>1. Len(w) = 0
    BY <1>3, <1>7, CountNone DEF Holds
  <2> QED
    BY <1>3, <2>1
<1>8. CASE later = {}
  BY <1>4, <1>6, <1>7, <1>8 DEF l
<1>9. CASE later # {}
  <2>1. later \in SUBSET Nat /\ later \subseteq Int
    BY <1>1
  <2>2. PICK m \in later : \A y \in later : m <= y
    BY <1>9, <2>1, LeastElement
  <2>3. Min(later) = m
    <3> HIDE DEF later
    <3> QED
      BY <2>1, <2>2, LeastChosen, Zenon DEF Min
  <2>4. m \in n + 1 .. n + l /\ s[m] # Space /\ s[m] \in Tokens /\ s[m] \notin {"|", "&", "\n"}
    BY <1>2, <2>2
  <2>5. CASE ~ IsWord(s[m])
    <3>1. s[m] \in {"<", ">"}
      BY <2>4, <2>5 DEF IsWord, Separators
    <3>2. ~ (m <= n + b)
      <4>1. SUFFICES ASSUME m <= n + b PROVE FALSE
        OBVIOUS
      <4>2. m - n \in 1 .. b /\ s[m] = line[m - n]
        BY <1>1, <1>2, <2>4, <4>1
      <4> QED
        BY <1>1, <3>1, <4>2
    <3>3. WordsIn(s, n, b) = {}
      <4>1. SUFFICES ASSUME NEW p \in WordsIn(s, n, b) PROVE FALSE
        OBVIOUS
      <4>2. p \in later /\ p \in n + 1 .. n + b
        BY <1>6 DEF WordsIn
      <4> QED
        BY <1>1, <2>2, <2>4, <3>2, <4>2
    <3> QED
      BY <1>4, <1>7, <2>3, <2>5, <3>3 DEF l
  <2>6. CASE IsWord(s[m])
    <3>1. m \in n + 1 .. n + b
      <4>1. SUFFICES ASSUME m > n + b PROVE FALSE
        BY <1>1, <2>4
      <4>2. b < l /\ n + b + 1 \in n + 1 .. n + l /\ (n + b + 1) - n = b + 1
        BY <1>1, <2>4, <4>1
      <4>3. s[n + b + 1] \in {"<", ">"}
        BY <1>1, <1>2, <4>2
      <4>4. n + b + 1 \in later
        BY <4>2, <4>3, SpaceIs
      <4>5. m = n + b + 1
        BY <1>1, <2>2, <2>4, <4>1, <4>4
      <4> QED
        BY <2>6, <4>3, <4>5 DEF IsWord, Separators
    <3>2. m \in WordsIn(s, n, b)
      BY <2>6, <3>1 DEF WordsIn
    <3>3. WordsIn(s, n, m - n) = {m}
      <4>1. m \in WordsIn(s, n, m - n)
        BY <1>1, <2>4, <2>6 DEF WordsIn
      <4>2. ASSUME NEW p \in WordsIn(s, n, m - n) PROVE p = m
        <5>1. p \in n + 1 .. m /\ IsWord(s[p])
          BY <1>1, <2>4 DEF WordsIn
        <5>2. p \in later
          BY <1>1, <2>4, <5>1 DEF IsWord, Separators
        <5> QED
          BY <1>1, <2>2, <2>4, <5>1, <5>2
      <4> QED
        BY <4>1, <4>2
    <3>4. Cardinality({m}) = 1
      BY FS_Singleton
    <3>5. 1 \in 1 .. Len(w) /\ w[1] = s[m]
      BY <1>3, <3>2, <3>3, <3>4 DEF Holds
    <3>6. w # << >>
      BY <1>3, <3>5
    <3>7. cloneFirstWord(line) = s[Min(later)]
      BY <1>4, <2>3, <3>5, <3>6
    <3> QED
      BY <1>5, <1>9, <2>3, <2>6, <3>7 DEF l
  <2> QED
    BY <2>5, <2>6
<1> QED
  BY <1>5, <1>8, <1>9 DEF l

LEMMA RedirectionRight ==
    ASSUME NEW line, NEW s, NEW n \in Nat, Piece(line, s, n), NEW op
    PROVE  /\ extractRedirection(line, op) = RedirectedTo(s, n + 1 .. n + Len(line), op)
           /\ extractRedirection(line, op) \in Words \cup {Tab, None}
<1> DEFINE l == Len(line)
           P == n + 1 .. n + l
           I == {i \in 1 .. l : line[i] = op}
           last == IF I # {} THEN Max(I) ELSE 0
           ops == {p \in P : s[p] = op}
           later == {p \in P : s[p] # Space /\ ops # {} /\ p > Max(ops)}
           r == SubSeq(line, last + 1, l)
<1>1. extractRedirection(line, op) = IF last = 0 THEN None ELSE cloneFirstWord(r)
  BY DEF extractRedirection, SelectLastInSeq
<1>2. RedirectedTo(s, P, op) = IF later = {} \/ ~ IsWord(s[Min(later)]) THEN None ELSE s[Min(later)]
  BY DEF RedirectedTo
<1>3. l \in Nat /\ line \in Seq(Tokens) /\ \A j \in 1 .. l : line[j] = s[n + j]
  BY DEF Piece
<1> HIDE DEF l
<1>4. \A i \in I : n + i \in ops
  BY <1>3
<1>5. \A p \in ops : p - n \in I
  <2> SUFFICES ASSUME NEW p \in ops PROVE p - n \in I
    OBVIOUS
  <2>1. p - n \in 1 .. l /\ n + (p - n) = p
    BY <1>3
  <2> QED
    BY <1>3, <2>1
<1>6. CASE I = {}
  <2>1. last = 0 /\ later = {}
    BY <1>5, <1>6
  <2> QED
    BY <1>1, <1>2, <2>1 DEF l
<1>7. CASE I # {}
  <2>1. PICK m \in I : \A y \in I : y <= m
    <3>1. I \in SUBSET (0 .. l) /\ l \in Int
      BY <1>3
    <3> HIDE DEF I
    <3> QED
      BY <1>7, <3>1, GreatestElement
  <2>2. Max(I) = m
    <3>1. I \subseteq Int /\ m \in Int /\ \A y \in I : m >= y
      BY <1>3, <2>1
    <3> HIDE DEF I
    <3> QED
      BY <2>1, <3>1, GreatestChosen, Zenon DEF Max
  <2>3. m \in 1 .. l /\ last = m /\ m # 0
    BY <1>3, <1>7, <2>1, <2>2
  <2>4. Max(ops) = n + m
    <3>1. n + m \in ops /\ ops \subseteq Int
      BY <1>3, <1>4, <2>1
    <3>2. \A y \in ops : n + m >= y
      BY <1>3, <1>5, <2>1, <2>3
    <3> HIDE DEF ops
    <3> QED
      BY <3>1, <3>2, GreatestChosen, Zenon DEF Max
  <2>5. ops # {}
    BY <1>4, <1>7
  <2> HIDE DEF last, ops
  <2>6. r = SubSeq(line, m + 1, l)
    BY <2>3
  <2>7. /\ SubSeq(line, m + 1, Len(line)) \in Seq(Tokens)
        /\ Len(SubSeq(line, m + 1, Len(line))) = Len(line) - m
        /\ \A j \in 1 .. Len(line) - m : SubSeq(line, m + 1, Len(line))[j] = line[m + j]
    <3>1. m \in 0 .. Len(line)
      BY <2>3 DEF l
    <3> QED
      BY <1>3, <3>1, BehindIs
  <2>8. r \in Seq(Tokens) /\ Len(r) = l - m /\ \A j \in 1 .. l - m : r[j] = line[m + j]
    BY <2>6, <2>7 DEF l
  <2> HIDE DEF r
  <2>9. n + m \in Nat /\ (n + m) + Len(r) = n + l
    BY <1>3, <2>3, <2>8
  <2>10. Piece(r, s, n + m)
    <3>1. ASSUME NEW j \in 1 .. Len(r)
          PROVE  r[j] = s[(n + m) + j] /\ s[(n + m) + j] \notin {"|", "&", "\n"}
      <4>1. m + j \in 1 .. l /\ (n + m) + j = n + (m + j) /\ j \in 1 .. l - m
        BY <1>3, <2>3, <2>8
      <4>2. line[m + j] = s[n + (m + j)] /\ s[n + (m + j)] \notin {"|", "&", "\n"}
        BY <4>1 DEF Piece, l
      <4> QED
        BY <2>8, <4>1, <4>2
    <3> QED
      BY <2>8, <3>1 DEF Piece
  <2> DEFINE afterwards == {p \in (n + m) + 1 .. (n + m) + Len(r) : s[p] # Space}
  <2>11. /\ cloneFirstWord(r) = IF afterwards = {} \/ ~ IsWord(s[Min(afterwards)]) THEN None
                                ELSE s[Min(afterwards)]
         /\ cloneFirstWord(r) \in Words \cup {Tab, None}
    BY <2>9, <2>10, FirstWordIs, Zenon
  <2>12. afterwards = later
    BY <1>3, <2>3, <2>4, <2>5, <2>9
  <2> HIDE DEF afterwards, later
  <2>13. /\ cloneFirstWord(r) = IF later = {} \/ ~ IsWord(s[Min(later)]) THEN None
                                ELSE s[Min(later)]
         /\ cloneFirstWord(r) \in Words \cup {Tab, None}
    BY <2>11, <2>12
  <2> QED
    BY <1>1, <1>2, <2>3, <2>13 DEF l
<1> QED
  BY <1>6, <1>7

(* A command is parsed right, wherever in a line it stands.                *)
LEMMA SingleRight ==
    ASSUME NEW line, NEW s, NEW n \in Nat, Piece(line, s, n)
    PROVE  /\ CommandRight(s, n + 1 .. n + Len(line), parseSingleCmdLine(line))
           /\ parseSingleCmdLine(line) \in
                [arguments : Seq(Words \cup {Tab}),
                 inputRedirect : Words \cup {Tab, None},
                 outputRedirect : Words \cup {Tab, None}]
<1> DEFINE P == n + 1 .. n + Len(line)
           c == parseSingleCmdLine(line)
           places == ArgumentPlaces(s, P)
<1>1. /\ c.arguments = arguments(line)
      /\ c.inputRedirect = extractRedirection(line, "<")
      /\ c.outputRedirect = extractRedirection(line, ">")
  BY DEF parseSingleCmdLine
<1>2. RightArguments(arguments(line), s, places)
  BY ArgumentsRight
<1>3. /\ extractRedirection(line, "<") = RedirectedTo(s, P, "<")
      /\ extractRedirection(line, "<") \in Words \cup {Tab, None}
      /\ extractRedirection(line, ">") = RedirectedTo(s, P, ">")
      /\ extractRedirection(line, ">") \in Words \cup {Tab, None}
  BY RedirectionRight
<1>4. CommandRight(s, P, c)
  <2> HIDE DEF P, c
  <2> QED
    BY <1>1, <1>2, <1>3 DEF CommandRight, RightArguments
<1>5. c \in [arguments : Seq(Words \cup {Tab}),
             inputRedirect : Words \cup {Tab, None},
             outputRedirect : Words \cup {Tab, None}]
  BY <1>2, <1>3 DEF parseSingleCmdLine, RightArguments
<1> QED
  BY <1>4, <1>5


-------------------------------------------------------------------------------
(* The list of commands. *)

Behind(line, n) == SubSeq(line, n + 1, Len(line))
First(line, n) == Before(Behind(line, n), {"|"})
Next1(line, n) == n + Len(First(line, n)) + 1

(* What is parsed behind the first n tokens.                               *)
ChainStep(line, f, n) ==
    IF isEmpty(First(line, n)) THEN << >>
    ELSE <<parseSingleCmdLine(First(line, n))>>
           \o (IF Next1(line, n) <= Len(line) THEN f[Next1(line, n)] ELSE << >>)

ChainFound(line) ==
    CHOOSE parsed : parsed = [n \in 0 .. Len(line) |-> ChainStep(line, parsed, n)]

LEMMA ChainFoundFor == ASSUME NEW line PROVE Chain(line) = ChainFound(line)[0]
  BY DEF Chain, ChainFound, ChainStep, First, Next1, Behind

LEMMA NextIs ==
    ASSUME NEW line \in Seq(Tokens), NEW n \in 0 .. Len(line)
    PROVE  /\ First(line, n) \in Seq(Tokens)
           /\ Len(First(line, n)) \in 0 .. Len(line) - n
           /\ \A j \in 1 .. Len(First(line, n)) : /\ First(line, n)[j] = line[n + j]
                                                  /\ line[n + j] # "|"
           /\ Next1(line, n) \in n + 1 .. Len(line) + 1
           /\ Next1(line, n) <= Len(line) => line[Next1(line, n)] = "|"
<1> DEFINE r == Behind(line, n)
           b == First(line, n)
           l == Len(line)
<1>1. l \in Nat /\ r \in Seq(Tokens) /\ Len(r) = l - n /\ \A j \in 1 .. l - n : r[j] = line[n + j]
  BY BehindIs DEF Behind
<1>2. /\ b \in Seq(Tokens) /\ Len(b) \in 0 .. Len(r)
      /\ \A j \in 1 .. Len(b) : b[j] = r[j] /\ r[j] \notin {"|"}
      /\ Len(b) < Len(r) => r[Len(b) + 1] \in {"|"}
  BY <1>1, BeforeIs DEF First
<1>3. Next1(line, n) = n + Len(b) + 1
  BY DEF Next1
<1> HIDE DEF r, b, l
<1>4. /\ Len(b) \in 0 .. l - n /\ \A j \in 1 .. Len(b) : b[j] = line[n + j] /\ line[n + j] # "|"
  BY <1>1, <1>2 DEF l
<1>5. Next1(line, n) \in n + 1 .. l + 1
  BY <1>1, <1>3, <1>4 DEF l
<1>6. ASSUME Next1(line, n) <= l PROVE line[Next1(line, n)] = "|"
  <2>1. Len(b) < Len(r) /\ Len(b) + 1 \in 1 .. l - n /\ n + (Len(b) + 1) = Next1(line, n)
    BY <1>1, <1>3, <1>4, <1>6 DEF l
  <2> QED
    BY <1>1, <1>2, <2>1
<1> QED
  BY <1>2, <1>4, <1>5, <1>6 DEF b, l

(* From the end of the line to its beginning.                              *)
LEMMA ChainFoundIs ==
    ASSUME NEW line \in Seq(Tokens)
    PROVE  ChainFound(line) = [n \in 0 .. Len(line) |-> ChainStep(line, ChainFound(line), n)]
<1> DEFINE l == Len(line)
           Fun(f, m) == [n \in l - m .. l |-> ChainStep(line, f, n)]
           S == {m \in Nat : m <= l => \E f : f = Fun(f, m)}
<1>1. l \in Nat
  OBVIOUS
<1>2. ASSUME NEW n \in 0 .. l PROVE Next1(line, n) \in n + 1 .. l + 1
  BY NextIs
<1> HIDE DEF l
<1>3. 0 \in S
  <2> DEFINE f == [n \in l - 0 .. l |-> ChainStep(line, << >>, n)]
  <2>1. ASSUME NEW n \in l - 0 .. l PROVE ChainStep(line, << >>, n) = ChainStep(line, f, n)
    <3>1. n \in 0 .. l /\ ~ (Next1(line, n) <= l)
      BY <1>1, <1>2
    <3> QED
      BY <3>1 DEF ChainStep, l
  <2>2. f = Fun(f, 0)
    BY <2>1
  <2> QED
    BY <2>2
<1>4. ASSUME NEW m \in Nat, m + 1 <= l, \E f : f = Fun(f, m) PROVE \E f : f = Fun(f, m + 1)
  <2>1. PICK f : f = Fun(f, m)
    BY <1>4
  <2> DEFINE a == l - (m + 1)
             g == [n \in a .. l |-> IF n = a THEN ChainStep(line, f, a) ELSE f[n]]
  <2>2. a \in 0 .. l /\ a + 1 = l - m /\ m + 1 \in Nat
    BY <1>1, <1>4
  <2> HIDE DEF a
  <2>3. ASSUME NEW n \in a .. l PROVE g[n] = ChainStep(line, g, n)
    <3>1. n \in 0 .. l /\ n \in Int
      BY <1>1, <2>2
    <3>2. Next1(line, n) <= l => Next1(line, n) \in a + 1 .. l
      BY <1>1, <1>2, <2>2, <3>1
    <3>3. Next1(line, n) <= l => g[Next1(line, n)] = f[Next1(line, n)]
      BY <1>1, <2>2, <3>2
    <3>4. ChainStep(line, g, n) = ChainStep(line, f, n)
      BY <3>3 DEF ChainStep, l
    <3>5. n # a => f[n] = ChainStep(line, f, n)
      <4>1. n # a => n \in l - m .. l
        BY <1>1, <2>2
      <4> QED
        BY <2>1, <4>1
    <3> QED
      BY <3>4, <3>5
  <2>4. g = Fun(g, m + 1)
    <3>1. g = [n \in a .. l |-> ChainStep(line, g, n)]
      BY <2>3
    <3> HIDE DEF g
    <3> QED
      BY <3>1 DEF a
  <2> HIDE DEF Fun
  <2> QED
    BY <2>4
<1>5. S = Nat
  <2>1. S \in SUBSET Nat
    OBVIOUS
  <2>2. ASSUME NEW m \in S PROVE m + 1 \in S
    <3>1. m \in Nat /\ m + 1 \in Nat /\ (m <= l => \E f : f = Fun(f, m))
      OBVIOUS
    <3>2. m + 1 <= l => m <= l
      BY <1>1, <3>1
    <3>3. m + 1 <= l => \E f : f = Fun(f, m + 1)
      BY <1>4, <3>1, <3>2
    <3> QED
      BY <3>1, <3>3
  <2> HIDE DEF S
  <2> QED
    BY <1>3, <2>1, <2>2, FromZero
<1>6. PICK f : f = Fun(f, l)
  <2>1. l \in S
    BY <1>1, <1>5
  <2> HIDE DEF Fun
  <2>2. l <= l => \E f : f = Fun(f, l)
    BY <2>1
  <2> QED
    BY <1>1, <2>2
<1>7. f = [n \in 0 .. l |-> ChainStep(line, f, n)]
  <2>1. l - l = 0
    BY <1>1
  <2> QED
    BY <1>6, <2>1
<1>8. \E parsed : parsed = [n \in 0 .. Len(line) |-> ChainStep(line, parsed, n)]
  BY <1>7 DEF l
<1> QED
  BY <1>8, Zenon DEF ChainFound


-------------------------------------------------------------------------------
(* The parts of a line. *)

LEMMA BarsNext ==
    ASSUME NEW s, NEW n \in Nat
    PROVE  /\ Bars(s, 0) = 0
           /\ Bars(s, n) \in Nat
           /\ Bars(s, n + 1) = IF s[n + 1] = "|" THEN Bars(s, n) + 1 ELSE Bars(s, n)
<1> DEFINE B(m) == {p \in 1 .. m : s[p] = "|"}
<1>1. B(0) = {} /\ B(n) \subseteq 1 .. n
  OBVIOUS
<1>2. B(n + 1) = IF s[n + 1] = "|" THEN B(n) \cup {n + 1} ELSE B(n)
  OBVIOUS
<1>3. \A m : Bars(s, m) = Cardinality(B(m))
  BY DEF Bars
<1> HIDE DEF B
<1>4. Cardinality(B(n)) \in Nat /\ Cardinality(B(n) \cup {n + 1}) = Cardinality(B(n)) + 1
  BY <1>1, CountFinite, CountNext
<1> QED
  BY <1>1, <1>2, <1>3, <1>4, CountNone

LEMMA BarsBetween ==
    ASSUME NEW s, NEW m \in Nat, NEW n \in Nat, m <= n
    PROVE  /\ Bars(s, m) <= Bars(s, n)
           /\ (\A p \in m + 1 .. n : s[p] # "|") => Bars(s, m) = Bars(s, n)
<1> DEFINE B(i) == {p \in 1 .. i : s[p] = "|"}
<1>1. B(m) \subseteq B(n) /\ B(n) \subseteq 1 .. n
  OBVIOUS
<1>2. (\A p \in m + 1 .. n : s[p] # "|") => B(m) = B(n)
  OBVIOUS
<1>3. \A i : Bars(s, i) = Cardinality(B(i))
  BY DEF Bars
<1> HIDE DEF B
<1>4. IsFiniteSet(B(n))
  BY <1>1, CountFinite
<1>5. Cardinality(B(m)) <= Cardinality(B(n))
  BY <1>1, <1>4, FS_Subset
<1> QED
  BY <1>2, <1>3, <1>5

LEMMA BarBetween ==
    ASSUME NEW s, NEW m \in Nat, NEW n \in Nat, NEW p \in m + 1 .. n, s[p] = "|"
    PROVE  Bars(s, m) < Bars(s, n)
<1>1. p - 1 \in Nat /\ p \in Nat /\ m <= p - 1 /\ p <= n /\ (p - 1) + 1 = p
  OBVIOUS
<1>2. Bars(s, m) <= Bars(s, p - 1) /\ Bars(s, p) <= Bars(s, n)
  BY <1>1, BarsBetween
<1>3. Bars(s, p) = Bars(s, p - 1) + 1 /\ Bars(s, p - 1) \in Nat
  BY <1>1, BarsNext
<1>4. Bars(s, m) \in Nat /\ Bars(s, n) \in Nat
  BY BarsNext
<1> QED
  BY <1>2, <1>3, <1>4

(* line is what is parsed of s: what is before the first "&" and the new   *)
(* line.                                                                   *)
Visible(line, s) ==
    /\ line \in Seq(Tokens)
    /\ Len(s) \in Nat /\ DOMAIN s = 1 .. Len(s) /\ Len(line) <= Len(s)
    /\ \A p \in 1 .. Len(line) : line[p] = s[p]
    /\ \A p \in 1 .. Len(s) : (s[p] # "\n" /\ \A q \in 1 .. p : s[q] # "&") <=> p <= Len(line)

LEMMA PartIs ==
    ASSUME NEW line, NEW s, Visible(line, s), NEW k
    PROVE  Part(s, k) = {p \in 1 .. Len(line) : s[p] # "|" /\ Bars(s, p) = k - 1}
<1>1. Len(line) \in Nat
  BY DEF Visible
<1>2. ASSUME NEW p \in 1 .. Len(s)
      PROVE  p \in Part(s, k) <=> p \in 1 .. Len(line) /\ s[p] # "|" /\ Bars(s, p) = k - 1
  <2>1. p \in Part(s, k) <=> /\ s[p] \notin {"|", "\n"}
                             /\ \A q \in 1 .. p : s[q] # "&"
                             /\ Bars(s, p) = k - 1
    BY DEF Part, Visible
  <2>2. (s[p] # "\n" /\ \A q \in 1 .. p : s[q] # "&") <=> p <= Len(line)
    BY DEF Visible
  <2>3. p <= Len(line) <=> p \in 1 .. Len(line)
    BY <1>1 DEF Visible
  <2> QED
    BY <2>1, <2>2, <2>3, Zenon
<1>3. Part(s, k) \subseteq 1 .. Len(s) /\ 1 .. Len(line) \subseteq 1 .. Len(s)
  BY <1>1 DEF Part, Visible
<1> QED
  BY <1>2, <1>3

(* Where a command begins: at the start of the line or behind a bar.       *)
BeginsAt(s, n) == n = 0 \/ s[n] = "|"

LEMMA PartOf ==
    ASSUME NEW line, NEW s, Visible(line, s), NEW n \in 0 .. Len(line), BeginsAt(s, n)
    PROVE  Part(s, Bars(s, n) + 1) = n + 1 .. n + Len(First(line, n))
<1> DEFINE l == Len(line)
           f == Len(First(line, n))
           P == Part(s, Bars(s, n) + 1)
<1>1. /\ f \in 0 .. l - n /\ l \in Nat /\ line \in Seq(Tokens)
      /\ \A j \in 1 .. f : line[n + j] # "|"
      /\ n + f + 1 <= l => line[n + f + 1] = "|"
      /\ \A p \in 1 .. l : line[p] = s[p]
  BY NextIs DEF Visible, Next1
<1>2. \A p : p \in P <=> p \in 1 .. l /\ s[p] # "|" /\ Bars(s, p) = Bars(s, n)
  <2>1. Bars(s, n) \in Nat
    BY <1>1, BarsNext
  <2>2. (Bars(s, n) + 1) - 1 = Bars(s, n)
    BY <2>1
  <2> QED
    BY <2>2, PartIs
<1> HIDE DEF l, f, P
<1>3. n \in Nat /\ n <= l /\ n + f \in Nat
  BY <1>1 DEF l
<1>4. \A p \in n + 1 .. n + f : s[p] # "|" /\ p \in 1 .. l
  <2> SUFFICES ASSUME NEW p \in n + 1 .. n + f PROVE s[p] # "|" /\ p \in 1 .. l
    OBVIOUS
  <2>1. p - n \in 1 .. f /\ n + (p - n) = p /\ p \in 1 .. l
    BY <1>1, <1>3
  <2> QED
    BY <1>1, <2>1
<1>5. ASSUME NEW p \in n + 1 .. n + f PROVE p \in P
  <2>1. p \in Nat /\ n <= p /\ \A q \in n + 1 .. p : s[q] # "|"
    BY <1>3, <1>4
  <2>2. Bars(s, n) = Bars(s, p)
    BY <1>3, <2>1, BarsBetween
  <2> QED
    BY <1>2, <1>4, <2>2
<1>6. ASSUME NEW p \in P PROVE p \in n + 1 .. n + f
  <2>1. p \in 1 .. l /\ s[p] # "|" /\ Bars(s, p) = Bars(s, n) /\ p \in Nat
    BY <1>1, <1>2
  <2>2. Bars(s, n) \in Nat
    BY <1>3, BarsNext
  <2>3. ~ (p <= n)
    <3>1. SUFFICES ASSUME p <= n PROVE FALSE
      OBVIOUS
    <3>2. n # 0 /\ s[n] = "|" /\ p # n
      BY <2>1, <3>1 DEF BeginsAt
    <3>3. n \in p + 1 .. n
      BY <1>3, <2>1, <3>1, <3>2
    <3>4. Bars(s, p) < Bars(s, n)
      BY <1>3, <2>1, <3>2, <3>3, BarBetween
    <3> QED
      BY <2>1, <2>2, <3>4
  <2>4. ~ (p > n + f)
    <3>1. SUFFICES ASSUME p > n + f PROVE FALSE
      OBVIOUS
    <3>2. n + f + 1 \in n + 1 .. p /\ n + f + 1 \in 1 .. l
      BY <1>1, <1>3, <2>1, <3>1
    <3>3. s[n + f + 1] = "|"
      BY <1>1, <3>2
    <3>4. Bars(s, n) < Bars(s, p)
      BY <1>3, <2>1, <3>2, <3>3, BarBetween
    <3> QED
      BY <2>1, <2>2, <3>4
  <2> QED
    BY <1>3, <2>1, <2>3, <2>4
<1>7. P = n + 1 .. n + f
  BY <1>5, <1>6
<1> QED
  BY <1>7 DEF P, f


(* The part that begins there is empty if nothing but white space is       *)
(* parsed of it.                                                           *)
LEMMA EmptyIsBlank ==
    ASSUME NEW line, NEW s, Visible(line, s), NEW n \in 0 .. Len(line), BeginsAt(s, n)
    PROVE  isEmpty(First(line, n)) <=> BlankPart(s, Bars(s, n) + 1)
<1> DEFINE b == First(line, n)
<1>1. /\ line \in Seq(Tokens) /\ n \in Nat
      /\ \A p \in 1 .. Len(line) : line[p] = s[p] /\ s[p] # "\n"
  BY DEF Visible
<1>2. /\ b \in Seq(Tokens) /\ Len(b) \in 0 .. Len(line) - n
      /\ \A j \in 1 .. Len(b) : b[j] = line[n + j]
  BY <1>1, NextIs
<1>3. Part(s, Bars(s, n) + 1) = n + 1 .. n + Len(b)
  BY PartOf
<1> HIDE DEF b
<1>4. DOMAIN b = 1 .. Len(b) /\ Len(b) \in Nat
  BY <1>2
<1>5. \A j \in 1 .. Len(b) : n + j \in 1 .. Len(line) /\ b[j] = s[n + j] /\ s[n + j] # "\n"
  BY <1>1, <1>2
<1>6. isEmpty(b) <=> \A j \in 1 .. Len(b) : s[n + j] \in {Space, Tab}
  BY <1>4, <1>5 DEF isEmpty
<1>7. (\A j \in 1 .. Len(b) : s[n + j] \in {Space, Tab})
        <=> \A p \in n + 1 .. n + Len(b) : s[p] \in {Space, Tab}
  <2>1. \A p \in n + 1 .. n + Len(b) : p - n \in 1 .. Len(b) /\ n + (p - n) = p
    BY <1>1, <1>4
  <2>2. \A j \in 1 .. Len(b) : n + j \in n + 1 .. n + Len(b)
    BY <1>1, <1>4
  <2> QED
    BY <2>1, <2>2
<1> QED
  BY <1>3, <1>6, <1>7 DEF BlankPart, b

(* Behind it the next one begins, or no part is left.                      *)
LEMMA NextBegins ==
    ASSUME NEW line, NEW s, Visible(line, s), NEW n \in 0 .. Len(line)
    PROVE  /\ Next1(line, n) <= Len(line) =>
                /\ BeginsAt(s, Next1(line, n))
                /\ Bars(s, Next1(line, n)) = Bars(s, n) + 1
           /\ ~ (Next1(line, n) <= Len(line)) => BlankPart(s, Bars(s, n) + 1 + 1)
<1> DEFINE l == Len(line)
           f == Len(First(line, n))
           m == Next1(line, n)
<1>1. /\ f \in 0 .. l - n /\ l \in Nat /\ line \in Seq(Tokens) /\ m = n + f + 1
      /\ \A j \in 1 .. f : line[n + j] # "|"
      /\ m <= l => line[m] = "|"
      /\ \A p \in 1 .. l : line[p] = s[p]
  BY NextIs DEF Visible, Next1
<1>2. \A k, p : p \in Part(s, k) => p \in 1 .. l /\ Bars(s, p) = k - 1
  BY PartIs
<1> HIDE DEF l, f, m
<1>3. n \in Nat /\ n <= l /\ n + f \in Nat /\ Bars(s, n) \in Nat
  BY <1>1, BarsNext DEF l
<1>4. \A p \in n + 1 .. n + f : s[p] # "|"
  <2> SUFFICES ASSUME NEW p \in n + 1 .. n + f PROVE s[p] # "|"
    OBVIOUS
  <2>1. p - n \in 1 .. f /\ n + (p - n) = p /\ p \in 1 .. l
    BY <1>1, <1>3
  <2> QED
    BY <1>1, <2>1
<1>5. Bars(s, n) = Bars(s, n + f)
  BY <1>1, <1>3, <1>4, BarsBetween
<1>6. ASSUME m <= l PROVE BeginsAt(s, m) /\ Bars(s, m) = Bars(s, n) + 1
  <2>1. s[m] = "|"
    <3>1. m \in 1 .. l
      BY <1>1, <1>3, <1>6
    <3> QED
      BY <1>1, <1>6, <3>1
  <2>2. Bars(s, n + f + 1) = IF s[n + f + 1] = "|" THEN Bars(s, n + f) + 1 ELSE Bars(s, n + f)
    BY <1>3, BarsNext
  <2> QED
    BY <1>1, <1>5, <2>1, <2>2 DEF BeginsAt
<1>7. ASSUME ~ (m <= l) PROVE BlankPart(s, Bars(s, n) + 1 + 1)
  <2>1. SUFFICES ASSUME NEW p \in Part(s, Bars(s, n) + 1 + 1) PROVE FALSE
    BY DEF BlankPart
  <2>2. p \in 1 .. l /\ Bars(s, p) = Bars(s, n) + 1
    <3>1. (Bars(s, n) + 1 + 1) - 1 = Bars(s, n) + 1
      BY <1>3
    <3> QED
      BY <1>2, <2>1, <3>1
  <2>3. p \in Nat /\ p <= n + f
    BY <1>1, <1>3, <1>7, <2>2
  <2>4. Bars(s, p) <= Bars(s, n + f)
    BY <1>3, <2>3, BarsBetween
  <2> QED
    BY <1>3, <1>5, <2>2, <2>4
<1> QED
  BY <1>6, <1>7 DEF l, m


-------------------------------------------------------------------------------
(* The list is what the reference says, from any command on. *)

Commands ==
    [arguments : Seq(Words \cup {Tab}),
     inputRedirect : Words \cup {Tab, None},
     outputRedirect : Words \cup {Tab, None}]

(* list holds the commands of the parts of s from the k-th on.             *)
RightFrom(list, s, k) ==
    /\ list \in Seq(Commands)
    /\ BlankPart(s, k + Len(list))
    /\ \A j \in 1 .. Len(list) : /\ ~ BlankPart(s, k + (j - 1))
                                 /\ CommandRight(s, Part(s, k + (j - 1)), list[j])

LEMMA NoneRight == ASSUME NEW s, NEW k \in Nat, BlankPart(s, k) PROVE RightFrom(<< >>, s, k)
<1>1. << >> \in Seq(Commands) /\ Len(<< >>) = 0 /\ k + 0 = k
  OBVIOUS
<1> QED
  BY <1>1 DEF RightFrom

LEMMA OneMoreRight ==
    ASSUME NEW s, NEW k \in Nat, NEW c \in Commands, NEW rest, RightFrom(rest, s, k + 1),
           ~ BlankPart(s, k), CommandRight(s, Part(s, k), c)
    PROVE  RightFrom(<<c>> \o rest, s, k)
<1> DEFINE list == <<c>> \o rest
<1>1. rest \in Seq(Commands) /\ Len(rest) \in Nat /\ <<c>> \in Seq(Commands)
  BY DEF RightFrom
<1>2. Len(<<c>>) = 1 /\ <<c>>[1] = c
  OBVIOUS
<1>3. list \in Seq(Commands)
  BY <1>1, ConcatProperties
<1>4. Len(list) = 1 + Len(rest)
  BY <1>1, <1>2, ConcatProperties
<1>5. \A j \in 1 .. Len(list) : list[j] = IF j <= 1 THEN <<c>>[j] ELSE rest[j - 1]
  BY <1>1, <1>2, <1>4, ConcatProperties
<1> HIDE DEF list
<1>6. BlankPart(s, k + Len(list))
  <2>1. (k + 1) + Len(rest) = k + Len(list)
    BY <1>1, <1>4
  <2> QED
    BY <2>1 DEF RightFrom
<1>7. ASSUME NEW j \in 1 .. Len(list)
      PROVE  ~ BlankPart(s, k + (j - 1)) /\ CommandRight(s, Part(s, k + (j - 1)), list[j])
  <2>1. CASE j = 1
    <3>1. k + (j - 1) = k /\ list[j] = c
      BY <1>2, <1>5, <2>1
    <3> QED
      BY <3>1
  <2>2. CASE j # 1
    <3>1. j - 1 \in 1 .. Len(rest) /\ (k + 1) + ((j - 1) - 1) = k + (j - 1)
      BY <1>1, <1>4, <2>2
    <3>2. list[j] = rest[j - 1]
      BY <1>4, <1>5, <2>2
    <3>3. /\ ~ BlankPart(s, (k + 1) + ((j - 1) - 1))
          /\ CommandRight(s, Part(s, (k + 1) + ((j - 1) - 1)), rest[j - 1])
      BY <3>1 DEF RightFrom
    <3> QED
      BY <3>1, <3>2, <3>3
  <2> QED
    BY <2>1, <2>2
<1>8. RightFrom(list, s, k)
  BY <1>3, <1>6, <1>7 DEF RightFrom
<1> QED
  BY <1>8 DEF list

LEMMA StepRight ==
    ASSUME NEW line, NEW s, Visible(line, s), NEW n \in 0 .. Len(line), BeginsAt(s, n),
           NEW f,
           Next1(line, n) <= Len(line) /\ BeginsAt(s, Next1(line, n)) =>
               RightFrom(f[Next1(line, n)], s, Bars(s, Next1(line, n)) + 1)
    PROVE  RightFrom(ChainStep(line, f, n), s, Bars(s, n) + 1)
<1> DEFINE b == First(line, n)
           k == Bars(s, n) + 1
           m == Next1(line, n)
           rest == IF m <= Len(line) THEN f[m] ELSE << >>
<1>1. n \in Nat /\ k \in Nat /\ line \in Seq(Tokens)
  BY BarsNext DEF Visible
<1>2. isEmpty(b) <=> BlankPart(s, k)
  BY EmptyIsBlank
<1>3. CASE isEmpty(b)
  <2>1. ChainStep(line, f, n) = << >>
    BY <1>3 DEF ChainStep
  <2> HIDE DEF k
  <2>2. RightFrom(<< >>, s, k)
    BY <1>1, <1>2, <1>3, NoneRight
  <2> QED
    BY <2>1, <2>2 DEF k
<1>4. CASE ~ isEmpty(b)
  <2>1. ChainStep(line, f, n) = <<parseSingleCmdLine(b)>> \o rest
    BY <1>4 DEF ChainStep
  <2>2. Piece(b, s, n)
    <3>1. /\ b \in Seq(Tokens) /\ Len(b) \in 0 .. Len(line) - n
          /\ \A j \in 1 .. Len(b) : b[j] = line[n + j] /\ line[n + j] # "|"
      BY <1>1, NextIs
    <3>2. /\ \A p \in 1 .. Len(line) : line[p] = s[p] /\ s[p] # "\n" /\ s[p] # "&"
      <4>1. ASSUME NEW p \in 1 .. Len(line) PROVE line[p] = s[p] /\ s[p] # "\n" /\ s[p] # "&"
        <5>1. p \in 1 .. Len(s) /\ p <= Len(line) /\ p \in 1 .. p
          BY <1>1 DEF Visible
        <5> QED
          BY <5>1 DEF Visible
      <4> QED
        BY <4>1
    <3> HIDE DEF b
    <3>3. \A j \in 1 .. Len(b) : n + j \in 1 .. Len(line)
      BY <1>1, <3>1
    <3> QED
      BY <3>1, <3>2, <3>3 DEF Piece
  <2>3. Part(s, k) = n + 1 .. n + Len(b)
    BY PartOf
  <2>4. CommandRight(s, Part(s, k), parseSingleCmdLine(b)) /\ parseSingleCmdLine(b) \in Commands
    <3>1. /\ CommandRight(s, n + 1 .. n + Len(b), parseSingleCmdLine(b))
          /\ parseSingleCmdLine(b) \in
                [arguments : Seq(Words \cup {Tab}),
                 inputRedirect : Words \cup {Tab, None},
                 outputRedirect : Words \cup {Tab, None}]
      BY <1>1, <2>2, SingleRight
    <3> HIDE DEF b, k
    <3> QED
      BY <2>3, <3>1 DEF Commands
  <2>5. RightFrom(rest, s, k + 1)
    <3>1. CASE m <= Len(line)
      <4>1. BeginsAt(s, m) /\ Bars(s, m) = k
        BY <3>1, NextBegins
      <4> QED
        BY <3>1, <4>1
    <3>2. CASE ~ (m <= Len(line))
      <4>1. BlankPart(s, k + 1)
        BY <3>2, NextBegins
      <4>2. rest = << >>
        BY <3>2
      <4>3. k + 1 \in Nat
        BY <1>1
      <4> HIDE DEF k, rest
      <4> QED
        BY <4>1, <4>2, <4>3, NoneRight
    <3> QED
      BY <3>1, <3>2
  <2> HIDE DEF b, k, rest
  <2>6. RightFrom(<<parseSingleCmdLine(b)>> \o rest, s, k)
    BY <1>1, <1>2, <1>4, <2>4, <2>5, OneMoreRight
  <2> QED
    BY <2>1, <2>6 DEF k
<1> QED
  BY <1>3, <1>4

LEMMA ChainRight ==
    ASSUME NEW line, NEW s, Visible(line, s)
    PROVE  RightFrom(Chain(line), s, 1)
<1> DEFINE l == Len(line)
           f == ChainFound(line)
           Claim(n) == BeginsAt(s, n) => RightFrom(f[n], s, Bars(s, n) + 1)
           S == {m \in Nat : m <= l => \A n \in l - m .. l : Claim(n)}
<1>1. l \in Nat /\ line \in Seq(Tokens)
  BY DEF Visible
<1>2. f = [n \in 0 .. l |-> ChainStep(line, f, n)]
  BY <1>1, ChainFoundIs
<1>3. \A n \in 0 .. l : Next1(line, n) \in n + 1 .. l + 1
  BY <1>1, NextIs
<1>4. ASSUME NEW n \in 0 .. l, Next1(line, n) <= l => Claim(Next1(line, n)) PROVE Claim(n)
  <2> HIDE DEF f
  <2>1. BeginsAt(s, n) => RightFrom(ChainStep(line, f, n), s, Bars(s, n) + 1)
    BY <1>4, StepRight
  <2>2. f[n] = ChainStep(line, f, n)
    BY <1>2
  <2> QED
    BY <2>1, <2>2
<1> HIDE DEF f, Claim, l
<1>5. 0 \in S
  <2>1. ASSUME NEW n \in l - 0 .. l PROVE Claim(n)
    <3>1. n \in 0 .. l /\ ~ (Next1(line, n) <= l)
      BY <1>1, <1>3
    <3> QED
      BY <1>4, <3>1
  <2> QED
    BY <2>1
<1>6. ASSUME NEW m \in S PROVE m + 1 \in S
  <2>1. m \in Nat /\ m + 1 \in Nat /\ (m <= l => \A n \in l - m .. l : Claim(n))
    OBVIOUS
  <2>2. ASSUME m + 1 <= l, NEW n \in l - (m + 1) .. l PROVE Claim(n)
    <3>1. m <= l /\ n \in 0 .. l /\ n \in l - (m + 1) .. l
      BY <1>1, <2>1, <2>2
    <3>2. Next1(line, n) <= l => Next1(line, n) \in l - m .. l
      BY <1>1, <1>3, <2>1, <3>1
    <3> QED
      BY <1>4, <2>1, <3>1, <3>2
  <2> QED
    BY <2>1, <2>2
<1>7. S = Nat
  <2>1. S \in SUBSET Nat
    OBVIOUS
  <2> HIDE DEF S
  <2> QED
    BY <1>5, <1>6, <2>1, FromZero
<1>8. Claim(0)
  <2>1. l \in S
    BY <1>1, <1>7
  <2>2. 0 \in l - l .. l /\ l <= l
    BY <1>1
  <2> QED
    BY <2>1, <2>2
<1>9. Bars(s, 0) + 1 = 1 /\ BeginsAt(s, 0)
  <2>1. Bars(s, 0) = 0
    BY BarsNext
  <2> QED
    BY <2>1 DEF BeginsAt
<1> QED
  BY <1>8, <1>9, ChainFoundFor DEF Claim, f



-------------------------------------------------------------------------------
(* A line. *)

(* A new line can only be at the end of the buffer.                        *)
InBuffer(s) == s \in Seq(Tokens) /\ \A p \in 1 .. Len(s) : s[p] = "\n" => p = Len(s)

LEMMA StrippedIs ==
    ASSUME NEW s, InBuffer(s)
    PROVE  /\ stripped(s) \in Seq(Tokens)
           /\ Len(stripped(s)) \in 0 .. Len(s)
           /\ \A p \in 1 .. Len(stripped(s)) : stripped(s)[p] = s[p]
           /\ \A p \in 1 .. Len(s) : s[p] # "\n" <=> p <= Len(stripped(s))
<1>1. s \in Seq(Tokens) /\ Len(s) \in Nat /\ \A p \in 1 .. Len(s) : s[p] = "\n" => p = Len(s)
  BY DEF InBuffer
<1>2. s # << >> => Len(s) \in 1 .. Len(s) /\ Len(s) - 1 \in 0 .. Len(s)
  BY <1>1, EmptySeq
<1>3. CASE s # << >> /\ s[Len(s)] = "\n"
  <2> DEFINE t == SubSeq(s, 1, Len(s) - 1)
  <2>1. stripped(s) = t
    BY <1>3 DEF stripped
  <2>2. t \in Seq(Tokens) /\ Len(t) = Len(s) - 1 /\ \A p \in 1 .. Len(s) - 1 : t[p] = s[p]
    BY <1>1, <1>2, <1>3, Beginning
  <2> HIDE DEF t
  <2> QED
    BY <1>1, <1>2, <1>3, <2>1, <2>2
<1>4. CASE ~ (s # << >> /\ s[Len(s)] = "\n")
  <2>1. stripped(s) = s
    BY <1>4 DEF stripped
  <2>2. \A p \in 1 .. Len(s) : s[p] # "\n"
    <3>1. 1 .. Len(s) # {} => s # << >>
      OBVIOUS
    <3> QED
      BY <1>1, <1>4, <3>1
  <2> QED
    BY <1>1, <2>1, <2>2
<1> QED
  BY <1>3, <1>4

(* What _parseCmdLines is called with: all up to the first "&".            *)
LEMMA LineVisible ==
    ASSUME NEW s, InBuffer(s)
    PROVE  Visible(Before(stripped(s), {"&"}), s)
<1> DEFINE t == stripped(s)
           line == Before(t, {"&"})
<1>1. /\ t \in Seq(Tokens) /\ Len(t) \in 0 .. Len(s) /\ \A p \in 1 .. Len(t) : t[p] = s[p]
      /\ \A p \in 1 .. Len(s) : s[p] # "\n" <=> p <= Len(t)
  BY StrippedIs
<1>2. s \in Seq(Tokens) /\ Len(s) \in Nat /\ DOMAIN s = 1 .. Len(s)
  BY DEF InBuffer
<1> HIDE DEF t
<1>3. /\ line \in Seq(Tokens) /\ Len(line) \in 0 .. Len(t)
      /\ \A j \in 1 .. Len(line) : line[j] = t[j] /\ t[j] \notin {"&"}
      /\ Len(line) < Len(t) => t[Len(line) + 1] \in {"&"}
  BY <1>1, BeforeIs
<1> HIDE DEF line
<1>4. Len(line) <= Len(s) /\ Len(line) \in Nat /\ Len(t) \in Nat
  BY <1>1, <1>2, <1>3
<1>5. \A p \in 1 .. Len(line) : line[p] = s[p] /\ s[p] # "&"
  BY <1>1, <1>3, <1>4
<1>6. ASSUME NEW p \in 1 .. Len(s), s[p] # "\n", \A q \in 1 .. p : s[q] # "&"
      PROVE  p <= Len(line)
  <2>1. p <= Len(t) /\ p \in Nat
    BY <1>1, <1>6
  <2>2. ~ (Len(line) < p)
    <3>1. SUFFICES ASSUME Len(line) < p PROVE FALSE
      OBVIOUS
    <3>2. Len(line) < Len(t) /\ Len(line) + 1 \in 1 .. p /\ Len(line) + 1 \in 1 .. Len(t)
      BY <1>4, <2>1, <3>1
    <3>3. s[Len(line) + 1] = "&"
      BY <1>1, <1>3, <3>2
    <3> QED
      BY <1>6, <3>2, <3>3
  <2> QED
    BY <1>4, <2>1, <2>2
<1>7. ASSUME NEW p \in 1 .. Len(s), p <= Len(line)
      PROVE  s[p] # "\n" /\ \A q \in 1 .. p : s[q] # "&"
  <2>1. p <= Len(t) /\ \A q \in 1 .. p : q \in 1 .. Len(line)
    BY <1>3, <1>4, <1>7
  <2> QED
    BY <1>1, <1>5, <2>1
<1>8. \A p \in 1 .. Len(s) : (s[p] # "\n" /\ \A q \in 1 .. p : s[q] # "&") <=> p <= Len(line)
  BY <1>6, <1>7
<1> QED
  BY <1>2, <1>3, <1>4, <1>5, <1>8 DEF Visible, line, t

(* Any line is parsed as the reference says.                               *)
LEMMA LineRight ==
    ASSUME NEW s, InBuffer(s)
    PROVE  /\ parseCmdLines(s) \in Seq(CmdLines)
           /\ ParsedRight(s, parseCmdLines(s))
<1> DEFINE list == IF isEmpty(s) THEN << >> ELSE Chain(Before(stripped(s), {"&"}))
           field(i) == [command |-> list[i],
                        blocking |-> i = Len(list) /\ ~ Contains(s, "&"),
                        idx |-> i - 1]
           lines == [i \in DOMAIN list |-> field(i)]
<1>1. parseCmdLines(s) = lines
  BY DEF parseCmdLines
<1>2. s \in Seq(Tokens) /\ Len(s) \in Nat /\ DOMAIN s = 1 .. Len(s)
  BY DEF InBuffer
<1>3. RightFrom(list, s, 1)
  <2>1. CASE isEmpty(s)
    <3>1. BlankPart(s, 1)
      BY <2>1 DEF isEmpty, BlankPart, Part
    <3> QED
      BY <2>1, <3>1, NoneRight
  <2>2. CASE ~ isEmpty(s)
    <3>1. RightFrom(Chain(Before(stripped(s), {"&"})), s, 1)
      BY LineVisible, ChainRight
    <3> QED
      BY <2>2, <3>1
  <2> QED
    BY <2>1, <2>2
<1> HIDE DEF list
<1>4. list \in Seq(Commands) /\ Len(list) \in Nat /\ DOMAIN list = 1 .. Len(list)
  BY <1>3 DEF RightFrom
<1>5. ASSUME NEW i \in 1 .. Len(list) PROVE field(i) \in CmdLines
  <2>1. list[i] \in Commands /\ i - 1 \in Nat
    BY <1>4
  <2>2. (i = Len(list) /\ ~ Contains(s, "&")) \in BOOLEAN
    OBVIOUS
  <2> QED
    BY <2>1, <2>2 DEF CmdLines, Commands
<1>6. lines \in Seq(CmdLines) /\ Len(lines) = Len(list) /\ DOMAIN lines = 1 .. Len(list)
  <2> HIDE DEF field
  <2>1. lines \in [1 .. Len(list) -> CmdLines]
    BY <1>4, <1>5
  <2> HIDE DEF lines
  <2> QED
    BY <1>4, <2>1
<1>7. ASSUME NEW i \in 1 .. Len(list)
      PROVE  /\ lines[i].command = list[i]
             /\ lines[i].idx = i - 1
             /\ lines[i].blocking = (i = Len(list) /\ \A p \in DOMAIN s : s[p] # "&")
  <2>1. lines[i] = field(i)
    BY <1>4
  <2>2. ~ Contains(s, "&") <=> \A p \in DOMAIN s : s[p] # "&"
    BY <1>2 DEF Contains
  <2>3. (i = Len(list) /\ ~ Contains(s, "&")) = (i = Len(list) /\ \A p \in DOMAIN s : s[p] # "&")
    BY <2>2, Zenon
  <2> HIDE DEF lines
  <2> QED
    BY <2>1, <2>3
<1> HIDE DEF lines
<1>8. ParsedRight(s, lines)
  <2>1. BlankPart(s, Len(lines) + 1)
    <3>1. 1 + Len(list) = Len(lines) + 1
      BY <1>4, <1>6
    <3> QED
      BY <1>3, <3>1 DEF RightFrom
  <2>2. ASSUME NEW k \in 1 .. Len(list)
        PROVE  ~ BlankPart(s, k) /\ CommandRight(s, Part(s, k), list[k])
    <3>1. 1 + (k - 1) = k
      OBVIOUS
    <3> QED
      BY <1>3, <3>1 DEF RightFrom
  <2> QED
    BY <1>6, <1>7, <2>1, <2>2 DEF ParsedRight
<1> QED
  BY <1>1, <1>6, <1>8


-------------------------------------------------------------------------------
(* The lines of the shell. *)

LEMMA LineInBuffer == \A l \in Seq(Tokens \ {"\n"}) : InBuffer(l) /\ InBuffer(Append(l, "\n"))
<1> SUFFICES ASSUME NEW l \in Seq(Tokens \ {"\n"}) PROVE InBuffer(l) /\ InBuffer(Append(l, "\n"))
  OBVIOUS
<1>1. l \in Seq(Tokens)
  BY SeqMonotonic
<1>2. Len(l) \in Nat /\ \A p \in 1 .. Len(l) : l[p] # "\n"
  BY ElementOfSeq
<1>3. "\n" \in Tokens
  BY DEF Tokens, Separators
<1> DEFINE a == Append(l, "\n")
<1>4. a \in Seq(Tokens)
  BY <1>1, <1>3, AppendProperties
<1>5. Len(a) = Len(l) + 1 /\ \A p \in 1 .. Len(l) : a[p] = l[p]
  BY <1>1, <1>3, AppendProperties
<1> HIDE DEF a
<1>6. \A p \in 1 .. Len(a) : p # Len(a) => p \in 1 .. Len(l)
  BY <1>2, <1>5
<1>7. InBuffer(a)
  BY <1>2, <1>4, <1>5, <1>6 DEF InBuffer
<1> QED
  BY <1>1, <1>2, <1>7 DEF InBuffer, a

LEMMA ParsedIs ==
    ASSUME NEW l \in Buffers
    PROVE  /\ InBuffer(l)
           /\ Parsed[l] \in Seq(CmdLines)
           /\ ParsedRight(l, Parsed[l])
<1>1. InBuffer(l)
  BY LineInBuffer, ShellAssumption DEF Buffers
<1>2. Parsed = [k \in Buffers |-> parseCmdLines(k)]
  BY Zenon DEF Parsed
<1>3. Parsed[l] = parseCmdLines(l)
  BY <1>2
<1> QED
  BY <1>1, <1>3, LineRight


-------------------------------------------------------------------------------
(* The inductive invariant. *)

Types ==
    /\ version \in Versions
    /\ pc \in {"prompt", "read", "handle", "fork", "wait", "return",
               "exited", "crashed", "died", "replaced"}
    /\ input \in Buffers
    /\ ended \in BOOLEAN
    /\ mainCmd \in Seq(CmdLines)
    /\ curr \in 0 .. Len(mainCmd)
    /\ waits \in Seq(Slots)
    /\ cwd \in Dirs
    /\ procs \in [Slots -> [state : {"free", "forked", "running", "zombie"},
                            program : Words \cup {Tab, None},
                            awaited : BOOLEAN]]

Awaited == {waits[i] : i \in DOMAIN waits}

(* The children to be waited for are those in the list, each once.         *)
WaitsRight ==
    ~ ShellGone =>
        /\ \A p \in Slots : procs[p].awaited <=> p \in Awaited
        /\ \A i, j \in DOMAIN waits : waits[i] = waits[j] => i = j

FreeRight == \A p \in Slots : procs[p].state = "free" => ~ procs[p].awaited

(* Where the shell is, and what it has in hand there.                      *)
Stage ==
    /\ pc \in {"prompt", "read", "handle"} => curr = 0
    /\ pc \in {"handle", "fork", "wait", "crashed"} => mainCmd = Parsed[input]
    /\ pc \in {"prompt", "read", "handle", "return"} => waits = << >>
    /\ pc \in {"fork", "wait"} => version # "myshell"
    /\ pc = "fork" => curr + 1 \in Forked /\ Len(waits) = IF awaits THEN curr ELSE 0
    /\ pc = "wait" => waits # << >>
    /\ pc = "crashed" => ~ (IsPipe \/ HasCommand)

ShellInv == Types /\ WaitsRight /\ FreeRight /\ Stage

LEMMA InitInv == Init => ShellInv
<1> SUFFICES ASSUME Init PROVE ShellInv
  OBVIOUS
<1>1. << >> \in Seq(CmdLines) /\ << >> \in Seq(Slots) /\ Len(<< >>) = 0 /\ DOMAIN << >> = {}
  OBVIOUS
<1>2. Types
  <2>1. input \in Buffers /\ cwd \in Dirs
    BY ShellAssumption DEF Init, Buffers
  <2>2. NoProc \in [state : {"free", "forked", "running", "zombie"},
                    program : Words \cup {Tab, None},
                    awaited : BOOLEAN]
    BY DEF NoProc
  <2>3. curr \in 0 .. Len(mainCmd)
    BY <1>1 DEF Init
  <2> QED
    BY <1>1, <2>1, <2>2, <2>3 DEF Init, Types
<1>3. WaitsRight /\ FreeRight
  BY <1>1 DEF Init, WaitsRight, FreeRight, Awaited, NoProc
<1>4. Stage
  BY DEF Init, Stage
<1> QED
  BY <1>2, <1>3, <1>4 DEF ShellInv

(* The commands that are run are commands of the line.                     *)
LEMMA ForkedIs ==
    ASSUME mainCmd \in Seq(CmdLines)
    PROVE  /\ Forked \subseteq 1 .. Len(mainCmd)
           /\ ~ IsPipe => Forked \subseteq {1}
           /\ mainCmd # << >> => 1 \in Forked
<1>1. DOMAIN mainCmd = 1 .. Len(mainCmd) /\ Len(mainCmd) \in Nat
  OBVIOUS
<1>2. mainCmd # << >> => Len(mainCmd) >= 1
  BY EmptySeq
<1> QED
  BY <1>1, <1>2 DEF Forked, IsPipe

(* What leaves the list and the processes alone.                           *)
LEMMA Unmoved ==
    ASSUME WaitsRight, FreeRight, ~ ShellGone, UNCHANGED <<waits, procs>>
    PROVE  WaitsRight' /\ FreeRight'
BY DEF WaitsRight, FreeRight, Awaited

LEMMA MainKeeps ==
    ASSUME ShellInv, fgets \/ fgets_Null \/ Quit \/ EmptyLine \/ Parse \/ EndLine
    PROVE  ShellInv'
<1>1. WaitsRight' /\ FreeRight'
  <2>1. ~ ShellGone
    BY DEF fgets, fgets_Null, Quit, EmptyLine, Parse, EndLine, ShellGone
  <2>2. UNCHANGED <<waits, procs>>
    BY DEF fgets, fgets_Null, Quit, EmptyLine, Parse, EndLine
  <2> QED
    BY <2>1, <2>2, Unmoved DEF ShellInv
<1>2. << >> \in Seq(CmdLines) /\ Len(<< >>) = 0
  OBVIOUS
<1>3. CASE fgets
  <2>1. Types'
    BY <1>3 DEF fgets, ShellInv, Types, Buffers
  <2>2. Stage'
    BY <1>3 DEF fgets, ShellInv, Stage
  <2> QED
    BY <1>1, <2>1, <2>2 DEF ShellInv
<1>4. CASE fgets_Null
  <2>1. Types'
    BY <1>4 DEF fgets_Null, ShellInv, Types
  <2>2. Stage'
    BY <1>4 DEF fgets_Null, ShellInv, Stage
  <2> QED
    BY <1>1, <2>1, <2>2 DEF ShellInv
<1>5. CASE Quit \/ EmptyLine
  <2>1. Types'
    BY <1>5 DEF Quit, EmptyLine, ShellInv, Types
  <2>2. Stage'
    BY <1>5 DEF Quit, EmptyLine, ShellInv, Stage
  <2> QED
    BY <1>1, <2>1, <2>2 DEF ShellInv
<1>6. CASE Parse
  <2>1. input \in Buffers /\ curr = 0 /\ mainCmd' = Parsed[input]
    BY <1>6 DEF Parse, ShellInv, Types, Stage
  <2>2. mainCmd' \in Seq(CmdLines)
    BY <2>1, ParsedIs
  <2>3. curr' \in 0 .. Len(mainCmd')
    BY <1>6, <2>1, <2>2 DEF Parse
  <2>4. Types'
    BY <1>6, <2>2, <2>3 DEF Parse, ShellInv, Types
  <2>5. Stage'
    BY <1>6 DEF Parse, ShellInv, Stage
  <2> QED
    BY <1>1, <2>4, <2>5 DEF ShellInv
<1>7. CASE EndLine
  <2>1. Types'
    BY <1>2, <1>7 DEF EndLine, ShellInv, Types
  <2>2. Stage'
    BY <1>7 DEF EndLine, ShellInv, Stage
  <2> QED
    BY <1>1, <2>1, <2>2 DEF ShellInv
<1> QED
  BY <1>3, <1>4, <1>5, <1>6, <1>7

LEMMA HandleKeeps ==
    ASSUME ShellInv, Crash \/ cd_case \/ Run \/ execute_myshell
    PROVE  ShellInv'
<1>1. WaitsRight' /\ FreeRight'
  <2>1. ~ ShellGone
    BY DEF Crash, cd_case, Run, execute_myshell, ShellGone
  <2>2. UNCHANGED <<waits, procs>>
    BY DEF Crash, cd_case, Run, execute_myshell
  <2> QED
    BY <2>1, <2>2, Unmoved DEF ShellInv
<1>2. CASE Crash
  <2>1. Types'
    BY <1>2 DEF Crash, ShellInv, Types
  <2>2. Stage'
    BY <1>2 DEF Crash, ShellInv, Stage, IsPipe, HasCommand, Args
  <2> QED
    BY <1>1, <2>1, <2>2 DEF ShellInv
<1>3. CASE cd_case
  <2>1. cwd' \in Dirs
    BY <1>3, ShellAssumption DEF cd_case, ShellInv, Types
  <2>2. Types'
    BY <1>3, <2>1 DEF cd_case, ShellInv, Types
  <2>3. Stage'
    BY <1>3 DEF cd_case, ShellInv, Stage
  <2> QED
    BY <1>1, <2>2, <2>3 DEF ShellInv
<1>4. CASE Run
  <2>1. Types'
    BY <1>4 DEF Run, ShellInv, Types
  <2>2. mainCmd \in Seq(CmdLines) /\ curr = 0 /\ waits = << >>
    BY <1>4 DEF Run, ShellInv, Types, Stage
  <2>3. mainCmd # << >>
    <3>1. Len(<< >>) = 0
      OBVIOUS
    <3>2. IsPipe => mainCmd # << >>
      BY <2>2, <3>1 DEF IsPipe
    <3> QED
      BY <1>4, <3>2 DEF Run, HasCommand
  <2>4. curr + 1 \in Forked
    BY <2>2, <2>3, ForkedIs
  <2>5. Len(waits) = IF awaits THEN curr ELSE 0
    BY <2>2
  <2>6. UNCHANGED <<version, mainCmd, curr, waits, input>> /\ pc' = "fork" /\ pc = "handle"
    BY <1>4 DEF Run
  <2>7. Forked' = Forked /\ (awaits' <=> awaits)
    BY <2>6 DEF Forked, awaits, IsPipe
  <2>8. Stage'
    BY <1>4, <2>4, <2>5, <2>6, <2>7 DEF Run, ShellInv, Stage
  <2> QED
    BY <1>1, <2>1, <2>8 DEF ShellInv
<1>5. CASE execute_myshell
  <2>1. Types'
    BY <1>5 DEF execute_myshell, ShellInv, Types
  <2>2. Stage'
    BY <1>5 DEF execute_myshell, ShellInv, Stage
  <2> QED
    BY <1>1, <2>1, <2>2 DEF ShellInv
<1> QED
  BY <1>2, <1>3, <1>4, <1>5


ProcRecords == [state : {"free", "forked", "running", "zombie"},
                program : Words \cup {Tab, None},
                awaited : BOOLEAN]

(* The slot Fork takes is free.                                            *)
LEMMA LeastFree ==
    ASSUME FreeSlots # {}
    PROVE  Min(FreeSlots) \in Slots /\ procs[Min(FreeSlots)].state = "free"
<1>1. FreeSlots \in SUBSET Nat /\ FreeSlots \subseteq Int
  BY ShellAssumption DEF FreeSlots, Slots
<1>2. PICK m \in FreeSlots : \A y \in FreeSlots : m <= y
  BY <1>1, LeastElement
<1>3. Min(FreeSlots) = m
  BY <1>1, <1>2, LeastChosen, Zenon DEF Min
<1> QED
  BY <1>2, <1>3 DEF FreeSlots

LEMMA ForkKeeps == ASSUME ShellInv, Fork PROVE ShellInv'
<1> DEFINE p == Min(FreeSlots)
           argv == Args(curr + 1)
           new == [state |-> "forked",
                   program |-> IF argv = << >> THEN None ELSE argv[1],
                   awaited |-> awaits]
<1>1. /\ pc = "fork" /\ FreeSlots # {}
      /\ procs' = [procs EXCEPT ![p] = new]
      /\ waits' = IF awaits THEN Append(waits, p) ELSE waits
      /\ pc' = IF curr + 2 \in Forked THEN "fork" ELSE IF awaits THEN "wait" ELSE "return"
      /\ curr' = curr + 1
      /\ UNCHANGED <<version, input, ended, mainCmd, cwd>>
  BY DEF Fork
<1>2. p \in Slots /\ procs[p].state = "free" /\ ~ procs[p].awaited
  BY <1>1, LeastFree DEF ShellInv, FreeRight
<1>3. /\ mainCmd \in Seq(CmdLines) /\ curr \in Nat /\ waits \in Seq(Slots)
      /\ procs \in [Slots -> ProcRecords]
      /\ curr + 1 \in Forked /\ Len(waits) = IF awaits THEN curr ELSE 0
      /\ mainCmd = Parsed[input] /\ version # "myshell"
  BY <1>1 DEF ShellInv, Types, Stage, ProcRecords
<1>4. curr + 1 \in 1 .. Len(mainCmd)
  BY <1>3, ForkedIs
<1>5. /\ awaits \in BOOLEAN
  <2>1. mainCmd[1] \in CmdLines
    BY <1>3, <1>4
  <2> QED
    BY <2>1 DEF awaits, IsPipe, CmdLines
<1>6. new \in ProcRecords
  <2>1. argv \in Seq(Words \cup {Tab})
    <3>1. mainCmd[curr + 1] \in CmdLines
      BY <1>3, <1>4, ElementOfSeq
    <3> QED
      BY <3>1 DEF Args, CmdLines
  <2> HIDE DEF argv
  <2>2. argv # << >> => argv[1] \in Words \cup {Tab}
    BY <2>1, EmptySeq, ElementOfSeq
  <2> QED
    BY <1>5, <2>2 DEF ProcRecords
<1>7. new.awaited = awaits /\ new.state = "forked"
  OBVIOUS
<1> HIDE DEF p, argv, new
<1>8. waits' \in Seq(Slots)
  BY <1>1, <1>2, <1>3, AppendProperties
<1>9. Types'
  <2>1. procs' \in [Slots -> ProcRecords]
    BY <1>1, <1>2, <1>3, <1>6
  <2>2. curr' \in 0 .. Len(mainCmd')
    BY <1>1, <1>3, <1>4
  <2> QED
    BY <1>1, <1>8, <2>1, <2>2 DEF ShellInv, Types, ProcRecords
<1>10. \A q \in Slots : procs'[q] = IF q = p THEN new ELSE procs[q]
  BY <1>1, <1>2, <1>3
<1>11. /\ \A q \in Slots : procs[q].awaited <=> q \in Awaited
       /\ \A i, j \in DOMAIN waits : waits[i] = waits[j] => i = j
  BY <1>1 DEF ShellInv, WaitsRight, ShellGone
<1>12. WaitsRight'
  <2>1. CASE awaits
    <3>1. /\ Len(waits') = Len(waits) + 1 /\ waits'[Len(waits) + 1] = p
          /\ \A i \in 1 .. Len(waits) : waits'[i] = waits[i]
      BY <1>1, <1>2, <1>3, <2>1, AppendProperties
    <3>2. /\ DOMAIN waits = 1 .. Len(waits) /\ Len(waits) \in Nat
          /\ DOMAIN waits' = 1 .. Len(waits) + 1
      <4>1. DOMAIN waits' = 1 .. Len(waits')
        BY <1>8, LenProperties
      <4> QED
        BY <1>3, <3>1, <4>1, LenProperties
    <3>3. \A i \in DOMAIN waits : waits[i] # p
      BY <1>2, <1>11 DEF Awaited
    <3>4. \A q : (q \in Awaited)' <=> q \in Awaited \/ q = p
      BY <3>1, <3>2 DEF Awaited
    <3>5. \A q \in Slots : procs'[q].awaited <=> (q \in Awaited)'
      BY <1>7, <1>10, <1>11, <2>1, <3>4
    <3>6. \A i, j \in DOMAIN waits' : waits'[i] = waits'[j] => i = j
      BY <1>11, <3>1, <3>2, <3>3
    <3> QED
      BY <3>5, <3>6 DEF WaitsRight
  <2>2. CASE ~ awaits
    <3>1. waits' = waits
      BY <1>1, <2>2
    <3>2. \A q \in Slots : procs'[q].awaited <=> procs[q].awaited
      BY <1>2, <1>7, <1>10, <2>2
    <3> QED
      BY <1>11, <3>1, <3>2 DEF WaitsRight, Awaited
  <2> QED
    BY <2>1, <2>2
<1>13. FreeRight'
  BY <1>7, <1>10 DEF ShellInv, FreeRight
<1>14. Forked' = Forked /\ (awaits' <=> awaits)
  BY <1>1 DEF Forked, awaits, IsPipe
<1>15. Len(waits') = IF awaits THEN curr + 1 ELSE 0
  BY <1>1, <1>2, <1>3, AppendProperties
<1>16. Stage'
  <2>1. pc' = "fork" => (curr + 1) + 1 \in Forked
    BY <1>1, <1>3
  <2>2. (pc = "fork" => curr + 1 \in Forked /\ Len(waits) = IF awaits THEN curr ELSE 0)'
    BY <1>1, <1>14, <1>15, <2>1
  <2>3. awaits => waits' # << >>
    <3>1. awaits => Len(waits') # 0
      BY <1>3, <1>15
    <3> QED
      BY <3>1, EmptySeq
  <2>4. ~ awaits => waits' = << >>
    BY <1>8, <1>15, EmptySeq
  <2> QED
    BY <1>1, <1>3, <2>2, <2>3, <2>4 DEF Stage
<1> QED
  BY <1>9, <1>12, <1>13, <1>16 DEF ShellInv

(* If execute gives a command up, nothing is waited for.                   *)
LEMMA ForkFailsKeeps == ASSUME ShellInv, ForkFails PROVE ShellInv'
<1>1. WaitsRight' /\ FreeRight'
  <2>1. ~ ShellGone /\ UNCHANGED <<waits, procs>>
    BY DEF ForkFails, ShellGone
  <2> QED
    BY <2>1, Unmoved DEF ShellInv
<1>2. Types'
  BY DEF ForkFails, ShellInv, Types
<1>3. ASSUME ~ IsPipe PROVE waits = << >>
  <2>1. /\ mainCmd \in Seq(CmdLines) /\ waits \in Seq(Slots) /\ curr \in Nat
        /\ curr + 1 \in Forked /\ Len(waits) = IF awaits THEN curr ELSE 0
    BY DEF ForkFails, ShellInv, Types, Stage
  <2>2. curr + 1 = 1
    BY <1>3, <2>1, ForkedIs
  <2>3. Len(waits) = 0
    BY <2>1, <2>2
  <2> QED
    BY <2>1, <2>3, EmptySeq
<1>4. Stage'
  BY <1>3 DEF ForkFails, ShellInv, Stage
<1> QED
  BY <1>1, <1>2, <1>4 DEF ShellInv

LEMMA WaitKeeps == ASSUME ShellInv, Wait PROVE ShellInv'
<1> DEFINE p == Head(waits)
<1>1. /\ pc = "wait"
      /\ procs' = [procs EXCEPT ![p] = NoProc]
      /\ waits' = Tail(waits)
      /\ pc' = IF Len(waits) = 1 THEN "return" ELSE "wait"
      /\ UNCHANGED <<version, input, ended, mainCmd, curr, cwd>>
  BY DEF Wait, reaped
<1>2. /\ waits \in Seq(Slots) /\ waits # << >> /\ mainCmd = Parsed[input] /\ version # "myshell"
      /\ procs \in [Slots -> ProcRecords]
  BY <1>1 DEF ShellInv, Types, Stage, ProcRecords
<1>3. /\ Len(waits) \in Nat /\ Len(waits) >= 1 /\ DOMAIN waits = 1 .. Len(waits)
      /\ p = waits[1] /\ p \in Slots
  BY <1>2, EmptySeq, HeadTailProperties, LenProperties
<1>4. /\ waits' \in Seq(Slots) /\ Len(waits') = Len(waits) - 1
      /\ DOMAIN waits' = 1 .. Len(waits) - 1
      /\ \A i \in 1 .. Len(waits) - 1 : waits'[i] = waits[i + 1]
  BY <1>1, <1>2, HeadTailProperties, LenProperties
<1>5. NoProc \in ProcRecords /\ NoProc.awaited = FALSE
  BY DEF NoProc, ProcRecords
<1> HIDE DEF p
<1>6. \A q \in Slots : procs'[q] = IF q = p THEN NoProc ELSE procs[q]
  BY <1>1, <1>2, <1>3
<1>7. Types'
  <2>1. procs' \in [Slots -> ProcRecords]
    BY <1>1, <1>2, <1>3, <1>5
  <2> QED
    BY <1>1, <1>4, <2>1 DEF ShellInv, Types, ProcRecords
<1>8. WaitsRight'
  <2>1. /\ \A q \in Slots : procs[q].awaited <=> q \in Awaited
        /\ \A i, j \in DOMAIN waits : waits[i] = waits[j] => i = j
    BY <1>1 DEF ShellInv, WaitsRight, ShellGone
  <2>2. \A q : (q \in Awaited)' <=> q \in Awaited /\ q # p
    <3>1. ASSUME NEW i \in DOMAIN waits' PROVE waits'[i] \in Awaited /\ waits'[i] # p
      <4>1. i + 1 \in DOMAIN waits /\ i + 1 # 1 /\ 1 \in DOMAIN waits /\ waits'[i] = waits[i + 1]
        BY <1>3, <1>4
      <4> QED
        BY <1>3, <2>1, <4>1 DEF Awaited
    <3>2. ASSUME NEW i \in DOMAIN waits, waits[i] # p
          PROVE  \E j \in DOMAIN waits' : waits'[j] = waits[i]
      <4>1. i - 1 \in 1 .. Len(waits) - 1 /\ (i - 1) + 1 = i
        BY <1>3, <3>2
      <4>2. i - 1 \in DOMAIN waits' /\ waits'[i - 1] = waits[i]
        BY <1>4, <4>1
      <4> QED
        BY <4>2
    <3> QED
      BY <3>1, <3>2 DEF Awaited
  <2>3. \A q \in Slots : procs'[q].awaited <=> (q \in Awaited)'
    BY <1>5, <1>6, <2>1, <2>2
  <2>4. \A i, j \in DOMAIN waits' : waits'[i] = waits'[j] => i = j
    <3> SUFFICES ASSUME NEW i \in DOMAIN waits', NEW j \in DOMAIN waits', waits'[i] = waits'[j]
                 PROVE  i = j
      OBVIOUS
    <3>1. i + 1 \in DOMAIN waits /\ j + 1 \in DOMAIN waits /\ waits[i + 1] = waits[j + 1]
      BY <1>3, <1>4
    <3>2. i + 1 = j + 1 /\ i \in Int /\ j \in Int
      BY <1>3, <1>4, <2>1, <3>1
    <3> QED
      BY <3>2
  <2> QED
    BY <2>3, <2>4 DEF WaitsRight
<1>9. FreeRight'
  BY <1>5, <1>6 DEF ShellInv, FreeRight
<1>10. Stage'
  <2>1. Len(waits) = 1 => waits' = << >>
    BY <1>4, EmptySeq
  <2>2. Len(waits) # 1 => waits' # << >>
    BY <1>3, <1>4, EmptySeq
  <2> QED
    BY <1>1, <1>2, <2>1, <2>2 DEF Stage
<1> QED
  BY <1>7, <1>8, <1>9, <1>10 DEF ShellInv

LEMMA ChildKeeps == ASSUME ShellInv, NEW p \in Slots, ChildStep(p) PROVE ShellInv'
<1>1. UNCHANGED shell /\ procs \in [Slots -> ProcRecords]
  BY DEF ChildStep, Exec, End, Adopt, ShellInv, Types, ProcRecords
<1>2. UNCHANGED <<version, pc, input, ended, mainCmd, curr, waits, cwd>>
  BY <1>1 DEF shell
<1>3. Stage'
  <2>1. Forked' = Forked /\ (awaits' <=> awaits) /\ (IsPipe' <=> IsPipe) /\ (HasCommand' <=> HasCommand)
    BY <1>2 DEF Forked, awaits, IsPipe, HasCommand, Args
  <2> QED
    BY <1>2, <2>1 DEF ShellInv, Stage
<1>4. CASE Exec(p) \/ End(p)
  <2>1. PICK state \in {"running", "zombie"} : procs' = [procs EXCEPT ![p].state = state]
    BY <1>4 DEF Exec, End, Become
  <2>2. procs' \in [Slots -> ProcRecords]
    BY <1>1, <2>1 DEF ProcRecords
  <2>3. \A q \in Slots : /\ procs'[q].awaited = procs[q].awaited
                         /\ procs'[q].state = "free" => procs[q].state = "free"
    BY <1>1, <2>1 DEF ProcRecords
  <2>4. Types'
    BY <1>2, <2>2 DEF ShellInv, Types, ProcRecords
  <2>5. WaitsRight' /\ FreeRight'
    BY <1>2, <2>3 DEF ShellInv, WaitsRight, FreeRight, ShellGone, Awaited
  <2> QED
    BY <1>3, <2>4, <2>5 DEF ShellInv
<1>5. CASE Adopt(p)
  <2>1. ShellGone /\ procs' = [procs EXCEPT ![p] = NoProc]
    BY <1>5 DEF Adopt
  <2>2. NoProc \in ProcRecords /\ NoProc.awaited = FALSE
    BY DEF NoProc, ProcRecords
  <2>3. procs' \in [Slots -> ProcRecords]
    BY <1>1, <2>1, <2>2
  <2>4. Types'
    BY <1>2, <2>3 DEF ShellInv, Types, ProcRecords
  <2>5. WaitsRight'
    BY <1>2, <2>1 DEF WaitsRight, ShellGone
  <2>6. FreeRight'
    BY <1>1, <2>1, <2>2 DEF ShellInv, FreeRight
  <2> QED
    BY <1>3, <2>4, <2>5, <2>6 DEF ShellInv
<1> QED
  BY <1>4, <1>5 DEF ChildStep

LEMMA StutterKeeps == ASSUME ShellInv, UNCHANGED vars PROVE ShellInv'
<1>1. UNCHANGED <<version, pc, input, ended, mainCmd, curr, waits, cwd, procs>>
  BY DEF vars
<1>2. Types' /\ WaitsRight' /\ FreeRight'
  BY <1>1 DEF ShellInv, Types, WaitsRight, FreeRight, ShellGone, Awaited
<1>3. Forked' = Forked /\ (awaits' <=> awaits) /\ (IsPipe' <=> IsPipe) /\ (HasCommand' <=> HasCommand)
  BY <1>1 DEF Forked, awaits, IsPipe, HasCommand, Args
<1>4. Stage'
  BY <1>1, <1>3 DEF ShellInv, Stage
<1> QED
  BY <1>2, <1>4 DEF ShellInv

LEMMA Invariance == Spec => []ShellInv
<1>1. ShellInv /\ [Next]_vars => ShellInv'
  <2> SUFFICES ASSUME ShellInv, [Next]_vars PROVE ShellInv'
    OBVIOUS
  <2>1. CASE UNCHANGED vars
    BY <2>1, StutterKeeps
  <2>2. CASE \E p \in Slots : ChildStep(p)
    BY <2>2, ChildKeeps
  <2>3. CASE ShellStep
    <3>1. \/ fgets_Null \/ Quit \/ EmptyLine \/ Parse \/ EndLine
          \/ Crash \/ cd_case \/ Run \/ execute_myshell
          \/ Fork \/ ForkFails \/ Wait
      BY <2>3 DEF ShellStep, main_myshell, main_lab6, execute_lab6, main_task3,
                  handle_command_task3, execute_task3, task4, main, handle, fork_and_wait
    <3> QED
      BY <3>1, MainKeeps, HandleKeeps, ForkKeeps, ForkFailsKeeps, WaitKeeps
  <2>4. CASE fgets
    BY <2>4, MainKeeps
  <2> QED
    BY <2>1, <2>2, <2>3, <2>4 DEF Next
<1> QED
  BY InitInv, <1>1, PTL DEF Spec



-------------------------------------------------------------------------------
(* The properties. *)

LEMMA TypesFollow == ShellInv => ShellTypeOK
<1> SUFFICES ASSUME ShellInv PROVE ShellTypeOK
  OBVIOUS
<1>1. ~ ShellGone => \A i \in DOMAIN waits : procs[waits[i]].awaited
  <2> SUFFICES ASSUME ~ ShellGone, NEW i \in DOMAIN waits PROVE procs[waits[i]].awaited
    OBVIOUS
  <2>1. waits[i] \in Slots /\ waits[i] \in Awaited
    BY DEF ShellInv, Types, Awaited
  <2> QED
    BY <2>1 DEF ShellInv, WaitsRight
<1> QED
  BY <1>1 DEF ShellInv, Types, ShellTypeOK

LEMMA ParsedFollows ==
    ASSUME ShellInv, pc \in {"handle", "fork", "wait", "crashed"}
    PROVE  /\ InBuffer(input) /\ mainCmd \in Seq(CmdLines)
           /\ ParsedRight(input, mainCmd)
<1>1. input \in Buffers /\ mainCmd = Parsed[input]
  BY DEF ShellInv, Types, Stage
<1> QED
  BY <1>1, ParsedIs

LEMMA LineFollows == ShellInv => LineParsed
BY ParsedFollows DEF LineParsed

(* A line of more than one command has a bar.                              *)
LEMMA BarOf ==
    ASSUME NEW s, InBuffer(s), ~ BlankPart(s, 2)
    PROVE  Contains(s, "|")
<1>1. PICK p \in DOMAIN s : Bars(s, p) = 2 - 1
  BY DEF BlankPart, Part
<1>2. DOMAIN s = 1 .. Len(s) /\ Len(s) \in Nat /\ p \in 1 .. Len(s)
  BY DEF InBuffer
<1>3. Bars(s, p) = 1 /\ Bars(s, 0) = 0
  BY <1>1, BarsNext
<1>4. ~ \A q \in 0 + 1 .. p : s[q] # "|"
  <2>1. p \in Nat /\ 0 <= p
    BY <1>2
  <2> QED
    BY <1>3, <2>1, BarsBetween
<1> QED
  BY <1>2, <1>4 DEF Contains

LEMMA ReapedFollows == ShellInv => ForegroundReaped
<1> SUFFICES ASSUME ShellInv PROVE ForegroundReaped
  OBVIOUS
<1>1. pc \in {"prompt", "read", "handle"} => \A p \in Slots : ~ procs[p].awaited
  <2>1. DOMAIN << >> = {}
    OBVIOUS
  <2> QED
    BY <2>1 DEF ShellInv, Stage, WaitsRight, ShellGone, Awaited
<1>2. ASSUME pc = "fork", ~ awaits, ~ Contains(input, "&")
      PROVE  version = "lab6" /\ Contains(input, "|")
  <2>1. mainCmd \in Seq(CmdLines) /\ InBuffer(input) /\ ParsedRight(input, mainCmd)
    BY <1>2, ParsedFollows
  <2>2. Len(mainCmd) \in Nat /\ DOMAIN mainCmd = 1 .. Len(mainCmd)
    BY <2>1
  <2>3. Len(mainCmd) >= 1
    <3>1. curr + 1 \in Forked /\ curr \in Nat
      BY <1>2, <2>2 DEF ShellInv, Stage, Types
    <3> QED
      BY <2>1, <2>2, <3>1, ForkedIs
  <2>4. DOMAIN input = 1 .. Len(input)
    BY <2>1 DEF InBuffer
  <2>5. \A p \in DOMAIN input : input[p] # "&"
    BY <1>2, <2>4 DEF Contains
  <2>6. mainCmd[1].blocking = (1 = Len(mainCmd) /\ \A p \in DOMAIN input : input[p] # "&")
    BY <2>1, <2>2, <2>3 DEF ParsedRight
  <2>7. Len(mainCmd) > 1
    <3>1. ~ mainCmd[1].blocking
      BY <1>2, Zenon DEF awaits
    <3>2. 1 # Len(mainCmd)
      BY <2>5, <2>6, <3>1, Zenon
    <3> QED
      BY <2>2, <2>3, <3>2
  <2>8. ~ BlankPart(input, 2)
    BY <2>1, <2>2, <2>7 DEF ParsedRight
  <2>9. version = "lab6"
    BY <1>2, <2>7, ShellAssumption DEF awaits, IsPipe, ShellInv, Stage, Types
  <2> QED
    BY <2>1, <2>8, <2>9, BarOf
<1> QED
  BY <1>1, <1>2 DEF ForegroundReaped

(* In front of the first bar and the first "&" is the first part.          *)
LEMMA FirstPart ==
    ASSUME NEW s, InBuffer(s), NEW i \in 1 .. Len(s), s[i] # "\n",
           \A j \in 1 .. i : s[j] \notin {"|", "&"}
    PROVE  i \in Part(s, 1)
<1>1. DOMAIN s = 1 .. Len(s) /\ i \in Nat /\ i \in 1 .. i
  BY DEF InBuffer
<1>2. Bars(s, i) = 0
  <2>1. Bars(s, 0) = 0
    BY BarsNext
  <2>2. 0 <= i /\ \A q \in 0 + 1 .. i : s[q] # "|"
    BY <1>1
  <2> QED
    BY <1>1, <2>1, <2>2, BarsBetween
<1> QED
  BY <1>1, <1>2 DEF Part

(* A first command without words.                                          *)
LEMMA NoWordBefore ==
    ASSUME NEW s, InBuffer(s), NEW c, CommandRight(s, Part(s, 1), c), Len(c.arguments) = 0
    PROVE  ~ WordBefore(s, {"<", ">", "|", "&"})
<1> SUFFICES ASSUME NEW i \in DOMAIN s, IsWord(s[i]),
                    \A j \in 1 .. i : s[j] \notin {"<", ">", "|", "&"}
             PROVE  FALSE
  BY DEF WordBefore
<1> DEFINE places == ArgumentPlaces(s, Part(s, 1))
<1>1. DOMAIN s = 1 .. Len(s) /\ Len(s) \in Nat /\ i \in Nat
  BY DEF InBuffer
<1>2. i \in Part(s, 1)
  <2>1. s[i] # "\n"
    BY DEF IsWord, Separators
  <2> QED
    BY <1>1, <2>1, FirstPart
<1>3. Part(s, 1) \subseteq 1 .. Len(s)
  BY <1>1 DEF Part
<1>4. ASSUME NEW q \in Part(s, 1), s[q] \in {"<", ">"} PROVE i < q
  <2>1. q \in Nat /\ q >= 1 /\ q \notin 1 .. i
    BY <1>1, <1>3, <1>4
  <2> QED
    BY <1>1, <2>1
<1>5. i \in places /\ places \subseteq 1 .. Len(s)
  BY <1>2, <1>3, <1>4 DEF ArgumentPlaces
<1>6. 0 = Min({Cardinality(places), MAX_ARGUMENTS - 1})
  BY DEF CommandRight
<1> HIDE DEF places
<1>7. IsFiniteSet(places) /\ Cardinality(places) \in Nat /\ Cardinality(places) # 0
  BY <1>1, <1>5, CountFinite, FS_EmptySet
<1>8. MAX_ARGUMENTS - 1 \in Nat /\ MAX_ARGUMENTS - 1 # 0
  BY ParserAssumption
<1> QED
  BY <1>6, <1>7, <1>8, ShorterIs

LEMMA CrashFollows == ShellInv => CrashCause
<1> SUFFICES ASSUME ShellInv, pc = "crashed"
             PROVE  /\ ~ IsPipe
                    /\ \/ ~ WordBefore(input, {"<", ">", "|", "&"})
                       \/ \A i \in DOMAIN Before(input, {"|", "&"}) :
                            input[i] \in {Space, Tab, "\n"}
  BY DEF CrashCause
<1>1. mainCmd \in Seq(CmdLines) /\ InBuffer(input) /\ ParsedRight(input, mainCmd)
  BY ParsedFollows
<1>2. ~ IsPipe /\ ~ HasCommand
  BY DEF ShellInv, Stage
<1>3. CASE mainCmd = << >>
  <2>1. BlankPart(input, 1)
    <3>1. Len(mainCmd) + 1 = 1
      BY <1>3
    <3> QED
      BY <1>1, <3>1 DEF ParsedRight
  <2>2. ASSUME NEW i \in DOMAIN Before(input, {"|", "&"})
        PROVE  input[i] \in {Space, Tab, "\n"}
    <3> DEFINE b == Before(input, {"|", "&"})
    <3>1. /\ b \in Seq(Tokens) /\ Len(b) \in 0 .. Len(input) /\ input \in Seq(Tokens)
          /\ \A j \in 1 .. Len(b) : input[j] \notin {"|", "&"}
      BY <1>1, BeforeIs DEF InBuffer
    <3>2. i \in 1 .. Len(b)
      BY <2>2, <3>1
    <3> HIDE DEF b
    <3>3. i \in 1 .. Len(input) /\ \A j \in 1 .. i : input[j] \notin {"|", "&"}
      BY <3>1, <3>2
    <3>4. input[i] # "\n" => i \in Part(input, 1)
      BY <1>1, <3>3, FirstPart
    <3> QED
      BY <2>1, <3>4 DEF BlankPart
  <2> QED
    BY <1>2, <2>2
<1>4. CASE mainCmd # << >>
  <2>1. 1 \in DOMAIN mainCmd /\ mainCmd[1] \in CmdLines
    BY <1>1, <1>4, EmptySeq, ElementOfSeq
  <2>2. mainCmd[1].command.arguments = << >>
    BY <1>2, <1>4 DEF HasCommand, Args
  <2>3. CommandRight(input, Part(input, 1), mainCmd[1].command)
    BY <1>1, <2>1 DEF ParsedRight
  <2>4. Len(mainCmd[1].command.arguments) = 0
    BY <2>2
  <2> QED
    BY <1>1, <1>2, <2>3, <2>4, NoWordBefore
<1> QED
  BY <1>3, <1>4

(* The variables hold values of their types: ShellTypeOK is invariant.     *)
THEOREM ShellTypeCorrect == Spec => []ShellTypeOK
  BY Invariance, TypesFollow, PTL

(* Every line, of any length, whatever stands in it, is carried out as the *)
(* reference definition of the parser says (LineParser.c:48-162):          *)
(* LineParsed is invariant.                                                *)
THEOREM LinesParsed == Spec => []LineParsed
  BY Invariance, LineFollows, PTL

(* At the prompt no child is left that the shell meant to wait for, and    *)
(* only "&" (or a bar, in lab6) makes it not wait (task4.c:114-115 and     *)
(* 167-168): ForegroundReaped is invariant.                                *)
THEOREM ForegroundsReaped == Spec => []ForegroundReaped
  BY Invariance, ReapedFollows, PTL

(* The lines that crash the shell are those without a word where the       *)
(* program is looked for (task4.c:39-59): CrashCause is invariant.         *)
THEOREM CrashesExplained == Spec => []CrashCause
  BY Invariance, CrashFollows, PTL

============================================================================
