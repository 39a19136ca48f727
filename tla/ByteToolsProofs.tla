---------------------------- MODULE ByteToolsProofs ----------------------------
(***************************************************************************)
(* The binary compare program and patch, for all files, command lines and  *)
(* sizes of a page; then the programs that look at strings and files byte  *)
(* by byte.                                                                *)
(*                                                                         *)
(* What makes the list right is that it always holds, in ascending order,  *)
(* the differences among the bytes compared so far (Listed).  What makes a *)
(* restore right is where it stands: the bytes of the first elements are   *)
(* back, all others are as they were when the program started (Standing).  *)
(* So the element that is next is the lowest position at which the files   *)
(* still differ, which is what the abstract set of differences asks for.   *)
(*                                                                         *)
(* How long the list is depends on the options, which are scanned by a     *)
(* fold; FlagsAre says what the fold comes to for every command line.      *)
(* What patching removes is a matter of positions; NumeralRead says where  *)
(* a position typed in one base lies when it is read in a greater one: at  *)
(* the same place if it is one digit, and further on if it has more.       *)
(*                                                                         *)
(* Both versions of cmpstr decide at the first place where a string ends   *)
(* or the bytes differ, and so does the dictionary (FirstDecides), as the  *)
(* bytes behind it are worth less than the difference there.  The digits   *)
(* of a code stand for a byte because each shift leaves half of the number *)
(* and the digit is what is lost (DigitsStandFor).                         *)
(***************************************************************************)
EXTENDS ByteTools, CountLemmas, SequenceTheorems

Running == {"compare", "report", "restore"}

(* The list holds what has been compared, in ascending order. *)
Listed ==
    pc \in Running =>
        /\ \A k \in 1 .. Len(diffs) :
              /\ diffs[k].offset \in Differing(before)
              /\ diffs[k].offset < i
              /\ diffs[k].orig_value = orig[diffs[k].offset + 1]
              /\ diffs[k].new_value = before[diffs[k].offset + 1]
        /\ \A k, l \in 1 .. Len(diffs) : k < l => diffs[k].offset < diffs[l].offset
        /\ \A p \in Differing(before) :
              p < i => \E k \in 1 .. Len(diffs) : diffs[k].offset = p

(* The positions at which the first elements stand. *)
RestoredUpTo(n) == {diffs[k].offset : k \in 1 .. n}

Standing ==
    /\ pc \in {"compare", "report"} => new = before /\ restored = 0
    /\ pc = "restore" =>
         \A p \in DOMAIN new :
            new[p] = IF p - 1 \in RestoredUpTo(restored) THEN orig[p] ELSE before[p]

(* What was patched last is of interest between two runs only. *)
PatchedLast ==
    /\ pc # "idle" => patched.size = 0
    /\ PatchRestores

IInv == DiffTypeOK /\ before \in Files /\ Listed /\ Standing /\ PatchedLast

-------------------------------------------------------------------------------
(* Files, and the shorter of two. *)

LEMMA LeastIs ==
    ASSUME NEW S, S \subseteq Int, NEW m \in S, \A y \in S : m <= y
    PROVE  Min(S) = m
  BY LeastChosen, Zenon DEF Min

LEMMA ShorterIs ==
    ASSUME NEW a \in Nat, NEW b \in Nat
    PROVE  Min({a, b}) = IF a <= b THEN a ELSE b
<1>1. CASE a <= b
  <2>1. Min({a, b}) = a
    BY <1>1, LeastIs
  <2> QED
    BY <1>1, <2>1
<1>2. CASE ~ (a <= b)
  <2>1. Min({a, b}) = b
    BY <1>2, LeastIs
  <2> QED
    BY <1>2, <2>1
<1> QED
  BY <1>1, <1>2

LEMMA FileIs ==
    ASSUME NEW f
    PROVE  f \in Files <=> \E n \in 0 .. MaxLen : f \in [1 .. n -> Bytes]
  BY DEF Files, BoundedSeq, SeqOf

LEMMA FileLength ==
    ASSUME NEW f \in Files
    PROVE  /\ Len(f) \in 0 .. MaxLen
           /\ Len(f) \in Nat
           /\ DOMAIN f = 1 .. Len(f)
           /\ f \in [1 .. Len(f) -> Bytes]
<1>1. PICK n \in 0 .. MaxLen : f \in [1 .. n -> Bytes]
  BY FileIs
<1>2. n \in Nat
  BY DiffAssumption
<1>3. f \in Seq(Bytes) /\ Len(f) = n
  BY <1>1, <1>2
<1> QED
  BY <1>1, <1>2, <1>3

LEMMA FileFrom ==
    ASSUME NEW n \in 0 .. MaxLen, NEW f \in [1 .. n -> Bytes]
    PROVE  f \in Files /\ Len(f) = n
<1>1. n \in Nat
  BY DiffAssumption
<1>2. f \in Seq(Bytes) /\ Len(f) = n
  BY <1>1
<1> QED
  BY <1>2, FileIs

(* Where two files differ, both have a byte. *)
Between(f, g) == {p \in 0 .. Min({Len(f), Len(g)}) - 1 : f[p + 1] # g[p + 1]}

LEMMA DifferingIs ==
    /\ Differing(before) = Between(orig, before)
    /\ Differing(new) = Between(orig, new)
  BY DEF Differing, Between

LEMMA BetweenHas ==
    ASSUME NEW f \in Files, NEW g \in Files
    PROVE  \A p : p \in Between(f, g) <=> /\ p \in Nat
                                          /\ p < Len(f)
                                          /\ p < Len(g)
                                          /\ f[p + 1] # g[p + 1]
<1>1. Len(f) \in Nat /\ Len(g) \in Nat
  BY FileLength
<1>2. Min({Len(f), Len(g)}) = IF Len(f) <= Len(g) THEN Len(f) ELSE Len(g)
  BY <1>1, ShorterIs
<1> QED
  BY <1>1, <1>2 DEF Between

LEMMA BetweenFinite ==
    ASSUME NEW f \in Files, NEW g \in Files
    PROVE  /\ Between(f, g) \in SUBSET Nat
           /\ IsFiniteSet(Between(f, g))
           /\ Cardinality(Between(f, g)) \in Nat
<1>1. Len(f) \in Nat
  BY FileLength
<1>2. Between(f, g) \subseteq 0 .. Len(f)
  BY <1>1, BetweenHas
<1>3. IsFiniteSet(0 .. Len(f))
  BY <1>1, FS_Interval
<1>4. IsFiniteSet(Between(f, g))
  BY <1>2, <1>3, FS_Subset
<1> QED
  BY <1>1, <1>2, <1>4, FS_CardinalityType

-------------------------------------------------------------------------------
(* Types. *)

Difference == [offset : 0 .. MaxLen - 1, orig_value : Bytes, new_value : Bytes]

(* The byte being compared is in both files. *)
LEMMA ComparedByte ==
    ASSUME orig \in Files, new \in Files, i \in 0 .. MaxLen, i < compareSize
    PROVE  /\ i < Len(orig) /\ i < Len(new)
           /\ i \in 0 .. MaxLen - 1 /\ i + 1 \in 0 .. MaxLen /\ i \in Nat
           /\ orig[i + 1] \in Bytes /\ new[i + 1] \in Bytes
           /\ i + 1 \in DOMAIN orig /\ i + 1 \in DOMAIN new
<1> DEFINE n == Len(orig)  m == Len(new)
<1>1. n \in 0 .. MaxLen /\ m \in 0 .. MaxLen /\ MaxLen \in Nat /\ n \in Nat /\ m \in Nat
  BY FileLength, DiffAssumption
<1>2. orig \in [1 .. n -> Bytes] /\ new \in [1 .. m -> Bytes]
  BY FileLength
<1>3. compareSize = IF n <= m THEN n ELSE m
  BY <1>1, ShorterIs DEF compareSize
<1> HIDE DEF n, m
<1>4. i < n /\ i < m
  BY <1>1, <1>3
<1> QED
  BY <1>1, <1>2, <1>4 DEF n, m

LEMMA TypeInit == DiffInit => DiffTypeOK /\ before \in Files
<1> SUFFICES ASSUME DiffInit PROVE DiffTypeOK /\ before \in Files
  OBVIOUS
<1>1. << >> \in CommandLines /\ MaxLen \in Nat
  BY DiffAssumption
<1>2. Len(diffs) = 0 /\ diffs \in Seq(Difference)
  BY DEF DiffInit
<1> QED
  BY <1>1, <1>2 DEF DiffInit, DiffTypeOK, Difference

LEMMA TypeStart ==
    ASSUME DiffTypeOK, Start
    PROVE  DiffTypeOK' /\ before' \in Files
<1>1. << >> \in Files
  <2>1. << >> \in [1 .. 0 -> Bytes] /\ 0 \in 0 .. MaxLen
    BY DiffAssumption
  <2> QED
    BY <2>1, FileFrom
<1>2. orig' \in Files
  BY <1>1 DEF DiffTypeOK, Start
<1>3. Len(diffs') = 0 /\ diffs' \in Seq(Difference) /\ MaxLen \in Nat
  BY DiffAssumption DEF Start
<1> QED
  BY <1>2, <1>3 DEF Start, DiffTypeOK, Difference

LEMMA TypeCompare ==
    ASSUME DiffTypeOK, before \in Files, Compare
    PROVE  DiffTypeOK' /\ before' \in Files
<1>1. /\ UNCHANGED <<orig, new, opts, restored, before>>
      /\ pc' \in {"compare", "report"}
  BY DEF Compare
<1>2. CASE UNCHANGED <<diffs, countDiff>>
  <2>1. i' \in 0 .. MaxLen
    BY ComparedByte DEF Compare, DiffTypeOK
  <2> QED
    BY <1>1, <1>2, <2>1 DEF DiffTypeOK
<1>3. CASE ~ UNCHANGED <<diffs, countDiff>>
  <2> DEFINE d == [offset |-> i, orig_value |-> orig[i + 1], new_value |-> new[i + 1]]
  <2>1. diffs' = Append(diffs, d) /\ countDiff' = countDiff + 1 /\ i' = i + 1
    BY <1>3 DEF Compare, list_append
  <2>2. i' \in 0 .. MaxLen /\ d \in Difference
    BY <2>1, ComparedByte DEF Compare, DiffTypeOK, Difference
  <2> HIDE DEF d
  <2>3. diffs \in Seq(Difference) /\ countDiff = Len(diffs) /\ restored \in 0 .. Len(diffs)
    BY DEF DiffTypeOK, Difference
  <2>4. diffs' \in Seq(Difference) /\ countDiff' = Len(diffs')
        /\ Len(diffs') = Len(diffs) + 1 /\ Len(diffs) \in Nat
    BY <2>1, <2>2, <2>3
  <2>5. restored' \in 0 .. Len(diffs')
    BY <1>1, <2>3, <2>4
  <2> QED
    BY <1>1, <2>2, <2>4, <2>5 DEF DiffTypeOK, Difference
<1> QED
  BY <1>2, <1>3

LEMMA TypeReport ==
    ASSUME DiffTypeOK, before \in Files, Compared \/ Report \/ Restored \/ Kill
    PROVE  DiffTypeOK' /\ before' \in Files
<1>1. UNCHANGED <<new, run>> /\ pc' \in {"idle", "compare", "report", "restore"}
  BY DEF Compared, Report, Restored, Kill
<1>2. orig' \in Files
  <2>1. Text \in Files
    BY DiffAssumption DEF Files
  <2> QED
    BY <2>1 DEF Compared, Report, Restored, Kill, DiffTypeOK
<1> QED
  BY <1>1, <1>2 DEF DiffTypeOK, run

(* The difference that is restored next lies in both files. *)
LEMMA NextDifference ==
    ASSUME IInv, restoreOrig
    PROVE  /\ restored + 1 \in 1 .. Len(diffs)
           /\ restored \in Nat
           /\ diffs[restored + 1].offset \in Between(orig, before)
           /\ diffs[restored + 1].offset + 1 \in DOMAIN new
           /\ diffs[restored + 1].orig_value \in Bytes
<1> DEFINE d == diffs[restored + 1]
<1>1. Len(diffs) \in Nat /\ restored \in Nat /\ restored + 1 \in 1 .. Len(diffs)
  BY DEF IInv, DiffTypeOK, restoreOrig
<1>2. d \in Difference
  <2>1. diffs \in Seq(Difference)
    BY DEF IInv, DiffTypeOK, Difference
  <2> QED
    BY <1>1, <2>1
<1>3. d.offset \in Between(orig, before)
  BY <1>1, DifferingIs DEF IInv, Listed, restoreOrig, Running
<1> HIDE DEF d
<1>4. d.offset \in Nat /\ d.offset < Len(before) /\ d.orig_value \in Bytes
  BY <1>2, <1>3, BetweenHas DEF IInv, DiffTypeOK, Difference
<1>5. DOMAIN new = 1 .. Len(new) /\ Len(new) \in Nat /\ Len(new) = Len(before)
  BY FileLength DEF IInv, DiffTypeOK
<1>6. d.offset + 1 \in DOMAIN new
  BY <1>4, <1>5
<1> QED
  BY <1>1, <1>3, <1>4, <1>6 DEF d

LEMMA TypeRestore ==
    ASSUME IInv, restoreOrig
    PROVE  DiffTypeOK' /\ before' \in Files
<1> DEFINE d == diffs[restored + 1]
<1>1. /\ new' = [new EXCEPT ![d.offset + 1] = d.orig_value]
      /\ restored' = restored + 1
      /\ UNCHANGED <<pc, orig, opts, i, diffs, countDiff, before>>
  BY DEF restoreOrig, written
<1>2. d.orig_value \in Bytes /\ restored + 1 \in 1 .. Len(diffs) /\ restored \in Nat
  BY NextDifference
<1> HIDE DEF d
<1>3. Len(new) \in 0 .. MaxLen /\ new \in [1 .. Len(new) -> Bytes]
  BY FileLength DEF IInv, DiffTypeOK
<1>4. new' \in [1 .. Len(new) -> Bytes]
  BY <1>1, <1>2, <1>3
<1>5. new' \in Files /\ Len(new') = Len(new)
  BY <1>3, <1>4, FileFrom
<1> QED
  BY <1>1, <1>2, <1>5 DEF IInv, DiffTypeOK

-------------------------------------------------------------------------------
(* Positions as they are typed and printed.  The value of a numeral in the *)
(* higher base is larger, unless it is a single digit.                     *)

Placed(s, base, f, k) == IF k = 0 THEN 0 ELSE base * f[k - 1] + s[k]
Places(s, base) == CHOOSE value : value = [k \in 0 .. Len(s) |-> Placed(s, base, value, k)]

LEMMA NumberFor == ASSUME NEW s, NEW base PROVE number(s, base) = Places(s, base)[Len(s)]
  BY DEF number, Places, Placed

LEMMA PlacesAre ==
    ASSUME NEW s, NEW base, Len(s) \in Nat
    PROVE  \A k \in 0 .. Len(s) : Places(s, base)[k] = Placed(s, base, Places(s, base), k)
<1> DEFINE Fun(f, m) == [k \in 0 .. m |-> Placed(s, base, f, k)]
           S == {m \in Nat : \E f : f = Fun(f, m)}
<1>1. 0 \in S
  <2> DEFINE f == [k \in 0 .. 0 |-> 0]
  <2>1. f = Fun(f, 0)
    BY DEF Placed
  <2> QED
    BY <2>1
<1>2. ASSUME NEW m \in S PROVE m + 1 \in S
  <2>1. m \in Nat
    OBVIOUS
  <2>2. PICK f : f = Fun(f, m)
    OBVIOUS
  <2> DEFINE g == [k \in 0 .. m + 1 |-> IF k <= m THEN f[k] ELSE Placed(s, base, f, m + 1)]
  <2>3. ASSUME NEW k \in 0 .. m + 1 PROVE g[k] = Placed(s, base, g, k)
    <3>1. CASE k <= m
      <4>1. k \in 0 .. m
        BY <2>1, <3>1
      <4>2. f[k] = Placed(s, base, f, k)
        BY <2>2, <4>1
      <4>3. k # 0 => k - 1 \in 0 .. m + 1 /\ k - 1 <= m
        BY <2>1, <4>1
      <4> QED
        BY <3>1, <4>2, <4>3 DEF Placed
    <3>2. CASE k = m + 1
      <4>1. k # 0 /\ k - 1 \in 0 .. m + 1 /\ k - 1 = m /\ ~ (k <= m) /\ m <= m
        BY <2>1, <3>2
      <4> QED
        BY <2>1, <3>2, <4>1 DEF Placed
    <3> QED
      BY <2>1, <3>1, <3>2
  <2>4. g = Fun(g, m + 1)
    BY <2>3
  <2>5. \E f1 : f1 = Fun(f1, m + 1)
    <3> HIDE DEF g, Fun
    <3> QED
      BY <2>4
  <2> HIDE DEF Fun
  <2> QED
    BY <2>1, <2>5
<1>3. S = Nat
  <2>1. S \in SUBSET Nat
    OBVIOUS
  <2> HIDE DEF S
  <2> QED
    BY <1>1, <1>2, <2>1, FromZero
<1>4. \E f : f = Fun(f, Len(s))
  BY <1>3
<1>5. Places(s, base) = Fun(Places(s, base), Len(s))
  BY <1>4, Zenon DEF Places
<1> QED
  BY <1>5

LEMMA NumeralIs ==
    ASSUME NEW base \in Nat, NEW s \in Numerals(base)
    PROVE  /\ Len(s) \in Nat \ {0}
           /\ \A k \in 1 .. Len(s) : s[k] \in 0 .. base - 1
           /\ s[1] = 0 => Len(s) = 1
<1>1. s \in BoundedSeq(0 .. base - 1, MaxDigits) /\ s # << >> /\ (s[1] = 0 => Len(s) = 1)
  BY DEF Numerals
<1>2. PICK n \in 0 .. MaxDigits : s \in [1 .. n -> 0 .. base - 1]
  BY <1>1 DEF BoundedSeq, SeqOf
<1>3. n \in Nat /\ s \in Seq(0 .. base - 1) /\ Len(s) = n
  BY <1>2, DiffAssumption
<1>4. n # 0
  BY <1>1, <1>3, EmptySeq
<1> QED
  BY <1>1, <1>2, <1>3, <1>4

LEMMA NumeralValue ==
    ASSUME NEW base \in Nat, NEW s \in Numerals(base), NEW b \in Nat
    PROVE  /\ \A k \in 0 .. Len(s) : Places(s, b)[k] \in Nat
           /\ number(s, b) \in Nat
<1> DEFINE n == Len(s)
           v == Places(s, b)
           S == {m \in Nat : m <= n => v[m] \in Nat}
<1>1. n \in Nat \ {0} /\ \A k \in 1 .. n : s[k] \in 0 .. base - 1
  BY NumeralIs
<1>2. \A k \in 0 .. n : v[k] = Placed(s, b, v, k)
  BY <1>1, PlacesAre
<1> HIDE DEF n, v
<1>3. 0 \in S
  BY <1>1, <1>2 DEF Placed
<1>4. ASSUME NEW m \in S PROVE m + 1 \in S
  <2>1. m \in Nat
    OBVIOUS
  <2>2. ASSUME m + 1 <= n PROVE v[m + 1] \in Nat
    <3> DEFINE x == v[m]  d == s[m + 1]
    <3>1. m + 1 \in 0 .. n /\ m + 1 # 0 /\ m + 1 - 1 = m /\ m + 1 \in 1 .. n
      BY <1>1, <2>1, <2>2
    <3>2. x \in Nat
      BY <1>1, <2>1, <2>2
    <3>3. d \in Nat
      BY <1>1, <3>1
    <3>4. v[m + 1] = b * x + d
      BY <1>2, <3>1 DEF Placed
    <3> HIDE DEF x, d
    <3>5. b * x \in Nat
      BY <3>2
    <3> QED
      BY <3>3, <3>4, <3>5
  <2> QED
    BY <2>1, <2>2
<1>5. S = Nat
  <2>1. S \in SUBSET Nat
    OBVIOUS
  <2> HIDE DEF S
  <2> QED
    BY <1>3, <1>4, <2>1, FromZero
<1>6. \A k \in 0 .. n : v[k] \in Nat
  BY <1>1, <1>5
<1>7. number(s, b) = v[n]
  BY NumberFor DEF n, v
<1> QED
  BY <1>1, <1>6, <1>7 DEF n, v

LEMMA HigherBase ==
    ASSUME NEW a \in Nat, NEW b \in Nat, a < b, NEW x \in Nat, NEW y \in Nat, 1 <= x, x <= y
    PROVE  a * x < b * y /\ a <= a * x
<1>1. PICK c \in Nat : b = a + 1 + c
  <2>1. b - a - 1 \in Nat /\ b = a + 1 + (b - a - 1)
    OBVIOUS
  <2> QED
    BY <2>1
<1>2. PICK d \in Nat : y = x + d
  <2>1. y - x \in Nat /\ y = x + (y - x)
    OBVIOUS
  <2> QED
    BY <2>1
<1>3. PICK e \in Nat : x = 1 + e
  <2>1. x - 1 \in Nat /\ x = 1 + (x - 1)
    OBVIOUS
  <2> QED
    BY <2>1
<1>4. a * x \in Nat /\ a * d \in Nat /\ c * y \in Nat /\ a * e \in Nat
  OBVIOUS
<1>5. b * y = (a * y) + y + (c * y) /\ a * y = (a * x) + (a * d) /\ a * x = a + (a * e)
  BY <1>1, <1>2, <1>3
<1> DEFINE ax == a * x  ad == a * d  cy == c * y  ae == a * e  ay == a * y  bb == b * y
<1>6. ax \in Nat /\ ad \in Nat /\ cy \in Nat /\ ae \in Nat
      /\ bb = ay + y + cy /\ ay = ax + ad /\ ax = a + ae
  BY <1>4, <1>5
<1> HIDE DEF ax, ad, cy, ae, ay, bb
<1>7. ax < bb /\ a <= ax
  BY <1>6
<1> QED
  BY <1>7 DEF ax, bb

LEMMA NumeralRead ==
    ASSUME NEW s \in Numerals(ListBase)
    PROVE  number(s, PatchBase) = number(s, ListBase) <=> number(s, ListBase) < ListBase
<1> DEFINE n == Len(s)
           v == Places(s, ListBase)
           w == Places(s, PatchBase)
           Above(m) == v[m] < w[m] /\ ListBase <= v[m]
           S == {m \in Nat : m + 2 <= n => Above(m + 2)}
<1>1. ListBase \in Nat /\ PatchBase \in Nat /\ 1 < ListBase /\ ListBase < PatchBase
  BY DiffAssumption
<1>2. /\ n \in Nat \ {0} /\ \A k \in 1 .. n : s[k] \in 0 .. ListBase - 1
      /\ s[1] = 0 => n = 1
  BY <1>1, NumeralIs
<1>3. \A k \in 0 .. n : v[k] = Placed(s, ListBase, v, k) /\ w[k] = Placed(s, PatchBase, w, k)
  BY <1>2, PlacesAre
<1>4. \A k \in 0 .. n : v[k] \in Nat /\ w[k] \in Nat
  BY <1>1, NumeralValue
<1>5. number(s, ListBase) = v[n] /\ number(s, PatchBase) = w[n]
  BY NumberFor
<1> HIDE DEF n, v, w
<1>6. v[1] = s[1] /\ w[1] = s[1]
  <2>1. v[0] = 0 /\ w[0] = 0
    BY <1>2, <1>3 DEF Placed
  <2>2. v[1] = ListBase * v[0] + s[1] /\ w[1] = PatchBase * w[0] + s[1]
    BY <1>2, <1>3 DEF Placed
  <2>3. s[1] \in Nat
    BY <1>1, <1>2
  <2> QED
    BY <1>1, <2>1, <2>2, <2>3
<1>7. ASSUME NEW m \in Nat, m + 1 <= n, 1 <= m, 1 <= v[m], v[m] <= w[m] PROVE Above(m + 1)
  <2> DEFINE x == v[m]  y == w[m]  d == s[m + 1]  lx == ListBase * x  py == PatchBase * y
  <2>1. m + 1 \in 0 .. n /\ m \in 0 .. n /\ m + 1 \in 1 .. n /\ m + 1 # 0 /\ m + 1 - 1 = m
    BY <1>2, <1>7
  <2>2. x \in Nat /\ y \in Nat /\ 1 <= x /\ x <= y /\ d \in Nat
    BY <1>1, <1>2, <1>4, <1>7, <2>1
  <2>3. v[m + 1] = lx + d /\ w[m + 1] = py + d
    BY <1>3, <2>1 DEF Placed
  <2> HIDE DEF x, y, d
  <2>4. lx < py /\ ListBase <= lx
    BY <1>1, <2>2, HigherBase
  <2>5. lx \in Nat /\ py \in Nat
    BY <1>1, <2>2
  <2> HIDE DEF lx, py
  <2> QED
    BY <1>1, <2>2, <2>3, <2>4, <2>5
<1>8. 0 \in S
  <2>1. ASSUME 2 <= n PROVE Above(2)
    <3>1. s[1] \in Nat /\ s[1] # 0
      BY <1>1, <1>2, <2>1
    <3>2. 1 <= v[1] /\ v[1] <= w[1] /\ 1 + 1 <= n /\ 1 + 1 = 2
      BY <1>6, <2>1, <3>1
    <3> HIDE DEF Above
    <3> QED
      BY <1>7, <3>2
  <2> HIDE DEF Above
  <2> QED
    BY <2>1
<1>9. ASSUME NEW m \in S PROVE m + 1 \in S
  <2>1. m \in Nat /\ (m + 2 <= n => Above(m + 2))
    OBVIOUS
  <2>2. ASSUME m + 3 <= n PROVE Above(m + 3)
    <3> DEFINE q == m + 2
    <3>1. q \in Nat /\ q + 1 = m + 3 /\ q \in 0 .. n /\ 1 <= q
      BY <1>2, <2>1, <2>2
    <3>2. Above(q)
      BY <1>2, <2>1, <2>2
    <3>3. 1 <= v[q] /\ v[q] <= w[q]
      BY <1>1, <1>4, <3>1, <3>2
    <3> HIDE DEF q, Above
    <3>4. Above(q + 1)
      BY <1>7, <2>2, <3>1, <3>3
    <3> QED
      BY <3>1, <3>4
  <2>3. m + 1 + 2 = m + 3
    BY <2>1
  <2> HIDE DEF Above
  <2> QED
    BY <2>1, <2>2, <2>3
<1>10. S = Nat
  <2>1. S \in SUBSET Nat
    OBVIOUS
  <2> HIDE DEF S
  <2> QED
    BY <1>8, <1>9, <2>1, FromZero
<1>11. CASE n = 1
  <2>1. s[1] \in 0 .. ListBase - 1
    BY <1>11, <1>2
  <2> QED
    BY <1>1, <1>5, <1>6, <1>11, <2>1
<1>12. CASE n # 1
  <2>1. n - 2 \in Nat /\ n - 2 + 2 = n /\ n <= n
    BY <1>2, <1>12
  <2>2. Above(n)
    <3>1. n - 2 \in S
      BY <1>10, <2>1
    <3>2. Above(n - 2 + 2)
      BY <2>1, <3>1
    <3> HIDE DEF Above
    <3> QED
      BY <2>1, <3>2
  <2>3. v[n] \in Nat /\ w[n] \in Nat
    BY <1>2, <1>4
  <2> QED
    BY <1>1, <1>5, <2>2, <2>3
<1> QED
  BY <1>11, <1>12

-------------------------------------------------------------------------------
LEMMA PositionIs == ASSUME NEW s \in Positions PROVE strtol(s) \in Nat
<1>1. PatchBase \in Nat
  BY DiffAssumption
<1> QED
  BY <1>1, NumeralValue DEF Positions, strtol

(* What patch copies stays inside of the new file. *)
LEMMA Patched ==
    ASSUME DiffTypeOK, NEW src \in Nat, NEW dest \in Nat, NEW size \in 1 .. MaxLen,
           new' = memcpy(src, size, dest)
    PROVE  /\ DOMAIN new' = DOMAIN new
           /\ new' \in Files => Len(new') = Len(new)
           /\ \A p \in DOMAIN new :
                 new'[p] = IF p - 1 \in dest .. dest + size - 1
                           THEN IF p - dest + src \in DOMAIN orig THEN orig[p - dest + src] ELSE 0
                           ELSE new[p]
<1>1. DOMAIN new' = DOMAIN new
  BY DEF memcpy
<1>2. DOMAIN new = 1 .. Len(new) /\ Len(new) \in Nat
  BY FileLength DEF DiffTypeOK
<1>3. ASSUME new' \in Files PROVE Len(new') = Len(new)
  <2>1. PICK n \in 0 .. MaxLen : new' \in [1 .. n -> Bytes]
    BY <1>3, FileIs
  <2>2. Len(new') = n /\ n \in Nat /\ DOMAIN new' = 1 .. n
    BY <2>1, FileFrom, DiffAssumption
  <2>3. n = Len(new)
    <3> DEFINE m == Len(new)
    <3>1. 1 .. n = 1 .. m /\ n \in Nat /\ m \in Nat
      BY <1>1, <1>2, <2>2
    <3> HIDE DEF m
    <3>2. n <= m
      <4>1. n = 0 \/ n \in 1 .. n
        BY <3>1
      <4> QED
        BY <3>1, <4>1
    <3>3. m <= n
      <4>1. m = 0 \/ m \in 1 .. m
        BY <3>1
      <4> QED
        BY <3>1, <4>1
    <3> QED
      BY <3>1, <3>2, <3>3 DEF m
  <2> QED
    BY <2>2, <2>3
<1>4. \A p \in DOMAIN new :
         new'[p] = IF p - 1 \in dest .. dest + size - 1
                   THEN IF p - dest + src \in DOMAIN orig THEN orig[p - dest + src] ELSE 0
                   ELSE new[p]
  BY DEF memcpy
<1> QED
  BY <1>1, <1>3, <1>4

LEMMA TypePatch ==
    ASSUME DiffTypeOK, Patch
    PROVE  DiffTypeOK' /\ before' \in Files
<1>1. PICK src \in Positions, dest \in Positions, size \in 1 .. MaxLen :
         new' = memcpy(strtol(src), size, strtol(dest)) /\ new' \in Files
  BY DEF Patch
<1>2. Len(new') = Len(new)
  BY <1>1, PositionIs, Patched
<1>3. << >> \in CommandLines /\ MaxLen \in Nat /\ << >> \in Seq(Difference) /\ Len(<< >>) = 0
  BY DiffAssumption
<1> QED
  BY <1>1, <1>2, <1>3 DEF Patch, DiffTypeOK, Difference

-------------------------------------------------------------------------------
(* The list. *)

LEMMA InitInv == DiffInit => IInv
<1> SUFFICES ASSUME DiffInit PROVE IInv
  OBVIOUS
<1>1. pc = "idle" /\ patched.size = 0
  BY DEF DiffInit, NotPatched
<1> QED
  BY <1>1, TypeInit DEF IInv, Listed, Standing, PatchedLast, PatchRestores, Running

LEMMA StartInv == ASSUME IInv, Start PROVE IInv'
<1>1. DiffTypeOK' /\ before' \in Files
  BY TypeStart DEF IInv
<1>2. /\ pc' = "compare" /\ i' = 0 /\ diffs' = << >> /\ restored' = 0
      /\ new' = new /\ before' = new /\ patched'.size = 0
  BY DEF Start, NotPatched
<1>3. Listed'
  <2>1. \A p \in Differing(before)' : p \in Nat
    <3>1. Differing(before)' = Between(orig', before')
      BY DEF Differing, Between
    <3>2. orig' \in Files
      BY <1>1 DEF DiffTypeOK
    <3> QED
      BY <1>1, <3>1, <3>2, BetweenHas
  <2>2. Len(diffs') = 0
    BY <1>2
  <2> QED
    BY <1>2, <2>1, <2>2 DEF Listed
<1>4. Standing' /\ PatchedLast'
  BY <1>2 DEF Standing, PatchedLast, PatchRestores
<1> QED
  BY <1>1, <1>3, <1>4 DEF IInv

LEMMA CompareInv == ASSUME IInv, Compare PROVE IInv'
<1>1. DiffTypeOK' /\ before' \in Files
  BY TypeCompare DEF IInv
<1>2. /\ UNCHANGED <<orig, new, opts, restored, before, patched>>
      /\ pc = "compare" /\ pc' \in {"compare", "report"}
      /\ new = before
  BY DEF Compare, IInv, Standing
<1>3. i \in Nat /\ i < Len(orig) /\ i < Len(before) /\ Differing(before)' = Differing(before)
  BY <1>2, ComparedByte DEF IInv, DiffTypeOK, Compare, Differing
<1>4. orig \in Files /\ new \in Files /\ before \in Files
  BY DEF IInv, DiffTypeOK
<1>5. \A p : p \in Differing(before) <=> /\ p \in Nat
                                         /\ p < Len(orig)
                                         /\ p < Len(before)
                                         /\ orig[p + 1] # before[p + 1]
  BY <1>4, BetweenHas, DifferingIs
<1>6. Listed
  BY DEF IInv
<1>7. Listed'
  <2>1. CASE UNCHANGED <<diffs, i>>
    BY <1>2, <1>3, <1>6, <2>1 DEF Listed, Running
  <2>2. CASE diffs' = diffs /\ i' = i + 1 /\ orig[i + 1] = new[i + 1]
    <3>1. \A p \in Differing(before) : p < i + 1 => p < i
      BY <1>2, <1>3, <1>5, <2>2
    <3>2. \A p \in Differing(before) : p < i => p < i + 1
      BY <1>3, <1>5
    <3> QED
      BY <1>2, <1>3, <1>6, <2>2, <3>1, <3>2 DEF Listed, Running
  <2>3. CASE /\ orig[i + 1] # new[i + 1] /\ i' = i + 1
             /\ diffs' = Append(diffs, [offset |-> i, orig_value |-> orig[i + 1],
                                        new_value |-> new[i + 1]])
    <3> DEFINE d == [offset |-> i, orig_value |-> orig[i + 1], new_value |-> new[i + 1]]
               n == Len(diffs)
    <3>1. diffs \in Seq(Difference) /\ n \in Nat
      BY DEF IInv, DiffTypeOK, Difference
    <3>2. d.offset = i /\ d.orig_value = orig[i + 1] /\ d.new_value = before[i + 1]
      BY <1>2
    <3>3. i \in Differing(before)
      BY <1>2, <1>3, <1>5, <2>3
    <3> HIDE DEF d
    <3>4. Len(diffs') = n + 1 /\ diffs'[n + 1] = d /\ \A k \in 1 .. n : diffs'[k] = diffs[k]
      BY <2>3, <3>1 DEF d
    <3> HIDE DEF n
    <3>5. /\ \A k \in 1 .. n : /\ diffs[k].offset \in Differing(before)
                               /\ diffs[k].offset < i
                               /\ diffs[k].orig_value = orig[diffs[k].offset + 1]
                               /\ diffs[k].new_value = before[diffs[k].offset + 1]
          /\ \A k, l \in 1 .. n : k < l => diffs[k].offset < diffs[l].offset
          /\ \A p \in Differing(before) : p < i => \E k \in 1 .. n : diffs[k].offset = p
      BY <1>2, <1>6 DEF Listed, Running, n
    <3>6. ASSUME NEW k \in 1 .. n + 1
          PROVE  /\ diffs'[k].offset \in Differing(before)
                 /\ diffs'[k].offset < i + 1
                 /\ diffs'[k].orig_value = orig[diffs'[k].offset + 1]
                 /\ diffs'[k].new_value = before[diffs'[k].offset + 1]
      <4>1. CASE k = n + 1
        BY <1>3, <3>2, <3>3, <3>4, <4>1
      <4>2. CASE k # n + 1
        <5>1. k \in 1 .. n /\ diffs'[k] = diffs[k]
          BY <3>1, <3>4, <4>2 DEF n
        <5>2. diffs[k].offset \in Nat
          BY <1>5, <3>5, <5>1
        <5> QED
          BY <1>3, <3>5, <5>1, <5>2
      <4> QED
        BY <4>1, <4>2
    <3>7. ASSUME NEW k \in 1 .. n + 1, NEW l \in 1 .. n + 1, k < l
          PROVE  diffs'[k].offset < diffs'[l].offset
      <4>1. k \in 1 .. n /\ diffs'[k] = diffs[k]
        BY <3>1, <3>4, <3>7 DEF n
      <4>2. CASE l = n + 1
        BY <3>2, <3>4, <3>5, <4>1, <4>2
      <4>3. CASE l # n + 1
        <5>1. l \in 1 .. n /\ diffs'[l] = diffs[l]
          BY <3>1, <3>4, <4>3 DEF n
        <5> QED
          BY <3>5, <3>7, <4>1, <5>1
      <4> QED
        BY <4>2, <4>3
    <3>8. ASSUME NEW p \in Differing(before), p < i + 1
          PROVE  \E k \in 1 .. n + 1 : diffs'[k].offset = p
      <4>1. CASE p = i
        <5>1. n + 1 \in 1 .. n + 1
          BY <3>1 DEF n
        <5> QED
          BY <3>2, <3>4, <4>1, <5>1
      <4>2. CASE p # i
        <5>1. p < i
          BY <1>3, <1>5, <3>8, <4>2
        <5>2. PICK k \in 1 .. n : diffs[k].offset = p
          BY <3>5, <5>1
        <5>3. k \in 1 .. n + 1
          BY <3>1 DEF n
        <5> QED
          BY <3>4, <5>2, <5>3
      <4> QED
        BY <4>1, <4>2
    <3> QED
      BY <1>2, <1>3, <2>3, <3>4, <3>6, <3>7, <3>8 DEF Listed
  <2> QED
    BY <2>1, <2>2, <2>3 DEF Compare, list_append
<1>8. Standing' /\ PatchedLast'
  BY <1>2 DEF IInv, Standing, PatchedLast, PatchRestores
<1> QED
  BY <1>1, <1>7, <1>8 DEF IInv

(* A step that leaves the comparison as it is. *)
LEMMA KeptInv ==
    ASSUME IInv, UNCHANGED <<new, run, patched>>, orig' = orig \/ pc' = "idle",
           pc \in Running, pc' \in {"report", "restore", "idle"},
           pc \in {"report", "restore"} => pc' # "report",
           pc = "compare" => pc' # "restore"
    PROVE  Listed' /\ Standing' /\ PatchedLast'
<1>1. pc # "idle" /\ patched.size = 0
  BY DEF IInv, PatchedLast, Running
<1>2. PatchedLast'
  BY <1>1 DEF PatchedLast, PatchRestores
<1>3. CASE pc' = "idle"
  BY <1>2, <1>3 DEF Listed, Standing, Running
<1>4. CASE pc' # "idle"
  <2>1. UNCHANGED <<orig, before, diffs, i, restored>>
    BY <1>4 DEF run
  <2>2. Listed'
    BY <1>4, <2>1 DEF IInv, Listed, Differing, Running
  <2>3. Standing'
    <3>1. CASE pc \in {"compare", "report"}
      <4>1. new = before /\ restored = 0
        BY <3>1 DEF IInv, Standing
      <4>2. RestoredUpTo(restored)' = {}
        BY <2>1, <4>1 DEF RestoredUpTo
      <4> QED
        BY <2>1, <4>1, <4>2 DEF Standing
    <3>2. CASE pc = "restore"
      BY <2>1, <3>2 DEF IInv, Standing, RestoredUpTo
    <3> QED
      BY <3>1, <3>2 DEF Running
  <2> QED
    BY <1>2, <2>2, <2>3
<1> QED
  BY <1>3, <1>4

LEMMA ReportInv ==
    ASSUME IInv, Compared \/ Report \/ Restored \/ Kill
    PROVE  IInv'
<1>1. DiffTypeOK' /\ before' \in Files
  BY TypeReport DEF IInv
<1>2. /\ UNCHANGED <<new, run, patched>> /\ (orig' = orig \/ pc' = "idle")
      /\ pc \in Running /\ pc' \in {"report", "restore", "idle"}
      /\ pc \in {"report", "restore"} => pc' # "report"
      /\ pc = "compare" => pc' # "restore"
  BY DEF Compared, Report, Restored, Kill, Running
<1> QED
  BY <1>1, <1>2, KeptInv DEF IInv

(* One more position is as it was in the original file. *)
LEMMA RestoreInv == ASSUME IInv, restoreOrig PROVE IInv'
<1> DEFINE d == diffs[restored + 1]
<1>1. DiffTypeOK' /\ before' \in Files
  BY TypeRestore
<1>2. /\ new' = [new EXCEPT ![d.offset + 1] = d.orig_value]
      /\ restored' = restored + 1
      /\ pc = "restore"
      /\ UNCHANGED <<pc, orig, opts, i, diffs, countDiff, before, patched>>
  BY DEF restoreOrig, written
<1>3. /\ restored + 1 \in 1 .. Len(diffs) /\ restored \in Nat
      /\ d.offset \in Between(orig, before)
  BY NextDifference
<1>4. d.orig_value = orig[d.offset + 1]
  BY <1>2, <1>3 DEF IInv, Listed, Running
<1>5. d.offset \in Nat
  BY <1>3, BetweenHas DEF IInv, DiffTypeOK
<1>6. RestoredUpTo(restored)' = RestoredUpTo(restored) \cup {d.offset}
  <2>1. 1 .. restored + 1 = (1 .. restored) \cup {restored + 1}
    BY <1>3
  <2> QED
    BY <1>2, <2>1 DEF RestoredUpTo
<1> HIDE DEF d
<1>7. Listed' /\ PatchedLast'
  BY <1>2 DEF IInv, Listed, PatchedLast, PatchRestores, Running, Differing
<1>8. Standing'
  <2>1. ASSUME NEW p \in DOMAIN new
        PROVE  new'[p] = IF p - 1 \in RestoredUpTo(restored)' THEN orig[p] ELSE before[p]
    <3>1. p \in Int
      BY FileLength DEF IInv, DiffTypeOK
    <3>2. new[p] = IF p - 1 \in RestoredUpTo(restored) THEN orig[p] ELSE before[p]
      BY <1>2 DEF IInv, Standing
    <3>3. CASE p = d.offset + 1
      <4>1. p - 1 = d.offset
        BY <1>5, <3>3
      <4> QED
        BY <1>2, <1>4, <1>6, <3>3, <4>1
    <3>4. CASE p # d.offset + 1
      <4>1. p - 1 # d.offset
        BY <1>5, <3>1, <3>4
      <4> QED
        BY <1>2, <1>6, <3>2, <3>4, <4>1
    <3> QED
      BY <3>3, <3>4
  <2>2. DOMAIN new' = DOMAIN new
    BY <1>2
  <2> QED
    BY <1>2, <2>1, <2>2 DEF Standing
<1> QED
  BY <1>1, <1>7, <1>8 DEF IInv

-------------------------------------------------------------------------------
(* Patching at equal positions removes the differences in its range, which *)
(* begins at the position that the list names if that is one digit.        *)

LEMMA PatchInv == ASSUME IInv, Patch PROVE IInv'
<1>1. DiffTypeOK' /\ before' \in Files
  BY TypePatch DEF IInv
<1> DEFINE value(t) == strtol(t)
<1>2. PICK from \in Positions, to \in Positions, size \in 1 .. MaxLen :
         /\ new' = memcpy(value(from), size, value(to)) /\ new' \in Files
         /\ patched' = [src |-> from, size |-> size, dest |-> to]
  BY DEF Patch
<1> DEFINE src == value(from)
           dest == value(to)
<1>3. /\ pc = "idle" /\ pc' = "idle" /\ before' = new /\ orig' = orig
      /\ orig \in Files /\ new \in Files
      /\ patched'.src = from /\ patched'.dest = to /\ patched'.size = size
  BY <1>2 DEF Patch, IInv, DiffTypeOK
<1>10. src \in Nat /\ dest \in Nat /\ new' = memcpy(src, size, dest)
  BY <1>2, PositionIs
<1> HIDE DEF src, dest
<1>4. ASSUME src = dest
      PROVE  Between(orig, new') = Between(orig, new) \ (dest .. dest + size - 1)
  <2> DEFINE range == dest .. dest + size - 1
  <2>1. DOMAIN new = 1 .. Len(new) /\ DOMAIN orig = 1 .. Len(orig)
        /\ Len(new) \in Nat /\ Len(orig) \in Nat
    BY <1>3, FileLength
  <2>2. Len(new') = Len(new)
    BY <1>2, <1>10, Patched DEF IInv
  <2>3. dest \in Nat
    BY <1>10
  <2>4. ASSUME NEW p \in Nat, p < Len(orig), p < Len(new)
        PROVE  new'[p + 1] = IF p \in range THEN orig[p + 1] ELSE new[p + 1]
    <3> DEFINE q == p + 1
    <3>1. q \in DOMAIN new /\ q \in DOMAIN orig /\ q - 1 = p
      BY <2>1, <2>4
    <3>2. q - dest + src = q
      BY <1>4, <2>3
    <3> HIDE DEF q
    <3>3. new'[q] = IF q - 1 \in range
                    THEN IF q - dest + src \in DOMAIN orig THEN orig[q - dest + src] ELSE 0
                    ELSE new[q]
      BY <1>10, <3>1, Patched DEF IInv
    <3> HIDE DEF range
    <3>4. new'[q] = IF p \in range THEN orig[q] ELSE new[q]
      BY <3>1, <3>2, <3>3, Zenon
    <3> QED
      BY <3>4 DEF q
  <2> HIDE DEF range
  <2>5. ASSUME NEW p
        PROVE  p \in Between(orig, new') <=> p \in Between(orig, new) /\ p \notin range
    <3>1. p \in Between(orig, new') <=>
             p \in Nat /\ p < Len(orig) /\ p < Len(new) /\ orig[p + 1] # new'[p + 1]
      BY <1>2, <1>3, <2>2, BetweenHas
    <3>2. p \in Between(orig, new) <=>
             p \in Nat /\ p < Len(orig) /\ p < Len(new) /\ orig[p + 1] # new[p + 1]
      BY <1>3, BetweenHas
    <3> QED
      BY <2>4, <3>1, <3>2
  <2> QED
    BY <2>5 DEF range
<1>5. PatchRestores'
  <2>1. Differing(new)' = Between(orig, new') /\ Differing(before)' = Between(orig, new)
    BY <1>3 DEF Differing, Between
  <2>2. ASSUME from = to
        PROVE  Between(orig, new') = Between(orig, new) \ (strtol(to) .. strtol(to) + size - 1)
    BY <1>4, <2>2 DEF src, dest
  <2>3. ASSUME from = to, NEW p \in Between(orig, new), list_print(to, p), size = 1
        PROVE  p \in Between(orig, new') <=> p >= ListBase
    <3>1. to \in Numerals(ListBase) /\ p = number(to, ListBase)
      BY <2>3 DEF list_print
    <3>2. dest = p <=> p < ListBase
      BY <3>1, NumeralRead DEF dest, strtol
    <3>3. p \in Nat /\ ListBase \in Nat
      BY <1>3, BetweenHas, DiffAssumption
    <3>4. p \in Between(orig, new') <=> p \notin dest .. dest + size - 1
      BY <1>4, <2>3 DEF src, dest
    <3>5. dest + size - 1 = dest
      BY <1>10, <2>3
    <3>6. p \in dest .. dest <=> p = dest
      BY <1>10, <3>3
    <3>7. p \in Between(orig, new') <=> p # dest
      BY <3>4, <3>5, <3>6, Zenon
    <3> DEFINE kept == p \in Between(orig, new')
    <3> HIDE DEF kept
    <3>8. kept <=> p >= ListBase
      BY <3>2, <3>3, <3>7 DEF kept
    <3> QED
      BY <3>8 DEF kept
  <2>4. strtol(to)' = strtol(to) /\ \A p : list_print(to, p)' = list_print(to, p)
    BY DEF strtol, list_print
  <2> QED
    BY <1>3, <2>1, <2>2, <2>3 DEF PatchRestores
<1> QED
  BY <1>1, <1>3, <1>5 DEF IInv, Listed, Standing, PatchedLast, Running

LEMMA KeepsInv == ASSUME IInv, UNCHANGED diffVars PROVE IInv'
<1> USE DEF diffVars, run
<1>1. DiffTypeOK' /\ before' \in Files
  BY DEF IInv, DiffTypeOK
<1>2. Listed'
  BY DEF IInv, Listed, Running, Differing
<1>3. Standing'
  BY DEF IInv, Standing, RestoredUpTo
<1>4. PatchedLast'
  BY DEF IInv, PatchedLast, PatchRestores, Differing
<1> QED
  BY <1>1, <1>2, <1>3, <1>4 DEF IInv

LEMMA Inv == ToolsSpec => []IInv
<1>1. IInv /\ [DiffNext]_diffVars => IInv'
  BY StartInv, CompareInv, ReportInv, RestoreInv, PatchInv, KeepsInv DEF DiffNext
<1> QED
  BY <1>1, InitInv, PTL DEF ToolsSpec

(* The variables keep their types: restoring and patching neither write    *)
(* behind the end of the new file nor cut it off.                          *)
THEOREM DiffTypeCorrect == ToolsSpec => []DiffTypeOK
<1>1. IInv => DiffTypeOK
  BY DEF IInv
<1> QED
  BY <1>1, Inv, PTL

(* Patching at equal positions removes exactly the differences in the      *)
(* range that starts where the position is in base 16; a difference that   *)
(* is patched at the position the list names it by stays unless that is a  *)
(* single digit.  For every length of the files and of what is typed, any  *)
(* size of a page and any two bases of which the list's is the lower one.  *)
THEOREM PatchingRestores == ToolsSpec => []PatchRestores
<1>1. IInv => PatchRestores
  BY DEF IInv, PatchedLast
<1> QED
  BY <1>1, Inv, PTL

-------------------------------------------------------------------------------
(* The abstract set of differences. *)

(* Elements of the list stand at as many positions. *)
LEMMA ListCount ==
    ASSUME IInv, pc \in Running, NEW n \in 0 .. Len(diffs)
    PROVE  IsFiniteSet(RestoredUpTo(n)) /\ Cardinality(RestoredUpTo(n)) = n
<1> DEFINE f == [k \in 1 .. n |-> diffs[k].offset]
           T == RestoredUpTo(n)
<1>1. n \in Nat /\ \A k \in 1 .. n : k \in 1 .. Len(diffs)
  BY DEF IInv, DiffTypeOK
<1>2. \A k, l \in 1 .. n : k < l => diffs[k].offset < diffs[l].offset
  BY <1>1 DEF IInv, Listed
<1>3. \A k \in 1 .. n : diffs[k].offset \in Nat
  BY <1>1, DifferingIs, BetweenHas DEF IInv, Listed, DiffTypeOK
<1>4. f \in Injection(1 .. n, T)
  <2>1. f \in [1 .. n -> T]
    BY DEF RestoredUpTo
  <2>2. \A k, l \in 1 .. n : k # l => k < l \/ l < k
    BY <1>1
  <2>3. \A k, l \in 1 .. n : f[k] = f[l] => k = l
    BY <1>2, <1>3, <2>2
  <2> QED
    BY <2>1, <2>3 DEF Injection, IsInjective
<1>5. f \in Surjection(1 .. n, T)
  <2>1. f \in [1 .. n -> T] /\ \A p \in T : \E k \in 1 .. n : f[k] = p
    BY DEF RestoredUpTo
  <2> QED
    BY <2>1 DEF Surjection
<1>6. ExistsBijection(1 .. n, T)
  BY <1>4, <1>5 DEF Bijection, ExistsBijection
<1>7. Cardinality(T) = n
  BY <1>1, <1>6, FS_CountingElements
<1>8. IsFiniteSet(T)
  BY <1>1, <1>6, FS_NatBijection
<1> QED
  BY <1>7, <1>8

(* The list never holds more than there is. *)
LEMMA ListedAreSome ==
    ASSUME IInv, pc \in Running
    PROVE  /\ RestoredUpTo(Len(diffs)) \subseteq Differing(before)
           /\ Len(diffs) \in 0 .. Cardinality(Differing(before))
<1>1. Len(diffs) \in Nat
  BY DEF IInv, DiffTypeOK
<1>2. RestoredUpTo(Len(diffs)) \subseteq Differing(before)
  BY DEF IInv, Listed, RestoredUpTo
<1>3. IsFiniteSet(Differing(before)) /\ Cardinality(Differing(before)) \in Nat
  BY BetweenFinite, DifferingIs DEF IInv, DiffTypeOK
<1>4. Cardinality(RestoredUpTo(Len(diffs))) = Len(diffs)
  BY <1>1, ListCount
<1>5. Cardinality(RestoredUpTo(Len(diffs))) <= Cardinality(Differing(before))
  BY <1>2, <1>3, FS_Subset
<1> QED
  BY <1>1, <1>2, <1>3, <1>4, <1>5

(* What has not been restored still differs. *)
LEMMA StillDiffers ==
    IInv /\ pc = "restore" => Differing(new) = Differing(before) \ RestoredUpTo(restored)
<1> SUFFICES ASSUME IInv, pc = "restore"
             PROVE  Differing(new) = Differing(before) \ RestoredUpTo(restored)
  OBVIOUS
<1>1. orig \in Files /\ new \in Files /\ before \in Files /\ Len(before) = Len(new)
  BY DEF IInv, DiffTypeOK
<1>2. DOMAIN new = 1 .. Len(new) /\ Len(new) \in Nat
  BY <1>1, FileLength
<1>3. ASSUME NEW p \in Nat, p < Len(new)
      PROVE  new[p + 1] = IF p \in RestoredUpTo(restored) THEN orig[p + 1] ELSE before[p + 1]
  <2> DEFINE q == p + 1
  <2>1. q \in DOMAIN new /\ q - 1 = p
    BY <1>2, <1>3
  <2> HIDE DEF q
  <2>2. new[q] = IF q - 1 \in RestoredUpTo(restored) THEN orig[q] ELSE before[q]
    BY <2>1 DEF IInv, Standing
  <2> QED
    BY <2>1, <2>2 DEF q
<1>4. ASSUME NEW p
      PROVE  p \in Differing(new) <=> p \in Differing(before) /\ p \notin RestoredUpTo(restored)
  <2>1. p \in Differing(new) <=>
           p \in Nat /\ p < Len(orig) /\ p < Len(new) /\ orig[p + 1] # new[p + 1]
    BY <1>1, BetweenHas, DifferingIs
  <2>2. p \in Differing(before) <=>
           p \in Nat /\ p < Len(orig) /\ p < Len(new) /\ orig[p + 1] # before[p + 1]
    BY <1>1, BetweenHas, DifferingIs
  <2> QED
    BY <1>3, <2>1, <2>2
<1> QED
  BY <1>4

(* The element that is next is the lowest position that still differs. *)
LEMMA LowestIsNext ==
    ASSUME IInv, restoreOrig
    PROVE  Set!Min(Differing(new)) = diffs[restored + 1].offset
<1> DEFINE low == diffs[restored + 1].offset
<1>1. /\ pc = "restore" /\ restored \in Nat /\ restored + 1 \in 1 .. Len(diffs)
      /\ Len(diffs) \in Nat
  BY NextDifference DEF restoreOrig, IInv, DiffTypeOK
<1>2. Differing(new) = Differing(before) \ RestoredUpTo(restored)
  BY <1>1, StillDiffers
<1>3. \A p \in Differing(before) : p \in Nat
  BY BetweenHas, DifferingIs DEF IInv, DiffTypeOK
<1>4. /\ \A k \in 1 .. Len(diffs) : diffs[k].offset \in Differing(before) /\ diffs[k].offset < i
      /\ \A k, l \in 1 .. Len(diffs) : k < l => diffs[k].offset < diffs[l].offset
      /\ \A p \in Differing(before) : p < i => \E k \in 1 .. Len(diffs) : diffs[k].offset = p
  BY <1>1 DEF IInv, Listed, Running
<1>5. low \in Differing(new)
  <2>1. low \in Differing(before)
    BY <1>1, <1>4
  <2>2. \A k \in 1 .. restored : diffs[k].offset < low /\ diffs[k].offset \in Nat
    <3>1. \A k \in 1 .. restored : k \in 1 .. Len(diffs) /\ k < restored + 1
      BY <1>1
    <3> QED
      BY <1>1, <1>3, <1>4, <3>1
  <2>3. low \notin RestoredUpTo(restored)
    BY <1>3, <2>1, <2>2 DEF RestoredUpTo
  <2> QED
    BY <1>2, <2>1, <2>3
<1>6. ASSUME NEW p \in Differing(new) PROVE low <= p
  <2>1. p \in Differing(before) /\ p \notin RestoredUpTo(restored) /\ p \in Nat /\ low \in Nat
    BY <1>2, <1>3, <1>5
  <2>2. CASE p < i
    <3>1. PICK k \in 1 .. Len(diffs) : diffs[k].offset = p
      BY <1>4, <2>1, <2>2
    <3>2. k \notin 1 .. restored
      BY <2>1, <3>1 DEF RestoredUpTo
    <3>3. k = restored + 1 \/ restored + 1 < k
      BY <1>1, <3>2
    <3> QED
      BY <1>1, <1>4, <2>1, <3>1, <3>3
  <2>3. CASE ~ (p < i)
    <3>1. low < i /\ i \in Nat
      BY <1>1, <1>4, DiffAssumption DEF IInv, DiffTypeOK
    <3> QED
      BY <2>1, <2>3, <3>1
  <2> QED
    BY <2>2, <2>3
<1> HIDE DEF low
<1>7. Differing(new) \subseteq Int
  BY <1>2, <1>3
<1>8. Min(Differing(new)) = low
  BY <1>5, <1>6, <1>7, LeastIs
<1>9. Set!Min(Differing(new)) = Min(Differing(new))
  BY DEF Set!Min, Min
<1> QED
  BY <1>8, <1>9 DEF low


LEMMA SetInit == DiffInit => Set!Init
<1> SUFFICES ASSUME DiffInit PROVE Set!Init
  OBVIOUS
<1>1. Differing(new) \in SUBSET Nat
  BY BetweenFinite, DifferingIs DEF DiffInit
<1>2. pc # "restore"
  BY DEF DiffInit
<1> QED
  BY <1>1, <1>2 DEF Set!Init

(* The positions that differ are natural numbers, also after a step. *)
LEMMA DifferAt == DiffTypeOK => Differing(new) \in SUBSET Nat
  BY BetweenFinite, DifferingIs DEF DiffTypeOK

LEMMA SetStep ==
    ASSUME IInv, IInv', [DiffNext]_diffVars
    PROVE  [Set!Next]_(Set!vars)
<1>1. Differing(new)' \in SUBSET Nat
  <2>1. (DiffTypeOK => Differing(new) \in SUBSET Nat)'
    BY DifferAt, PTL
  <2> QED
    BY <2>1 DEF IInv
(* Steps outside of a restore. *)
<1>2. ASSUME pc # "restore", pc' # "restore" PROVE Set!Change
  BY <1>1, <1>2 DEF Set!Change
<1>3. CASE Start \/ Compare \/ Compared \/ Patch
  <2>1. pc # "restore" /\ pc' # "restore"
    BY <1>3 DEF Start, Compare, Compared, Patch
  <2> QED
    BY <1>2, <2>1 DEF Set!Next
<1>4. CASE Report
  <2>1. CASE pc' = "restore"
    <3>1. pc = "report" /\ UNCHANGED <<orig, new, run>>
      BY <1>4, <2>1 DEF Report
    <3>2. new = before /\ restored = 0
      BY <3>1 DEF IInv, Standing
    <3>3. Len(diffs) \in 0 .. Cardinality(Differing(new))
      BY <3>1, <3>2, ListedAreSome DEF Running
    <3>4. Differing(new)' = Differing(new) /\ Len(diffs)' - restored' = Len(diffs)
      BY <3>1, <3>2, <3>3 DEF Differing, run
    <3>5. Set!Cardinality(Differing(new)) = Cardinality(Differing(new))
      BY DEF Set!Cardinality, Cardinality
    <3>6. Set!Begin
      BY <2>1, <3>1, <3>3, <3>4, <3>5 DEF Set!Begin
    <3> QED
      BY <3>6 DEF Set!Next
  <2>2. CASE pc' # "restore"
    <3>1. pc # "restore"
      BY <1>4 DEF Report
    <3> QED
      BY <1>2, <2>2, <3>1 DEF Set!Next
  <2> QED
    BY <2>1, <2>2
<1>5. CASE restoreOrig
  <2>1. /\ pc = "restore" /\ pc' = "restore" /\ restored' = restored + 1
        /\ UNCHANGED <<orig, before, diffs>>
    BY <1>5 DEF restoreOrig
  <2>2. restored \in Nat /\ restored + 1 \in 1 .. Len(diffs) /\ Len(diffs) \in Nat
    BY <1>5, NextDifference DEF IInv, DiffTypeOK
  <2>3. Differing(new) = Differing(before) \ RestoredUpTo(restored)
    BY <2>1, StillDiffers
  <2>4. Differing(new)' = Differing(before) \ RestoredUpTo(restored + 1)
    <3>1. (IInv /\ pc = "restore" => Differing(new) = Differing(before) \ RestoredUpTo(restored))'
      BY StillDiffers, PTL
    <3> QED
      BY <2>1, <3>1 DEF Differing, RestoredUpTo
  <2>5. RestoredUpTo(restored + 1) = RestoredUpTo(restored) \cup {diffs[restored + 1].offset}
    <3>1. 1 .. restored + 1 = (1 .. restored) \cup {restored + 1}
      BY <2>2
    <3> QED
      BY <3>1 DEF RestoredUpTo
  <2>6. Differing(new)' = Differing(new) \ {Set!Min(Differing(new))}
    BY <1>5, <2>3, <2>4, <2>5, LowestIsNext
  <2>7. Len(diffs) - restored > 0 /\ Len(diffs') - restored' = (Len(diffs) - restored) - 1
    BY <2>1, <2>2
  <2>8. Set!Restore
    BY <2>1, <2>6, <2>7 DEF Set!Restore
  <2> QED
    BY <2>8 DEF Set!Next
<1>6. CASE Restored \/ Kill
  <2>1. UNCHANGED <<orig, new>> /\ pc' = "idle"
    BY <1>6 DEF Restored, Kill
  <2>2. Differing(new)' = Differing(new)
    BY <2>1 DEF Differing
  <2>3. CASE pc = "restore"
    <3>1. Set!End
      BY <2>1, <2>2, <2>3 DEF Set!End
    <3> QED
      BY <3>1 DEF Set!Next
  <2>4. CASE pc # "restore"
    BY <1>2, <2>1, <2>4 DEF Set!Next
  <2> QED
    BY <2>3, <2>4
<1>7. CASE UNCHANGED diffVars
  BY <1>7 DEF diffVars, run, Set!vars, Differing
<1> QED
  BY <1>3, <1>4, <1>5, <1>6, <1>7 DEF DiffNext

(* The compare program restores the lowest difference each time and never  *)
(* a byte that did not differ, and what a killed run has left is what the  *)
(* next one starts from.                                                   *)
THEOREM DiffImplementsSet == ToolsSpec => SetSpec
<1>1. IInv /\ IInv' /\ [DiffNext]_diffVars => [Set!Next]_(Set!vars)
  BY SetStep
<1> QED
  BY <1>1, Inv, SetInit, PTL DEF ToolsSpec, SetSpec, Set!Spec

-------------------------------------------------------------------------------
(* What scanning the options comes to.  The fold is a recursive function   *)
(* of the sets of positions; that there is such a function, and what it    *)
(* is, follows for one option more at a time.                              *)

NoFlags == [task |-> "a", n |-> -1]
Indices == [j \in DOMAIN opts |-> j]

ScanStep(g) ==
    [s \in SUBSET DOMAIN Indices |->
        IF s = {} THEN NoFlags ELSE scanned_Option(opts, Indices[Max(s)], g[s \ {Max(s)}])]
Scan == CHOOSE g : g = ScanStep(g)

LEMMA FlagsFold == flags = Scan[DOMAIN Indices]
  BY DEF flags, FoldLeftDomain, FoldLeft, MapThenFoldSet, Scan, ScanStep, Indices, NoFlags

LEMMA FlagsKept == ASSUME opts' = opts PROVE flags' = flags
<1>1. Scan' = Scan
  BY DEF Scan, ScanStep, Indices, scanned_Option, atoi
<1>2. (flags = Scan[DOMAIN Indices])'
  BY FlagsFold, PTL
<1>3. (DOMAIN Indices)' = DOMAIN Indices
  BY DEF Indices
<1> QED
  BY <1>1, <1>2, <1>3, FlagsFold

(* The same for the first options only. *)
ScanFirst(g, n) ==
    [s \in SUBSET (1 .. n) |->
        IF s = {} THEN NoFlags ELSE scanned_Option(opts, Max(s), g[s \ {Max(s)}])]

LEMMA GreatestIs ==
    ASSUME NEW n \in Nat, NEW S \in SUBSET (1 .. n), S # {}
    PROVE  Max(S) \in S /\ \A y \in S : y <= Max(S)
<1>1. S \in SUBSET (0 .. n) /\ n \in Int
  OBVIOUS
<1>2. \E x \in S : \A y \in S : y <= x
  BY <1>1, GreatestElement, Zenon
<1>3. \E x \in S : \A y \in S : x >= y
  <2>1. PICK x \in S : \A y \in S : y <= x
    BY <1>2
  <2>2. \A y \in S : x >= y
    BY <2>1
  <2> QED
    BY <2>2
<1>4. Max(S) \in S /\ \A y \in S : Max(S) >= y
  BY <1>3, Zenon DEF Max
<1> QED
  BY <1>4

LEMMA ScanExists == \A n \in Nat : \E g : g = ScanFirst(g, n)
<1> DEFINE S == {n \in Nat : \E g : g = ScanFirst(g, n)}
<1>1. 0 \in S
  <2> DEFINE g == [s \in SUBSET (1 .. 0) |-> NoFlags]
  <2>1. \A s \in SUBSET (1 .. 0) : s = {}
    OBVIOUS
  <2>2. g = ScanFirst(g, 0)
    BY <2>1 DEF ScanFirst
  <2> QED
    BY <2>2
<1>2. ASSUME NEW n \in S PROVE n + 1 \in S
  <2>1. n \in Nat
    OBVIOUS
  <2>2. PICK g : g = ScanFirst(g, n)
    OBVIOUS
  <2> HIDE DEF S
  <2> DEFINE h == [s \in SUBSET (1 .. n + 1) |->
                     IF n + 1 \in s THEN scanned_Option(opts, n + 1, g[s \ {n + 1}]) ELSE g[s]]
             Body(s) == IF s = {} THEN NoFlags
                        ELSE scanned_Option(opts, Max(s), h[s \ {Max(s)}])
  <2>3. ASSUME NEW s \in SUBSET (1 .. n + 1) PROVE h[s] = Body(s)
    <3>1. CASE n + 1 \in s
      <4>1. Max(s) = n + 1
        <5>1. n + 1 \in Nat /\ s # {}
          BY <2>1, <3>1
        <5>2. Max(s) \in s /\ \A y \in s : y <= Max(s)
          BY <5>1, GreatestIs, Zenon
        <5> DEFINE m == Max(s)
        <5>3. m \in s /\ \A y \in s : y <= m
          BY <5>2
        <5> HIDE DEF m, h
        <5>4. m \in 1 .. n + 1 /\ n + 1 <= m
          BY <3>1, <5>3
        <5> QED
          BY <2>1, <5>4 DEF m
      <4>2. s \ {n + 1} \in SUBSET (1 .. n + 1) /\ n + 1 \notin s \ {n + 1}
        OBVIOUS
      <4>3. h[s \ {n + 1}] = g[s \ {n + 1}]
        BY <4>2
      <4>4. h[s] = scanned_Option(opts, n + 1, g[s \ {n + 1}])
        BY <3>1
      <4>5. s # {}
        BY <3>1
      <4> HIDE DEF h
      <4> QED
        BY <4>1, <4>3, <4>4, <4>5
    <3>2. CASE n + 1 \notin s
      <4>1. s \in SUBSET (1 .. n)
        BY <2>1, <3>2
      <4>2. g[s] = IF s = {} THEN NoFlags
                   ELSE scanned_Option(opts, Max(s), g[s \ {Max(s)}])
        <5> DEFINE F == ScanFirst(g, n)
        <5>1. F[s] = IF s = {} THEN NoFlags
                     ELSE scanned_Option(opts, Max(s), g[s \ {Max(s)}])
          BY <4>1 DEF ScanFirst
        <5>2. g = F
          BY <2>2
        <5> HIDE DEF F
        <5> QED
          BY <5>1, <5>2
      <4>3. h[s] = g[s]
        BY <3>2
      <4>4. h[s \ {Max(s)}] = g[s \ {Max(s)}]
        <5>1. s \ {Max(s)} \in SUBSET (1 .. n + 1) /\ n + 1 \notin s \ {Max(s)}
          BY <3>2
        <5> QED
          BY <5>1
      <4> HIDE DEF h
      <4> QED
        BY <4>2, <4>3, <4>4
    <3> QED
      BY <3>1, <3>2
  <2>4. h = [s \in SUBSET (1 .. n + 1) |-> h[s]]
    OBVIOUS
  <2> HIDE DEF h
  <2>5. h = [s \in SUBSET (1 .. n + 1) |-> Body(s)]
    BY <2>3, <2>4
  <2>6. h = ScanFirst(h, n + 1)
    BY <2>5 DEF ScanFirst
  <2> QED
    BY <2>1, <2>6 DEF S
<1> HIDE DEF S
<1>3. S \in SUBSET Nat
  BY DEF S
<1>4. S = Nat
  BY <1>1, <1>2, <1>3, FromZero
<1> QED
  BY <1>4 DEF S

(* One option after the other is scanned. *)
LEMMA ScanIs ==
    ASSUME opts \in Seq(STRING)
    PROVE  /\ flags = Scan[1 .. Len(opts)]
           /\ Scan[{}] = NoFlags
           /\ \A n \in 1 .. Len(opts) : Scan[1 .. n] = scanned_Option(opts, n, Scan[1 .. n - 1])
<1>1. DOMAIN opts = 1 .. Len(opts) /\ Len(opts) \in Nat
  OBVIOUS
<1>2. DOMAIN Indices = 1 .. Len(opts) /\ \A n \in 1 .. Len(opts) : Indices[n] = n
  BY <1>1 DEF Indices
<1>3. \A g : ScanStep(g) = ScanFirst(g, Len(opts))
  <2>1. \A s \in SUBSET (1 .. Len(opts)) : s # {} => Indices[Max(s)] = Max(s)
    BY <1>1, <1>2, GreatestIs
  <2> QED
    BY <1>2, <2>1 DEF ScanStep, ScanFirst
<1>4. Scan = ScanStep(Scan)
  <2>1. \E g : g = ScanStep(g)
    BY <1>1, <1>3, ScanExists
  <2> QED
    BY <2>1, Zenon DEF Scan
<1>5. ASSUME NEW s \in SUBSET (1 .. Len(opts))
      PROVE  Scan[s] = IF s = {} THEN NoFlags
                       ELSE scanned_Option(opts, Max(s), Scan[s \ {Max(s)}])
  <2> DEFINE F == ScanFirst(Scan, Len(opts))
  <2>1. F[s] = IF s = {} THEN NoFlags ELSE scanned_Option(opts, Max(s), Scan[s \ {Max(s)}])
    BY DEF ScanFirst
  <2>2. Scan = F
    BY <1>3, <1>4
  <2> HIDE DEF F
  <2> QED
    BY <2>1, <2>2
<1>6. ASSUME NEW n \in 1 .. Len(opts)
      PROVE  Scan[1 .. n] = scanned_Option(opts, n, Scan[1 .. n - 1])
  <2>1. 1 .. n \in SUBSET (1 .. Len(opts)) /\ 1 .. n # {} /\ n \in Nat /\ n \in 1 .. n
    <3> DEFINE m == Len(opts)
    <3>1. m \in Nat /\ n \in 1 .. m
      BY <1>1
    <3> HIDE DEF m
    <3>2. n \in Nat /\ n \in 1 .. n
      BY <3>1
    <3>3. 1 .. n \in SUBSET (1 .. m)
      BY <3>1
    <3> QED
      BY <3>2, <3>3 DEF m
  <2>2. Max(1 .. n) = n
    <3>1. Max(1 .. n) \in 1 .. n /\ \A y \in 1 .. n : y <= Max(1 .. n)
      BY <2>1, GreatestIs
    <3>2. Max(1 .. n) \in Int /\ Max(1 .. n) <= n /\ n <= Max(1 .. n)
      BY <2>1, <3>1
    <3> QED
      BY <2>1, <3>2
  <2>3. (1 .. n) \ {n} = 1 .. n - 1
    BY <2>1
  <2> QED
    BY <1>5, <2>1, <2>2, <2>3
<1>7. flags = Scan[1 .. Len(opts)]
  BY <1>2, FlagsFold
<1> QED
  BY <1>5, <1>6, <1>7

(* The options among the first n that limit a run. *)
Limiting(n) == {j \in 1 .. n : opts[j] = "-k" \/ (opts[j] = "-r" /\ j < Len(opts))}

(* Some option among the first n asks for a part of the list, and none     *)
(* behind it asks for the total.                                           *)
AsksForPart(n) ==
    \E j \in 1 .. n : opts[j] \in {"-k", "-r"} /\ \A k \in j + 1 .. n : opts[k] # "-t"

Scanned(f, n) ==
    /\ f \in [task : {"a", "t", "k", "r"}, n : Int]
    /\ f.n = IF Limiting(n) = {} THEN -1 ELSE atoi(opts, Max(Limiting(n)) + 1)
    /\ f.task \in {"k", "r"} <=> AsksForPart(n)

LEMMA AtoiType == \A j : atoi(opts, j) \in Int
  BY DiffAssumption DEF atoi

(* The last one counts. *)
LEMMA LimitingNext ==
    ASSUME NEW n \in Nat,
           opts[n + 1] = "-k" \/ (opts[n + 1] = "-r" /\ n + 1 < Len(opts))
    PROVE  Limiting(n + 1) # {} /\ Max(Limiting(n + 1)) = n + 1
<1> DEFINE S == Limiting(n + 1)
           m == Max(S)
<1>1. S \in SUBSET (1 .. n + 1) /\ n + 1 \in S /\ n + 1 \in Nat
  BY DEF Limiting
<1> HIDE DEF S
<1>2. m \in S /\ \A y \in S : y <= m
  BY <1>1, GreatestIs
<1> HIDE DEF m
<1>3. m \in 1 .. n + 1 /\ n + 1 <= m
  BY <1>1, <1>2
<1> QED
  BY <1>1, <1>3 DEF S, m

LEMMA LimitingSame ==
    ASSUME NEW n \in Nat,
           ~ (opts[n + 1] = "-k" \/ (opts[n + 1] = "-r" /\ n + 1 < Len(opts)))
    PROVE  Limiting(n + 1) = Limiting(n)
<1>1. \A j : j \in 1 .. n + 1 <=> j \in 1 .. n \/ j = n + 1
  OBVIOUS
<1> QED
  BY <1>1 DEF Limiting

(* One option more. *)
LEMMA AsksNext ==
    ASSUME NEW n \in Nat
    PROVE  AsksForPart(n + 1) <=> \/ opts[n + 1] \in {"-k", "-r"}
                                  \/ AsksForPart(n) /\ opts[n + 1] # "-t"
<1>1. CASE opts[n + 1] \in {"-k", "-r"}
  <2>1. n + 1 \in 1 .. n + 1 /\ \A k \in (n + 1) + 1 .. n + 1 : opts[k] # "-t"
    OBVIOUS
  <2> QED
    BY <1>1, <2>1 DEF AsksForPart
<1>2. CASE opts[n + 1] \notin {"-k", "-r"}
  <2>1. ASSUME AsksForPart(n), opts[n + 1] # "-t" PROVE AsksForPart(n + 1)
    <3>1. PICK j \in 1 .. n : opts[j] \in {"-k", "-r"} /\ \A k \in j + 1 .. n : opts[k] # "-t"
      BY <2>1 DEF AsksForPart
    <3>2. \A k \in j + 1 .. n + 1 : k \in j + 1 .. n \/ k = n + 1
      OBVIOUS
    <3>3. \A k \in j + 1 .. n + 1 : opts[k] # "-t"
      BY <2>1, <3>1, <3>2
    <3>4. j \in 1 .. n + 1
      OBVIOUS
    <3> QED
      BY <3>1, <3>3, <3>4 DEF AsksForPart
  <2>2. ASSUME AsksForPart(n + 1) PROVE AsksForPart(n) /\ opts[n + 1] # "-t"
    <3>1. PICK j \in 1 .. n + 1 :
             opts[j] \in {"-k", "-r"} /\ \A k \in j + 1 .. n + 1 : opts[k] # "-t"
      BY <2>2 DEF AsksForPart
    <3>2. j \in 1 .. n
      <4>1. j # n + 1
        BY <1>2, <3>1
      <4> QED
        BY <4>1
    <3>3. n + 1 \in j + 1 .. n + 1 /\ \A k \in j + 1 .. n : k \in j + 1 .. n + 1
      BY <3>2
    <3> QED
      BY <3>1, <3>2, <3>3 DEF AsksForPart
  <2> QED
    BY <1>2, <2>1, <2>2
<1> QED
  BY <1>1, <1>2

LEMMA ScannedNext ==
    ASSUME NEW n \in Nat, n + 1 <= Len(opts), Len(opts) \in Nat, NEW f, Scanned(f, n)
    PROVE  Scanned(scanned_Option(opts, n + 1, f), n + 1)
<1> DEFINE j == n + 1
           g == scanned_Option(opts, j, f)
           Task == {"a", "t", "k", "r"}
<1>1. f \in [task : Task, n : Int] /\ atoi(opts, j + 1) \in Int /\ j \in Nat
  BY AtoiType DEF Scanned
<1>2. CASE opts[j] = "-k"
  <2>1. g = [task |-> "k", n |-> atoi(opts, j + 1)]
    BY <1>2 DEF scanned_Option
  <2> HIDE DEF g, j
  <2>2. g \in [task : Task, n : Int] /\ g.task = "k" /\ g.n = atoi(opts, j + 1)
    BY <1>1, <2>1
  <2>3. Limiting(j) # {} /\ Max(Limiting(j)) = j
    BY <1>2, LimitingNext DEF j
  <2>4. AsksForPart(j)
    BY <1>2, AsksNext DEF j
  <2> QED
    BY <2>2, <2>3, <2>4 DEF Scanned, g, j
<1>3. CASE opts[j] = "-r"
  <2>1. g = [task |-> "r", n |-> IF j # Len(opts) THEN atoi(opts, j + 1) ELSE f.n]
    BY <1>3 DEF scanned_Option
  <2> HIDE DEF g
  <2>2. /\ g \in [task : Task, n : Int] /\ g.task = "r"
        /\ g.n = IF j # Len(opts) THEN atoi(opts, j + 1) ELSE f.n
    <3>1. f.n \in Int
      BY <1>1
    <3> HIDE DEF j
    <3> QED
      BY <1>1, <2>1, <3>1
  <2>3. AsksForPart(j)
    BY <1>3, AsksNext
  <2>4. g.n = IF Limiting(j) = {} THEN -1 ELSE atoi(opts, Max(Limiting(j)) + 1)
    <3>1. CASE j # Len(opts)
      <4>1. j < Len(opts)
        BY <3>1
      <4>2. Limiting(j) # {} /\ Max(Limiting(j)) = j
        BY <1>3, <4>1, LimitingNext
      <4> QED
        BY <2>2, <3>1, <4>2
    <3>2. CASE j = Len(opts)
      <4>1. Limiting(j) = Limiting(n)
        <5>1. ~ (j < Len(opts)) /\ opts[j] # "-k"
          BY <1>3, <3>2
        <5> QED
          BY <5>1, LimitingSame
      <4> QED
        BY <2>2, <3>2, <4>1 DEF Scanned
    <3> QED
      BY <3>1, <3>2
  <2> HIDE DEF j
  <2> QED
    BY <2>2, <2>3, <2>4 DEF Scanned, g, j
<1>4. CASE opts[j] = "-t"
  <2>1. g = [f EXCEPT !.task = "t"]
    BY <1>4 DEF scanned_Option
  <2> HIDE DEF g
  <2>2. g \in [task : Task, n : Int] /\ g.task = "t" /\ g.n = f.n
    <3> HIDE DEF j
    <3> QED
      BY <1>1, <2>1
  <2>3. ~ AsksForPart(j)
    BY <1>4, AsksNext
  <2>4. Limiting(j) = Limiting(n)
    BY <1>4, LimitingSame
  <2> HIDE DEF j
  <2> QED
    BY <2>2, <2>3, <2>4 DEF Scanned, g, j
<1>5. CASE opts[j] \notin {"-k", "-r", "-t"}
  <2>1. g = f
    BY <1>5 DEF scanned_Option
  <2> HIDE DEF g
  <2>2. AsksForPart(j) <=> AsksForPart(n)
    BY <1>5, AsksNext
  <2>3. Limiting(j) = Limiting(n)
    BY <1>5, LimitingSame
  <2> HIDE DEF j
  <2> QED
    BY <2>1, <2>2, <2>3 DEF Scanned, g, j
<1> QED
  BY <1>2, <1>3, <1>4, <1>5

(* The number that limits a run is the one that Limit says, and a run is   *)
(* limited as ListRight says.                                              *)
LEMMA FlagsAre ==
    opts \in CommandLines =>
        /\ flags.n \in Int
        /\ flags.n = Limit
        /\ flags.task \in {"k", "r"} <=>
              \E j \in DOMAIN opts : /\ opts[j] \in {"-k", "-r"}
                                     /\ \A k \in j + 1 .. Len(opts) : opts[k] # "-t"
<1> SUFFICES ASSUME opts \in CommandLines
             PROVE  /\ flags.n \in Int
                    /\ flags.n = Limit
                    /\ flags.task \in {"k", "r"} <=>
                          \E j \in DOMAIN opts : /\ opts[j] \in {"-k", "-r"}
                                                 /\ \A k \in j + 1 .. Len(opts) : opts[k] # "-t"
  OBVIOUS
<1> DEFINE L == Len(opts)
           S == {n \in Nat : n <= L => Scanned(Scan[1 .. n], n)}
<1>1. opts \in Seq(STRING) /\ L \in Nat /\ DOMAIN opts = 1 .. L
  BY DiffAssumption
<1>2. 0 \in S
  <2>1. 1 .. 0 = {}
    OBVIOUS
  <2>2. Scan[1 .. 0] = NoFlags
    BY <1>1, <2>1, ScanIs
  <2>3. Limiting(0) = {} /\ ~ AsksForPart(0)
    BY DEF Limiting, AsksForPart
  <2>4. NoFlags \in [task : {"a", "t", "k", "r"}, n : Int] /\ NoFlags.n = -1 /\ NoFlags.task = "a"
    BY DEF NoFlags
  <2> QED
    BY <2>2, <2>3, <2>4 DEF Scanned
<1>3. ASSUME NEW n \in S PROVE n + 1 \in S
  <2>1. n \in Nat /\ n + 1 \in Nat
    OBVIOUS
  <2>2. ASSUME n + 1 <= L PROVE Scanned(Scan[1 .. n + 1], n + 1)
    <3>1. n <= L /\ n + 1 \in 1 .. L /\ (n + 1) - 1 = n
      BY <1>1, <2>1, <2>2
    <3>2. Scanned(Scan[1 .. n], n)
      BY <3>1
    <3>3. Scan[1 .. n + 1] = scanned_Option(opts, n + 1, Scan[1 .. n])
      <4> DEFINE m == n + 1
      <4>1. m - 1 = n /\ m \in 1 .. L
        BY <3>1
      <4> HIDE DEF m
      <4>2. Scan[1 .. m] = scanned_Option(opts, m, Scan[1 .. m - 1])
        BY <1>1, <4>1, ScanIs
      <4> QED
        BY <4>1, <4>2 DEF m
    <3> HIDE DEF S
    <3>4. Scanned(scanned_Option(opts, n + 1, Scan[1 .. n]), n + 1)
      BY <1>1, <2>1, <2>2, <3>2, ScannedNext
    <3> QED
      BY <3>3, <3>4
  <2> QED
    BY <2>1, <2>2
<1> HIDE DEF S
<1>4. S = Nat
  <2>1. S \in SUBSET Nat
    BY DEF S
  <2> QED
    BY <1>2, <1>3, <2>1, FromZero
<1>5. Scanned(flags, L)
  <2>1. L \in S
    BY <1>1, <1>4
  <2>2. flags = Scan[1 .. L]
    BY <1>1, ScanIs
  <2> QED
    BY <1>1, <2>1, <2>2 DEF S
<1>6. Limit = IF Limiting(L) = {} THEN -1 ELSE atoi(opts, Max(Limiting(L)) + 1)
  BY <1>1 DEF Limit, Limiting
<1> QED
  BY <1>1, <1>5, <1>6 DEF Scanned, AsksForPart

-------------------------------------------------------------------------------
(* How long the list is. *)

Limited == flags.task \in {"k", "r"} /\ flags.n # -1

Cap == IF flags.n > 0 THEN flags.n ELSE 0

(* A limited list never gets longer than was asked for; the comparison     *)
(* ends when it is as long, or with the shorter of the files.              *)
Sized ==
    /\ pc \in Running /\ Limited => Len(diffs) <= Cap
    /\ pc \in {"report", "restore"} =>
          i >= compareSize \/ (Limited /\ Len(diffs) >= flags.n)

LEMMA SizedStep == ASSUME IInv, Sized, IInv', [DiffNext]_diffVars PROVE Sized'
<1>1. opts \in CommandLines => flags.n \in Int
  BY FlagsAre
<1>2. flags.n \in Int /\ Len(diffs) \in Nat /\ countDiff = Len(diffs)
  BY <1>1 DEF IInv, DiffTypeOK
<1>3. CASE Start
  <2>1. flags'.n \in Int
    <3>1. (opts \in CommandLines => flags.n \in Int)'
      BY <1>1, FlagsAre, PTL
    <3> QED
      BY <3>1 DEF IInv, DiffTypeOK
  <2>2. Cap' >= 0
    BY <2>1 DEF Cap
  <2>3. Len(diffs') = 0 /\ pc' = "compare"
    BY <1>3 DEF Start
  <2> QED
    BY <2>2, <2>3 DEF Sized
<1>4. CASE Compare
  <2>1. flags' = flags /\ pc = "compare" /\ pc' \in {"compare", "report"}
    BY <1>4, FlagsKept DEF Compare
  <2>2. Limited' = Limited /\ Cap' = Cap
    BY <2>1, Zenon DEF Limited, Cap
  <2>3. CASE UNCHANGED diffs
    <3>1. pc' = "report" => Limited /\ Len(diffs) >= flags.n
      <4>1. ASSUME pc' = "report" PROVE enough
        BY <1>4, <2>1, <4>1 DEF Compare
      <4> QED
        BY <1>2, <4>1 DEF enough, Limited
    <3>2. Limited => Len(diffs) <= Cap
      BY <2>1 DEF Sized, Running
    <3> QED
      BY <2>1, <2>2, <2>3, <3>1, <3>2 DEF Sized
  <2>4. CASE ~ UNCHANGED diffs
    <3> DEFINE d == [offset |-> i, orig_value |-> orig[i + 1], new_value |-> new[i + 1]]
    <3>1. ~ enough /\ diffs' = Append(diffs, d) /\ pc' = "compare"
      BY <1>4, <2>1, <2>4 DEF Compare, list_append
    <3> HIDE DEF d
    <3>2. diffs \in Seq(Difference)
      BY DEF IInv, DiffTypeOK, Difference
    <3>3. Len(diffs') = Len(diffs) + 1
      BY <3>1, <3>2
    <3>4. Limited => Len(diffs) < flags.n
      BY <1>2, <3>1 DEF enough, Limited
    <3>5. Limited => Len(diffs) + 1 <= Cap
      BY <1>2, <3>4 DEF Cap
    <3> QED
      BY <2>2, <3>1, <3>3, <3>5 DEF Sized
  <2> QED
    BY <2>3, <2>4
<1>5. CASE Compared \/ restoreOrig \/ (Report /\ pc' # "idle")
  <2>1. UNCHANGED <<orig, opts, diffs, i>> /\ pc \in Running /\ pc' \in {"report", "restore"}
    BY <1>5 DEF Compared, restoreOrig, Report, run, Running
  <2>2. flags' = flags
    BY <2>1, FlagsKept
  <2>3. Limited' = Limited /\ Cap' = Cap
    BY <2>2, Zenon DEF Limited, Cap
  <2>4. compareSize' = compareSize
    <3>1. Len(before) = Len(new) /\ Len(before') = Len(new') /\ before' = before
      BY <1>5 DEF IInv, DiffTypeOK, Compared, restoreOrig, Report, run
    <3> QED
      BY <2>1, <3>1 DEF compareSize
  <2>5. i >= compareSize \/ (Limited /\ Len(diffs) >= flags.n)
    <3>1. CASE Compared
      BY <3>1 DEF Compared
    <3>2. CASE ~ Compared
      BY <1>5, <3>2 DEF Sized, restoreOrig, Report
    <3> QED
      BY <3>1, <3>2
  <2> QED
    BY <2>1, <2>2, <2>3, <2>4, <2>5 DEF Sized
<1>6. CASE pc' = "idle"
  BY <1>6 DEF Sized, Running
<1>7. CASE UNCHANGED diffVars
  <2>1. UNCHANGED <<pc, orig, new, opts, diffs, i>>
    BY <1>7 DEF diffVars, run
  <2>2. flags' = flags /\ compareSize' = compareSize
    BY <2>1, FlagsKept DEF compareSize
  <2>3. Limited' = Limited /\ Cap' = Cap
    BY <2>2, Zenon DEF Limited, Cap
  <2> QED
    BY <2>1, <2>2, <2>3 DEF Sized
<1>8. Report \/ Restored \/ Kill \/ Patch => pc' = "idle" \/ (Report /\ pc' # "idle")
  BY DEF Report, Restored, Kill, Patch
<1> QED
  BY <1>3, <1>4, <1>5, <1>6, <1>7, <1>8 DEF DiffNext

(* Up to an element there are as many positions as elements. *)
LEMMA ElementCount ==
    ASSUME IInv, pc \in Running, NEW k \in 1 .. Len(diffs)
    PROVE  Cardinality({p \in Differing(before) : p <= diffs[k].offset}) = k
<1> DEFINE T == {p \in Differing(before) : p <= diffs[k].offset}
<1>1. Len(diffs) \in Nat /\ i \in Int
  BY DiffAssumption DEF IInv, DiffTypeOK
<1>2. \A p \in Differing(before) : p \in Nat
  BY BetweenHas, DifferingIs DEF IInv, DiffTypeOK
<1>3. /\ \A l \in 1 .. Len(diffs) : diffs[l].offset \in Differing(before) /\ diffs[l].offset < i
      /\ \A l, m \in 1 .. Len(diffs) : l < m => diffs[l].offset < diffs[m].offset
      /\ \A p \in Differing(before) : p < i => \E l \in 1 .. Len(diffs) : diffs[l].offset = p
  BY DEF IInv, Listed
<1>4. ASSUME NEW p \in T PROVE p \in RestoredUpTo(k)
  <2>1. p \in Differing(before) /\ p <= diffs[k].offset /\ diffs[k].offset < i
        /\ p \in Nat /\ diffs[k].offset \in Nat
    BY <1>2, <1>3
  <2>2. PICK l \in 1 .. Len(diffs) : diffs[l].offset = p
    BY <1>1, <1>3, <2>1
  <2>3. ~ (k < l)
    BY <1>3, <2>1, <2>2
  <2>4. l \in 1 .. k
    BY <1>1, <2>3
  <2> QED
    BY <2>2, <2>4 DEF RestoredUpTo
<1>5. ASSUME NEW p \in RestoredUpTo(k) PROVE p \in T
  <2>1. PICK l \in 1 .. k : diffs[l].offset = p
    BY <1>5 DEF RestoredUpTo
  <2>2. l \in 1 .. Len(diffs) /\ (l < k \/ l = k)
    BY <1>1
  <2> QED
    BY <1>2, <1>3, <2>1, <2>2
<1> HIDE DEF T
<1>6. T = RestoredUpTo(k)
  BY <1>4, <1>5
<1>7. k \in 0 .. Len(diffs)
  BY <1>1
<1> QED
  BY <1>6, <1>7, ListCount DEF T

LEMMA GreaterIs == ASSUME NEW a \in Int PROVE Max({a, 0}) = IF a > 0 THEN a ELSE 0
<1> DEFINE m == IF a > 0 THEN a ELSE 0
<1>1. m \in {a, 0} /\ \A y \in {a, 0} : m >= y
  OBVIOUS
<1>2. \E x \in {a, 0} : \A y \in {a, 0} : x >= y
  BY <1>1
<1>3. Max({a, 0}) \in {a, 0} /\ \A y \in {a, 0} : Max({a, 0}) >= y
  BY <1>2, Zenon DEF Max
<1>4. Max({a, 0}) \in Int /\ Max({a, 0}) >= m /\ m >= Max({a, 0}) /\ m \in Int
  BY <1>1, <1>3
<1> QED
  BY <1>4

LEMMA ListIsRight == ASSUME IInv, Sized PROVE ListRight
<1> SUFFICES ASSUME pc \in {"report", "restore"} PROVE ListRight
  BY DEF ListRight
<1> DEFINE positions == Differing(before)
           N == Cardinality(positions)
           L == Len(diffs)
           unlimited == Limit = -1 \/ \A j \in DOMAIN opts :
                                         opts[j] \in {"-k", "-r"} =>
                                            \E k \in j + 1 .. Len(opts) : opts[k] = "-t"
<1>1. pc \in Running
  BY DEF Running
<1>2. DOMAIN diffs = 1 .. L /\ L \in Nat /\ i \in Int
  BY DiffAssumption DEF IInv, DiffTypeOK
<1>3. L \in 0 .. N /\ N \in Nat
  BY <1>1, ListedAreSome, BetweenFinite, DifferingIs DEF IInv, DiffTypeOK
<1>4. flags.n \in Int /\ flags.n = Limit /\ (unlimited <=> ~ Limited)
  <2>1. opts \in CommandLines
    BY DEF IInv, DiffTypeOK
  <2>2. flags.n = Limit /\ flags.n \in Int
    BY <2>1, FlagsAre
  <2>3. flags.task \in {"k", "r"} <=>
           \E j \in DOMAIN opts : /\ opts[j] \in {"-k", "-r"}
                                  /\ \A k \in j + 1 .. Len(opts) : opts[k] # "-t"
    BY <2>1, FlagsAre, Zenon
  <2> QED
    BY <2>2, <2>3, Zenon DEF Limited
<1>5. i >= compareSize => L = N
  <2> SUFFICES ASSUME i >= compareSize PROVE L = N
    OBVIOUS
  <2>1. \A p \in positions : p < i
    <3>1. Len(orig) \in Nat /\ Len(new) \in Nat /\ Len(before) = Len(new)
      BY FileLength DEF IInv, DiffTypeOK
    <3>2. compareSize = IF Len(orig) <= Len(new) THEN Len(orig) ELSE Len(new)
      BY <3>1, ShorterIs DEF compareSize
    <3>3. \A p \in positions : p \in Nat /\ p < Len(orig) /\ p < Len(before)
      BY BetweenHas, DifferingIs DEF IInv, DiffTypeOK
    <3> HIDE DEF positions
    <3> QED
      BY <1>2, <3>1, <3>2, <3>3
  <2>2. positions \subseteq RestoredUpTo(L)
    BY <1>1, <2>1 DEF IInv, Listed, RestoredUpTo
  <2>3. positions = RestoredUpTo(L)
    BY <1>1, <2>2, ListedAreSome
  <2>4. L \in 0 .. Len(diffs)
    BY <1>2
  <2>5. Cardinality(RestoredUpTo(L)) = L
    BY <1>1, <2>4, ListCount
  <2> QED
    BY <2>3, <2>5
<1>6. L = IF unlimited THEN N ELSE Min({N, Max({Limit, 0})})
  <2>1. CASE ~ Limited
    <3>1. i >= compareSize
      BY <2>1 DEF Sized
    <3> QED
      BY <1>4, <1>5, <2>1, <3>1
  <2>2. CASE Limited
    <3>1. Max({Limit, 0}) = Cap /\ Cap \in Nat
      <4>1. Max({flags.n, 0}) = IF flags.n > 0 THEN flags.n ELSE 0
        BY <1>4, GreaterIs
      <4> QED
        BY <1>4, <4>1 DEF Cap
    <3>2. Min({N, Cap}) = IF N <= Cap THEN N ELSE Cap
      BY <1>3, <3>1, ShorterIs
    <3>3. L <= Cap /\ (L = N \/ L >= flags.n)
      BY <1>1, <1>5, <2>2 DEF Sized
    <3> HIDE DEF L, N
    <3>4. L = IF N <= Cap THEN N ELSE Cap
      BY <1>2, <1>3, <1>4, <3>3 DEF Cap
    <3> HIDE DEF unlimited
    <3> QED
      BY <1>4, <2>2, <3>1, <3>2, <3>4
  <2> QED
    BY <2>1, <2>2
<1>7. \A k \in DOMAIN diffs :
         /\ diffs[k].offset \in positions
         /\ Cardinality({p \in positions : p <= diffs[k].offset}) = k
         /\ diffs[k].orig_value = orig[diffs[k].offset + 1]
         /\ diffs[k].new_value = before[diffs[k].offset + 1]
  BY <1>1, <1>2, ElementCount DEF IInv, Listed
<1> QED
  BY <1>6, <1>7 DEF ListRight

(* The list holds exactly the differences that were asked for, in their    *)
(* order, for all files and options: the ones that count are found however *)
(* many others are before or behind them.                                  *)
THEOREM ListCorrect == ToolsSpec => []ListRight
<1>1. DiffInit => Sized
  BY DEF DiffInit, Sized, Running
<1>2. IInv /\ IInv' /\ Sized /\ [DiffNext]_diffVars => Sized'
  BY SizedStep
<1>3. IInv /\ Sized => ListRight
  BY ListIsRight
<1> QED
  BY <1>1, <1>2, <1>3, Inv, PTL DEF ToolsSpec

-------------------------------------------------------------------------------
(* Comparing strings.  A string of C holds no 0, so the 0 behind it tells  *)
(* where it ends.  Both versions of cmpstr leave their loop at the first   *)
(* place where a string ends or the bytes differ, and decide there.        *)

String(s) == s \in Seq(1 .. 255) /\ Len(s) <= MaxLen

LEMMA AtIs ==
    ASSUME NEW s, String(s), NEW k \in Nat \ {0}
    PROVE  at(s, k) \in 0 .. 255 /\ (at(s, k) = 0 <=> k > Len(s))
<1>1. DOMAIN s = 1 .. Len(s) /\ Len(s) \in Nat /\ s \in Seq(1 .. 255)
  BY DEF String
<1>2. CASE k \in 1 .. Len(s)
  <2>1. at(s, k) = s[k]
    BY <1>1, <1>2 DEF at
  <2>2. s[k] \in 1 .. 255
    BY <1>1, <1>2, ElementOfSeq
  <2>3. ~ (k > Len(s))
    BY <1>1, <1>2
  <2>4. at(s, k) \in 1 .. 255
    BY <2>1, <2>2
  <2>5. at(s, k) \in 0 .. 255 /\ at(s, k) # 0
    BY <2>4
  <2> QED
    BY <2>3, <2>5
<1>3. CASE k \notin 1 .. Len(s)
  BY <1>1, <1>3 DEF at
<1> QED
  BY <1>2, <1>3

(* The loops are left at e, and not before. *)
Leaves(s, t, e) ==
    /\ e \in 1 .. Len(s) + 1
    /\ at(s, e) = 0 \/ at(t, e) = 0 \/ at(s, e) # at(t, e)
    /\ \A j \in 1 .. e - 1 : at(s, j) = at(t, j) /\ at(s, j) # 0

LEMMA LeavesSome == ASSUME NEW s, NEW t, String(s) PROVE \E e : Leaves(s, t, e)
<1> DEFINE left(k) == at(s, k) = 0 \/ at(t, k) = 0 \/ at(s, k) # at(t, k)
           S == {k \in 1 .. Len(s) + 1 : left(k)}
<1>1. Len(s) \in Nat
  BY DEF String
<1>2. at(s, Len(s) + 1) = 0
  BY <1>1, AtIs
<1>3. S \in SUBSET Nat /\ S # {}
  BY <1>1, <1>2
<1>4. PICK e \in S : \A y \in S : e <= y
  <2> HIDE DEF S
  <2> QED
    BY <1>3, LeastElement
<1>5. ASSUME NEW j \in 1 .. e - 1 PROVE ~ left(j)
  <2>1. j \in 1 .. Len(s) + 1 /\ ~ (e <= j)
    BY <1>1, <1>4
  <2> HIDE DEF left
  <2> QED
    BY <1>4, <2>1
<1>6. Leaves(s, t, e)
  BY <1>4, <1>5 DEF Leaves
<1> QED
  BY <1>6

LEMMA AsmIs ==
    ASSUME NEW s, NEW t, String(s), NEW e, Leaves(s, t, e)
    PROVE  cmpstr_asm(s, t) = at(s, e) - at(t, e)
<1> DEFINE left(k) == at(s, k) = 0 \/ at(t, k) = 0 \/ at(s, k) # at(t, k)
           P(k) == left(k) /\ \A j \in 1 .. k - 1 : ~ left(j)
           eax == CHOOSE k \in 1 .. Len(s) + 1 : P(k)
<1>1. Len(s) \in Nat
  BY DEF String
<1>2. e \in 1 .. Len(s) + 1 /\ P(e)
  BY DEF Leaves
<1>3. ASSUME NEW k \in 1 .. Len(s) + 1, P(k) PROVE k = e
  <2>1. ~ (k \in 1 .. e - 1) /\ ~ (e \in 1 .. k - 1)
    <3> HIDE DEF left
    <3> QED
      BY <1>2, <1>3
  <2> QED
    BY <1>1, <1>2, <2>1
<1>4. eax = e
  <2> HIDE DEF P
  <2> QED
    BY <1>2, <1>3
<1>5. cmpstr_asm(s, t) = at(s, eax) - at(t, eax)
  BY DEF cmpstr_asm
<1> HIDE DEF eax
<1> QED
  BY <1>4, <1>5

LEMMA InCIs ==
    ASSUME NEW s, NEW t, String(s), NEW e, Leaves(s, t, e)
    PROVE  cmpstr(s, t) = returned(char(at(s, e)), char(at(t, e)), at(s, e) # 0 \/ at(t, e) # 0)
<1> DEFINE goes(k) == at(s, k) # 0 \/ at(t, k) # 0
           P(k) == /\ ~ goes(k) \/ at(s, k) # at(t, k)
                   /\ \A j \in 1 .. k - 1 : goes(j) /\ at(s, j) = at(t, j)
           curr == CHOOSE k \in 1 .. Len(s) + 1 : P(k)
<1>1. Len(s) \in Nat
  BY DEF String
<1>2. e \in 1 .. Len(s) + 1 /\ P(e)
  BY DEF Leaves
<1>3. ASSUME NEW k \in 1 .. Len(s) + 1, P(k) PROVE k = e
  <2>1. ~ (k \in 1 .. e - 1) /\ ~ (e \in 1 .. k - 1)
    <3> HIDE DEF goes
    <3> QED
      BY <1>2, <1>3
  <2> QED
    BY <1>1, <1>2, <2>1
<1>4. curr = e
  <2> HIDE DEF P
  <2> QED
    BY <1>2, <1>3
<1>5. cmpstr(s, t) = returned(char(at(s, curr)), char(at(t, curr)), at(s, curr) # 0 \/ at(t, curr) # 0)
  BY DEF cmpstr
<1> HIDE DEF curr
<1> QED
  BY <1>4, <1>5

(* A string as a number: the first byte that differs decides, as all that  *)
(* follow it are worth less than it.                                       *)
Weighed(s, f, k) == IF k = 0 THEN 0 ELSE 256 * f[k - 1] + at(s, k)
Weights(s) == CHOOSE weight : weight = [k \in 0 .. MaxLen |-> Weighed(s, weight, k)]

LEMMA WeightsFor == ASSUME NEW s PROVE Weight(s) = Weights(s)[MaxLen]
  BY DEF Weight, Weights, Weighed

LEMMA WeightsAre ==
    ASSUME NEW s
    PROVE  \A k \in 0 .. MaxLen : Weights(s)[k] = Weighed(s, Weights(s), k)
<1> DEFINE Fun(f, m) == [k \in 0 .. m |-> Weighed(s, f, k)]
           S == {m \in Nat : \E f : f = Fun(f, m)}
<1>1. 0 \in S
  <2> DEFINE f == [k \in 0 .. 0 |-> 0]
  <2>1. f = Fun(f, 0)
    BY DEF Weighed
  <2> QED
    BY <2>1
<1>2. ASSUME NEW m \in S PROVE m + 1 \in S
  <2>1. m \in Nat
    OBVIOUS
  <2>2. PICK f : f = Fun(f, m)
    OBVIOUS
  <2> DEFINE g == [k \in 0 .. m + 1 |-> IF k <= m THEN f[k] ELSE Weighed(s, f, m + 1)]
  <2>3. ASSUME NEW k \in 0 .. m + 1 PROVE g[k] = Weighed(s, g, k)
    <3>1. CASE k <= m
      <4>1. k \in 0 .. m
        BY <2>1, <3>1
      <4>2. f[k] = Weighed(s, f, k)
        BY <2>2, <4>1
      <4>3. k # 0 => k - 1 \in 0 .. m + 1 /\ k - 1 <= m
        BY <2>1, <4>1
      <4> QED
        BY <3>1, <4>2, <4>3 DEF Weighed
    <3>2. CASE k = m + 1
      <4>1. k # 0 /\ k - 1 \in 0 .. m + 1 /\ k - 1 = m /\ ~ (k <= m) /\ m <= m
        BY <2>1, <3>2
      <4> QED
        BY <2>1, <3>2, <4>1 DEF Weighed
    <3> QED
      BY <2>1, <3>1, <3>2
  <2>4. g = Fun(g, m + 1)
    BY <2>3
  <2>5. \E f1 : f1 = Fun(f1, m + 1)
    <3> HIDE DEF g, Fun
    <3> QED
      BY <2>4
  <2> HIDE DEF Fun
  <2> QED
    BY <2>1, <2>5
<1>3. S = Nat
  <2>1. S \in SUBSET Nat
    OBVIOUS
  <2> HIDE DEF S
  <2> QED
    BY <1>1, <1>2, <2>1, FromZero
<1>4. \E f : f = Fun(f, MaxLen)
  BY <1>3, DiffAssumption
<1>5. Weights(s) = Fun(Weights(s), MaxLen)
  BY <1>4, Zenon DEF Weights
<1> QED
  BY <1>5

LEMMA FirstDecides ==
    ASSUME NEW s, NEW t, String(s), String(t), NEW e, Leaves(s, t, e)
    PROVE  /\ Weight(s) \in Int /\ Weight(t) \in Int
           /\ at(s, e) = at(t, e) => Weight(s) = Weight(t)
           /\ at(s, e) > at(t, e) => Weight(s) > Weight(t)
           /\ at(s, e) < at(t, e) => Weight(s) < Weight(t)
<1> DEFINE v == Weights(s)
           w == Weights(t)
           Order(n) == /\ v[n] \in Int /\ w[n] \in Int
                       /\ n < e \/ at(s, e) = at(t, e) => v[n] = w[n]
                       /\ n >= e /\ at(s, e) > at(t, e) => v[n] > w[n]
                       /\ n >= e /\ at(s, e) < at(t, e) => v[n] < w[n]
           S == {n \in Nat : n <= MaxLen => Order(n)}
<1>1. /\ MaxLen \in Nat /\ Len(s) \in Nat /\ Len(t) \in Nat /\ Len(s) <= MaxLen /\ Len(t) <= MaxLen
      /\ e \in 1 .. Len(s) + 1
  BY DiffAssumption DEF String, Leaves
<1>2. \A k \in 0 .. MaxLen : v[k] = Weighed(s, v, k) /\ w[k] = Weighed(t, w, k)
  BY WeightsAre
<1> HIDE DEF v, w
<1>3. ASSUME at(s, e) = at(t, e), NEW j \in Nat \ {0}
      PROVE  at(s, j) = at(t, j)
  <2>1. at(s, e) = 0 /\ at(t, e) = 0
    BY <1>3 DEF Leaves
  <2>2. e > Len(s) /\ e > Len(t)
    BY <1>1, <2>1, AtIs
  <2>3. CASE j < e
    BY <1>1, <2>3 DEF Leaves
  <2>4. CASE j >= e
    BY <1>1, <2>2, <2>4, AtIs
  <2> QED
    BY <1>1, <2>3, <2>4
<1>4. 0 \in S
  <2>1. v[0] = 0 /\ w[0] = 0
    BY <1>1, <1>2 DEF Weighed
  <2> QED
    BY <1>1, <2>1
<1>5. ASSUME NEW n \in Nat, n + 1 <= MaxLen, Order(n) PROVE Order(n + 1)
  <2> DEFINE a == at(s, n + 1)
             b == at(t, n + 1)
  <2>1. /\ v[n + 1] = 256 * v[n] + a
        /\ w[n + 1] = 256 * w[n] + b
    <3>1. n + 1 \in 0 .. MaxLen /\ n + 1 # 0 /\ (n + 1) - 1 = n
      BY <1>1, <1>5
    <3> QED
      BY <1>2, <3>1 DEF Weighed
  <2>2. a \in 0 .. 255 /\ b \in 0 .. 255
    BY AtIs
  <2>3. n + 1 < e \/ at(s, e) = at(t, e) => a = b
    <3>1. n + 1 < e => n + 1 \in 1 .. e - 1
      BY <1>1
    <3> QED
      BY <1>3, <3>1 DEF Leaves
  <2>4. n + 1 = e => a = at(s, e) /\ b = at(t, e)
    OBVIOUS
  <2>5. e \in Nat /\ at(s, e) \in 0 .. 255 /\ at(t, e) \in 0 .. 255
    BY <1>1, AtIs
  <2> DEFINE x == at(s, e)
             y == at(t, e)
             v0 == v[n]
             w0 == w[n]
             v1 == v[n + 1]
             w1 == w[n + 1]
  <2>6. /\ v0 \in Int /\ w0 \in Int
        /\ n < e \/ x = y => v0 = w0
        /\ n >= e /\ x > y => v0 > w0
        /\ n >= e /\ x < y => v0 < w0
        /\ v1 = 256 * v0 + a /\ w1 = 256 * w0 + b
        /\ n + 1 < e \/ x = y => a = b
        /\ n + 1 = e => a = x /\ b = y
        /\ x \in 0 .. 255 /\ y \in 0 .. 255 /\ e \in Nat /\ n \in Nat
        /\ a \in 0 .. 255 /\ b \in 0 .. 255
    BY <1>5, <2>1, <2>2, <2>3, <2>4, <2>5
  <2>7. /\ v1 \in Int /\ w1 \in Int
        /\ n + 1 < e \/ x = y => v1 = w1
        /\ n + 1 >= e /\ x > y => v1 > w1
        /\ n + 1 >= e /\ x < y => v1 < w1
    <3> HIDE DEF a, b, x, y, v0, w0, v1, w1
    <3> QED
      BY <2>6
  <2> QED
    BY <2>7
<1>6. S = Nat
  <2>1. S \in SUBSET Nat
    OBVIOUS
  <2>2. \A n \in S : n + 1 \in S
    <3> SUFFICES ASSUME NEW n \in S, n + 1 <= MaxLen PROVE Order(n + 1)
      OBVIOUS
    <3>1. n \in Nat /\ n <= MaxLen
      BY <1>1
    <3>2. Order(n)
      BY <3>1
    <3> HIDE DEF Order
    <3> QED
      BY <1>5, <3>1, <3>2
  <2> HIDE DEF S
  <2> QED
    BY <1>4, <2>1, <2>2, FromZero
<1>7. Order(MaxLen)
  BY <1>1, <1>6
<1>8. Weight(s) = v[MaxLen] /\ Weight(t) = w[MaxLen]
  BY WeightsFor DEF v, w
<1>9. MaxLen < e => at(s, e) = at(t, e)
  <2> SUFFICES ASSUME MaxLen < e PROVE at(s, e) = at(t, e)
    OBVIOUS
  <2>1. e > Len(s) /\ e > Len(t) /\ e \in Nat \ {0}
    BY <1>1
  <2> QED
    BY <1>1, <2>1, AtIs
<1>10. at(s, e) \in 0 .. 255 /\ at(t, e) \in 0 .. 255 /\ e \in Nat
  BY <1>1, AtIs
<1>11. /\ e \in Nat /\ at(s, e) \in 0 .. 255 /\ at(t, e) \in 0 .. 255
       /\ v[MaxLen] \in Int /\ w[MaxLen] \in Int
       /\ at(s, e) = at(t, e) => v[MaxLen] = w[MaxLen]
       /\ at(s, e) > at(t, e) => v[MaxLen] > w[MaxLen]
       /\ at(s, e) < at(t, e) => v[MaxLen] < w[MaxLen]
  <2> DEFINE x == at(s, e)
             y == at(t, e)
  <2>1. /\ e \in Nat /\ MaxLen \in Nat /\ x \in 0 .. 255 /\ y \in 0 .. 255
        /\ MaxLen < e => x = y
        /\ v[MaxLen] \in Int /\ w[MaxLen] \in Int
        /\ x = y => v[MaxLen] = w[MaxLen]
        /\ MaxLen >= e /\ x > y => v[MaxLen] > w[MaxLen]
        /\ MaxLen >= e /\ x < y => v[MaxLen] < w[MaxLen]
    BY <1>1, <1>7, <1>9, <1>10
  <2> HIDE DEF x, y
  <2>2. MaxLen >= e \/ MaxLen < e
    BY <2>1
  <2>3. (x > y => x # y) /\ (x < y => x # y)
    BY <2>1
  <2>4. (x > y => MaxLen >= e) /\ (x < y => MaxLen >= e)
    BY <2>1, <2>2, <2>3
  <2> QED
    BY <2>1, <2>4 DEF x, y
<1> QED
  BY <1>8, <1>11

(* Which place CompareAgree looks at. *)
FirstDiffering(s, t) ==
    Min({j \in 1 .. MaxLen + 1 : at(s, j) # at(t, j)} \cup {MaxLen + 1})

LEMMA FirstDifferingIs ==
    ASSUME NEW s, NEW t, String(s), String(t), NEW e, Leaves(s, t, e)
    PROVE  /\ at(s, FirstDiffering(s, t)) = at(s, e)
           /\ at(t, FirstDiffering(s, t)) = at(t, e)
<1> DEFINE S == {j \in 1 .. MaxLen + 1 : at(s, j) # at(t, j)} \cup {MaxLen + 1}
<1>1. /\ MaxLen \in Nat /\ Len(s) \in Nat /\ Len(t) \in Nat /\ Len(s) <= MaxLen /\ Len(t) <= MaxLen
      /\ e \in 1 .. Len(s) + 1
  BY DiffAssumption DEF String, Leaves
<1>2. \A j \in 1 .. e - 1 : at(s, j) = at(t, j)
  BY DEF Leaves
<1>3. FirstDiffering(s, t) = Min(S)
  BY DEF FirstDiffering
<1>4. CASE at(s, e) # at(t, e)
  <2>1. e \in S /\ S \subseteq Int
    BY <1>1, <1>4
  <2>2. \A y \in S : e <= y
    BY <1>1, <1>2
  <2>3. Min(S) = e
    <3> HIDE DEF S
    <3> QED
      BY <2>1, <2>2, LeastIs
  <2> QED
    BY <1>3, <2>3
<1>5. CASE at(s, e) = at(t, e)
  <2>1. at(s, e) = 0 /\ at(t, e) = 0
    BY <1>5 DEF Leaves
  <2>2. e > Len(s) /\ e > Len(t)
    BY <1>1, <2>1, AtIs
  <2>3. ASSUME NEW j \in 1 .. MaxLen + 1 PROVE at(s, j) = at(t, j)
    <3>1. j \in Nat \ {0} /\ (j \in 1 .. e - 1 \/ (j > Len(s) /\ j > Len(t)))
      BY <1>1, <2>2
    <3> QED
      BY <1>2, <3>1, AtIs
  <2>4. S = {MaxLen + 1}
    BY <2>3
  <2>5. Min(S) = MaxLen + 1
    <3>1. S \subseteq Int /\ MaxLen + 1 \in S /\ \A y \in S : MaxLen + 1 <= y
      BY <1>1, <2>4
    <3> HIDE DEF S
    <3> QED
      BY <3>1, LeastIs
  <2>6. at(s, MaxLen + 1) = 0 /\ at(t, MaxLen + 1) = 0
    <3>1. MaxLen + 1 \in Nat \ {0} /\ MaxLen + 1 > Len(s) /\ MaxLen + 1 > Len(t)
      BY <1>1
    <3> QED
      BY <3>1, AtIs
  <2> HIDE DEF S
  <2> QED
    BY <1>3, <2>1, <2>5, <2>6
<1> QED
  BY <1>4, <1>5

(* The bytes that C sees on different sides of 0. *)
Mixed(x, y) == (x >= 128) # (y >= 128)

LEMMA MixedIs ==
    ASSUME NEW x \in Int, NEW y \in Int
    PROVE  Mixed(x, y) <=> (x >= 128 /\ y < 128) \/ (x < 128 /\ y >= 128)
<1>1. Mixed(x, y) <=> (x >= 128 /\ ~ (y >= 128)) \/ (~ (x >= 128) /\ y >= 128)
  BY DEF Mixed
<1>2. (~ (x >= 128) <=> x < 128) /\ (~ (y >= 128) <=> y < 128)
  OBVIOUS
<1> QED
  BY <1>1, <1>2, Zenon

(* The two versions of my_cmp on a pair of bytes. *)
LEMMA WinnersAre ==
    ASSUME NEW x \in 0 .. 255, NEW y \in 0 .. 255
    PROVE  my_cmp(x, y) # my_cmp_asm(x, y) <=> x = y \/ Mixed(x, y)
<1>1. my_cmp_asm(x, y) = IF x < y THEN 2 ELSE 1
  BY DEF my_cmp_asm
<1>2. CASE Mixed(x, y)
  <2>1. (x >= 128 /\ y < 128) \/ (x < 128 /\ y >= 128)
    BY <1>2, MixedIs
  <2>2. my_cmp(x, y) = IF x >= 128 THEN 2 ELSE 1
    BY <2>1 DEF my_cmp, char
  <2>3. my_cmp(x, y) # my_cmp_asm(x, y)
    BY <1>1, <2>1, <2>2
  <2> QED
    BY <1>2, <2>3
<1>3. CASE ~ Mixed(x, y)
  <2>1. (x >= 128 /\ y >= 128) \/ (x < 128 /\ y < 128)
    BY <1>3, MixedIs
  <2>2. my_cmp(x, y) = IF x > y THEN 1 ELSE 2
    BY <2>1 DEF my_cmp, char
  <2>3. my_cmp(x, y) # my_cmp_asm(x, y) <=> x = y
    BY <1>1, <2>2
  <2> QED
    BY <1>3, <2>3
<1> QED
  BY <1>2, <1>3

(* The two versions of cmpstr where they decide. *)
LEMMA SignsAre ==
    ASSUME NEW x \in 0 .. 255, NEW y \in 0 .. 255, x = 0 \/ y = 0 \/ x # y
    PROVE  Sign(returned(char(x), char(y), x # 0 \/ y # 0)) =
             IF Mixed(x, y) THEN - Sign(x - y) ELSE Sign(x - y)
<1>1. CASE x = 0 /\ y = 0
  <2>1. ~ (x # 0 \/ y # 0) /\ char(x) = 0 /\ char(y) = 0 /\ x - y = 0
    BY <1>1 DEF char
  <2>2. returned(char(x), char(y), x # 0 \/ y # 0) = 0
    BY <2>1 DEF returned
  <2>3. ~ Mixed(x, y)
    BY <1>1, MixedIs
  <2> QED
    BY <2>1, <2>2, <2>3
<1>2. CASE x # 0 \/ y # 0
  <2>1. x # y
    BY <1>2
  <2>2. returned(char(x), char(y), x # 0 \/ y # 0) = char(x) - char(y)
    BY <1>2 DEF returned
  <2>3. CASE Mixed(x, y)
    <3>1. (x >= 128 /\ y < 128) \/ (x < 128 /\ y >= 128)
      BY <2>3, MixedIs
    <3>2. Sign(char(x) - char(y)) = - Sign(x - y)
      BY <3>1 DEF char, Sign
    <3> QED
      BY <2>2, <2>3, <3>2
  <2>4. CASE ~ Mixed(x, y)
    <3>1. (x >= 128 /\ y >= 128) \/ (x < 128 /\ y < 128)
      BY <2>4, MixedIs
    <3>2. char(x) - char(y) = x - y
      BY <3>1 DEF char
    <3> QED
      BY <2>2, <2>4, <3>2
  <2> QED
    BY <2>3, <2>4
<1> QED
  BY <1>1, <1>2

(* What is said of two strings holds of all of them. *)
LEMMA StringsCompared == String(orig) /\ String(new) => CompareAgree
<1> SUFFICES ASSUME String(orig), String(new) PROVE CompareAgree
  OBVIOUS
<1> DEFINE k == FirstDiffering(orig, new)
           mixed == Mixed(at(orig, k), at(new, k))
<1>1. PICK e : Leaves(orig, new, e)
  BY LeavesSome
<1> DEFINE x == at(orig, e)
           y == at(new, e)
<1>2. /\ x \in 0 .. 255 /\ y \in 0 .. 255
      /\ x = 0 \/ y = 0 \/ x # y
  <2>1. e \in Nat \ {0}
    BY <1>1 DEF Leaves, String
  <2> QED
    BY <1>1, <2>1, AtIs DEF Leaves
<1>3. cmpstr_asm(orig, new) = x - y
  BY <1>1, AsmIs
<1>4. Sign(cmpstr_asm(orig, new)) = Sign(Weight(orig) - Weight(new))
  <2> DEFINE a == Weight(orig)
             b == Weight(new)
  <2>1. /\ a \in Int /\ b \in Int
        /\ (x = y => a = b) /\ (x > y => a > b) /\ (x < y => a < b)
    BY <1>1, FirstDecides
  <2>2. Sign(x - y) = Sign(a - b)
    <3> HIDE DEF a, b, x, y
    <3> QED
      BY <1>2, <2>1 DEF Sign
  <2> QED
    BY <1>3, <2>2
<1>5. Sign(cmpstr(orig, new)) = IF mixed THEN - Sign(cmpstr_asm(orig, new)) ELSE Sign(cmpstr_asm(orig, new))
  <2>1. at(orig, k) = x /\ at(new, k) = y
    BY <1>1, FirstDifferingIs
  <2>2. cmpstr(orig, new) = returned(char(x), char(y), x # 0 \/ y # 0)
    BY <1>1, InCIs
  <2>3. Sign(returned(char(x), char(y), x # 0 \/ y # 0)) =
          IF Mixed(x, y) THEN - Sign(x - y) ELSE Sign(x - y)
    BY <1>2, SignsAre
  <2> QED
    BY <1>3, <2>1, <2>2, <2>3, Zenon
<1>6. my_cmp(at(orig, 1), at(new, 1)) # my_cmp_asm(at(orig, 1), at(new, 1)) <=>
         at(orig, 1) = at(new, 1) \/ Mixed(at(orig, 1), at(new, 1))
  <2>1. at(orig, 1) \in 0 .. 255 /\ at(new, 1) \in 0 .. 255
    BY AtIs
  <2> QED
    BY <2>1, WinnersAre
<1>7. k = Min({j \in 1 .. MaxLen + 1 : at(orig, j) # at(new, j)} \cup {MaxLen + 1})
  BY DEF FirstDiffering
<1> HIDE DEF k
<1> QED
  BY <1>4, <1>5, <1>6, <1>7, Zenon DEF CompareAgree, Mixed

(* For all strings, of bytes other than the 0 behind them, the two         *)
(* versions of cmpstr and of my_cmp agree where CompareAgree says they do. *)
THEOREM ComparisonsAgree == ASSUME 0 \notin Bytes PROVE ToolsSpec => []CompareAgree
<1>1. DiffTypeOK => String(orig) /\ String(new)
  <2>1. ASSUME NEW f \in Files PROVE String(f)
    <3>1. Len(f) \in 0 .. MaxLen /\ Len(f) \in Nat /\ f \in [1 .. Len(f) -> Bytes]
      BY FileLength
    <3>2. Bytes \subseteq 1 .. 255
      BY DiffAssumption
    <3>3. Len(f) <= MaxLen
      BY <3>1, DiffAssumption
    <3>4. f \in Seq(1 .. 255)
      <4>1. PICK n \in Nat : f \in [1 .. n -> Bytes]
        BY <3>1, Zenon
      <4>2. f \in [1 .. n -> 1 .. 255]
        BY <3>2, <4>1
      <4> QED
        BY <4>2
    <3> QED
      BY <3>3, <3>4 DEF String
  <2> QED
    BY <2>1 DEF DiffTypeOK
<1> QED
  BY <1>1, StringsCompared, DiffTypeCorrect, PTL

-------------------------------------------------------------------------------
(* The encoder. *)

Readable(s) == {k \in DOMAIN s : \A j \in 1 .. k : s[j] # 255}

(* It reads up to the first byte 255, which looks like the end of a file. *)
LEMMA TakenIs ==
    ASSUME NEW s \in Seq(0 .. 255)
    PROVE  /\ DOMAIN taken(s) = Readable(s)
           /\ \E n \in Nat : Readable(s) = 1 .. n
<1> DEFINE I == {i1 \in 1 .. Len(s) : char(s[i1]) = -1}
           end == IF I # {} THEN Min(I) ELSE 0
<1>1. taken(s) = IF end = 0 THEN s ELSE SubSeq(s, 1, end - 1)
  BY DEF taken, SelectInSeq
<1>2. Len(s) \in Nat /\ DOMAIN s = 1 .. Len(s)
  OBVIOUS
<1>3. \A k \in 1 .. Len(s) : s[k] \in 0 .. 255
  BY ElementOfSeq
<1>4. I = {k \in 1 .. Len(s) : s[k] = 255}
  <2>1. \A k \in 1 .. Len(s) : (char(s[k]) = -1) <=> (s[k] = 255)
    <3> SUFFICES ASSUME NEW k \in 1 .. Len(s) PROVE (char(s[k]) = -1) <=> (s[k] = 255)
      OBVIOUS
    <3> DEFINE c == s[k]
    <3>1. c \in 0 .. 255
      BY <1>3
    <3> HIDE DEF c
    <3>2. (char(c) = -1) <=> (c = 255)
      BY <3>1 DEF char
    <3> QED
      BY <3>2 DEF c
  <2> QED
    BY <2>1
<1>5. CASE I = {}
  <2>1. end = 0
    BY <1>5
  <2>2. taken(s) = s
    BY <1>1, <2>1
  <2>3. Readable(s) = 1 .. Len(s)
    <3>1. \A k \in 1 .. Len(s) : s[k] # 255
      BY <1>4, <1>5
    <3>2. \A k \in 1 .. Len(s) : \A j \in 1 .. k : j \in 1 .. Len(s)
      BY <1>2
    <3> QED
      BY <1>2, <3>1, <3>2 DEF Readable
  <2> QED
    BY <1>2, <2>2, <2>3
<1>6. CASE I # {}
  <2>1. I \in SUBSET Nat /\ I \subseteq Int
    BY <1>2
  <2>2. PICK m \in I : \A y \in I : m <= y
    <3> HIDE DEF I
    <3> QED
      BY <1>6, <2>1, LeastElement
  <2>3. end = m
    <3> HIDE DEF I
    <3> QED
      BY <1>6, <2>1, <2>2, LeastIs
  <2>4. m \in 1 .. Len(s) /\ s[m] = 255
    BY <1>4, <2>2
  <2>5. ASSUME NEW j \in 1 .. m - 1 PROVE s[j] # 255
    <3>1. j \in 1 .. Len(s) /\ ~ (m <= j)
      BY <1>2, <2>4
    <3>2. j \notin I
      <4> HIDE DEF I
      <4> QED
        BY <2>2, <3>1
    <3> QED
      BY <1>4, <3>1, <3>2
  <2>6. taken(s) = SubSeq(s, 1, m - 1)
    <3>1. end # 0
      BY <1>2, <2>3, <2>4
    <3> HIDE DEF end
    <3> QED
      BY <1>1, <2>3, <3>1
  <2>7. DOMAIN SubSeq(s, 1, m - 1) = 1 .. m - 1
    <3>1. m - 1 \in Int /\ \A j \in 1 .. m - 1 : s[j] \in 0 .. 255
      BY <1>2, <1>3, <2>4
    <3>2. /\ SubSeq(s, 1, m - 1) \in Seq(0 .. 255)
          /\ Len(SubSeq(s, 1, m - 1)) = IF 1 <= m - 1 THEN (m - 1) - 1 + 1 ELSE 0
      BY <3>1, SubSeqProperties
    <3>3. (IF 1 <= m - 1 THEN (m - 1) - 1 + 1 ELSE 0) = m - 1
      BY <1>2, <2>4
    <3> QED
      BY <3>2, <3>3, LenProperties
  <2>8. Readable(s) = 1 .. m - 1
    <3>1. ASSUME NEW k \in Readable(s) PROVE k \in 1 .. m - 1
      <4>1. k \in 1 .. Len(s) /\ \A j \in 1 .. k : s[j] # 255
        BY <1>2 DEF Readable
      <4>2. m \notin 1 .. k
        BY <2>4, <4>1
      <4> QED
        BY <1>2, <2>4, <4>1, <4>2
    <3>2. ASSUME NEW k \in 1 .. m - 1 PROVE k \in Readable(s)
      <4>1. k \in 1 .. Len(s) /\ \A j \in 1 .. k : j \in 1 .. m - 1
        BY <1>2, <2>4
      <4> QED
        BY <1>2, <2>5, <4>1 DEF Readable
    <3> QED
      BY <3>1, <3>2
  <2>9. m - 1 \in Nat
    BY <1>2, <2>4
  <2> QED
    BY <2>6, <2>7, <2>8, <2>9
<1> QED
  BY <1>5, <1>6

(* Eight digits, and the number they stand for. *)
Shift(f, dec, k) == IF k = 7 THEN dec ELSE f[k + 1] \div 2
Shifts(dec) == CHOOSE shifted : shifted = [k \in 0 .. 7 |-> Shift(shifted, dec, k)]

LEMMA ShiftsFor == ASSUME NEW dec PROVE getBinary(dec) = [k \in 0 .. 7 |-> Shifts(dec)[k] % 2]
  BY DEF getBinary, Shifts, Shift

LEMMA ShiftsAre ==
    ASSUME NEW dec \in Int
    PROVE  \A k \in 0 .. 7 : Shifts(dec)[k] = Shift(Shifts(dec), dec, k)
<1> DEFINE s6 == dec \div 2
           s5 == s6 \div 2
           s4 == s5 \div 2
           s3 == s4 \div 2
           s2 == s3 \div 2
           s1 == s2 \div 2
           s0 == s1 \div 2
           f == [k \in 0 .. 7 |-> IF k = 0 THEN s0 ELSE IF k = 1 THEN s1 ELSE IF k = 2 THEN s2
                                  ELSE IF k = 3 THEN s3 ELSE IF k = 4 THEN s4 ELSE IF k = 5 THEN s5
                                  ELSE IF k = 6 THEN s6 ELSE dec]
<1>1. /\ f[0] = s0 /\ f[1] = s1 /\ f[2] = s2 /\ f[3] = s3
      /\ f[4] = s4 /\ f[5] = s5 /\ f[6] = s6 /\ f[7] = dec
  <2> HIDE DEF s0, s1, s2, s3, s4, s5, s6
  <2> QED
    OBVIOUS
<1>2. ASSUME NEW k \in 0 .. 7 PROVE f[k] = Shift(f, dec, k)
  <2>1. k = 0 \/ k = 1 \/ k = 2 \/ k = 3 \/ k = 4 \/ k = 5 \/ k = 6 \/ k = 7
    OBVIOUS
  <2> HIDE DEF f
  <2> QED
    BY <1>1, <2>1 DEF Shift
<1>3. f = [k \in 0 .. 7 |-> Shift(f, dec, k)]
  <2>1. f = [k \in 0 .. 7 |-> f[k]]
    OBVIOUS
  <2> HIDE DEF f
  <2> QED
    BY <1>2, <2>1
<1> HIDE DEF f
<1>4. Shifts(dec) = [k \in 0 .. 7 |-> Shift(Shifts(dec), dec, k)]
  BY <1>3, Zenon DEF Shifts
<1> QED
  BY <1>4

Worth(f, digits, k) == IF k = 0 THEN 0 ELSE 2 * f[k - 1] + digits[k - 1]
Worths(digits) == CHOOSE value : value = [k \in 0 .. 8 |-> Worth(value, digits, k)]

LEMMA WorthsAre == ASSUME NEW d PROVE \A k \in 0 .. 8 : Worths(d)[k] = Worth(Worths(d), d, k)
<1> DEFINE v1 == 2 * 0 + d[0]
           v2 == 2 * v1 + d[1]
           v3 == 2 * v2 + d[2]
           v4 == 2 * v3 + d[3]
           v5 == 2 * v4 + d[4]
           v6 == 2 * v5 + d[5]
           v7 == 2 * v6 + d[6]
           v8 == 2 * v7 + d[7]
           f == [k \in 0 .. 8 |-> IF k = 0 THEN 0 ELSE IF k = 1 THEN v1 ELSE IF k = 2 THEN v2
                                  ELSE IF k = 3 THEN v3 ELSE IF k = 4 THEN v4 ELSE IF k = 5 THEN v5
                                  ELSE IF k = 6 THEN v6 ELSE IF k = 7 THEN v7 ELSE v8]
<1>1. /\ f[0] = 0 /\ f[1] = v1 /\ f[2] = v2 /\ f[3] = v3
      /\ f[4] = v4 /\ f[5] = v5 /\ f[6] = v6 /\ f[7] = v7 /\ f[8] = v8
  <2> HIDE DEF v1, v2, v3, v4, v5, v6, v7, v8
  <2> QED
    OBVIOUS
<1>2. ASSUME NEW k \in 0 .. 8 PROVE f[k] = Worth(f, d, k)
  <2>1. k = 0 \/ k = 1 \/ k = 2 \/ k = 3 \/ k = 4 \/ k = 5 \/ k = 6 \/ k = 7 \/ k = 8
    OBVIOUS
  <2> HIDE DEF f
  <2> QED
    BY <1>1, <2>1 DEF Worth
<1>3. f = [k \in 0 .. 8 |-> Worth(f, d, k)]
  <2>1. f = [k \in 0 .. 8 |-> f[k]]
    OBVIOUS
  <2> HIDE DEF f
  <2> QED
    BY <1>2, <2>1
<1> HIDE DEF f
<1>4. Worths(d) = [k \in 0 .. 8 |-> Worth(Worths(d), d, k)]
  BY <1>3, Zenon DEF Worths
<1> QED
  BY <1>4

Half(q) == q \div 2
Bit(q) == q % 2

LEMMA HalfIs == \A q \in Int : Half(q) \in Int /\ Bit(q) \in 0 .. 1 /\ q = 2 * Half(q) + Bit(q)
  BY DEF Half, Bit

LEMMA DigitsStandFor ==
    ASSUME NEW dec \in Int
    PROVE  Worths(getBinary(dec))[8] = dec % 256
<1> DEFINE d == getBinary(dec)
           s == Shifts(dec)
           v == Worths(d)
<1>1. /\ s[7] = dec /\ s[6] = Half(s[7]) /\ s[5] = Half(s[6]) /\ s[4] = Half(s[5])
      /\ s[3] = Half(s[4]) /\ s[2] = Half(s[3]) /\ s[1] = Half(s[2]) /\ s[0] = Half(s[1])
  BY ShiftsAre DEF Shift, Half
<1>2. /\ v[0] = 0 /\ v[1] = 2 * v[0] + d[0] /\ v[2] = 2 * v[1] + d[1] /\ v[3] = 2 * v[2] + d[2]
      /\ v[4] = 2 * v[3] + d[3] /\ v[5] = 2 * v[4] + d[4] /\ v[6] = 2 * v[5] + d[5]
      /\ v[7] = 2 * v[6] + d[6] /\ v[8] = 2 * v[7] + d[7]
  BY WorthsAre DEF Worth
<1>3. /\ d[0] = Bit(s[0]) /\ d[1] = Bit(s[1]) /\ d[2] = Bit(s[2]) /\ d[3] = Bit(s[3])
      /\ d[4] = Bit(s[4]) /\ d[5] = Bit(s[5]) /\ d[6] = Bit(s[6]) /\ d[7] = Bit(s[7])
  BY ShiftsFor DEF Bit
<1> HIDE DEF d, s, v
<1> DEFINE r == Half(s[0])
<1>4. s[6] \in Int /\ d[7] \in 0 .. 1 /\ dec = 2 * s[6] + d[7]
  BY <1>1, <1>3, HalfIs
<1>5. s[5] \in Int /\ d[6] \in 0 .. 1 /\ s[6] = 2 * s[5] + d[6]
  BY <1>1, <1>3, <1>4, HalfIs
<1>6. s[4] \in Int /\ d[5] \in 0 .. 1 /\ s[5] = 2 * s[4] + d[5]
  BY <1>1, <1>3, <1>5, HalfIs
<1>7. s[3] \in Int /\ d[4] \in 0 .. 1 /\ s[4] = 2 * s[3] + d[4]
  BY <1>1, <1>3, <1>6, HalfIs
<1>8. s[2] \in Int /\ d[3] \in 0 .. 1 /\ s[3] = 2 * s[2] + d[3]
  BY <1>1, <1>3, <1>7, HalfIs
<1>9. s[1] \in Int /\ d[2] \in 0 .. 1 /\ s[2] = 2 * s[1] + d[2]
  BY <1>1, <1>3, <1>8, HalfIs
<1>10. s[0] \in Int /\ d[1] \in 0 .. 1 /\ s[1] = 2 * s[0] + d[1]
  BY <1>1, <1>3, <1>9, HalfIs
<1>11. r \in Int /\ d[0] \in 0 .. 1 /\ s[0] = 2 * r + d[0]
  BY <1>1, <1>3, <1>10, HalfIs
<1> HIDE DEF r
<1>12. v[8] \in 0 .. 255 /\ dec = 256 * r + v[8]
  <2>1. v[2] \in 0 .. 3 /\ s[1] = 4 * r + v[2]
    BY <1>2, <1>10, <1>11
  <2>2. v[4] \in 0 .. 15 /\ s[3] = 16 * r + v[4]
    BY <1>2, <1>8, <1>9, <1>11, <2>1
  <2>3. v[6] \in 0 .. 63 /\ s[5] = 64 * r + v[6]
    BY <1>2, <1>6, <1>7, <1>11, <2>2
  <2> QED
    BY <1>2, <1>4, <1>5, <1>11, <2>3
<1>13. dec % 256 = v[8]
  BY <1>11, <1>12
<1> QED
  BY <1>13 DEF d, v

(* What is written for the bytes of a file. *)
Code(task, c) ==
    CASE c = 10 -> [byte |-> 10]
      [] c # 10 /\ task = "b" -> task1b(c)
      [] c # 10 /\ task = "c" -> task1c(c)
      [] c # 10 /\ task = "a" -> task1a(c)

Codes(task, s) == [k \in DOMAIN taken(s) |-> Code(task, s[k])]

LEMMA EncodedIs == ASSUME NEW task, NEW o, NEW s PROVE encoded(task, o, s) = Codes(task, s) \o farewell(o)
  BY Zenon DEF encoded, Codes, Code

(* A function on the first n numbers. *)
Lists(f, n) == f = [k \in 1 .. n |-> f[k]]

LEMMA ListsSeq ==
    ASSUME NEW S, NEW n \in Nat, NEW f \in [1 .. n -> S]
    PROVE  f \in Seq(S) /\ Len(f) = n /\ DOMAIN f = 1 .. n
  OBVIOUS

LEMMA CodesAre ==
    ASSUME NEW task, NEW s \in Seq(0 .. 255)
    PROVE  /\ DOMAIN Codes(task, s) = Readable(s)
           /\ Codes(task, s) = [k \in Readable(s) |-> Codes(task, s)[k]]
           /\ \A k \in Readable(s) : s[k] \in 0 .. 255 /\ Codes(task, s)[k] = Code(task, s[k])
<1>1. DOMAIN taken(s) = Readable(s)
  BY TakenIs
<1>2. DOMAIN s = 1 .. Len(s)
  OBVIOUS
<1>3. \A k \in Readable(s) : s[k] \in 0 .. 255
  BY <1>2, ElementOfSeq DEF Readable
<1>4. Codes(task, s) = [k \in Readable(s) |-> Code(task, s[k])]
  BY <1>1, Zenon DEF Codes
<1> QED
  BY <1>3, <1>4

(* The byte in the opposite case. *)
Turned(c) == getOpposite(char(c)) % 256

LEMMA TurnedCase ==
    \A b \in 0 .. 255 :
       Turned(b) = IF b \in 97 .. 122 THEN b - 32 ELSE IF b \in 65 .. 90 THEN b + 32 ELSE b
<1> SUFFICES ASSUME NEW b \in 0 .. 255
             PROVE  Turned(b) = IF b \in 97 .. 122 THEN b - 32 ELSE IF b \in 65 .. 90 THEN b + 32 ELSE b
  OBVIOUS
<1>1. CASE b < 128
  <2>1. char(b) = b
    BY <1>1 DEF char
  <2>2. getOpposite(b) = IF b \in 97 .. 122 THEN b - 32 ELSE IF b \in 65 .. 90 THEN b + 32 ELSE b
    BY <1>1 DEF getOpposite
  <2>3. Turned(b) = getOpposite(b) % 256
    BY <2>1 DEF Turned
  <2> QED
    BY <1>1, <2>2, <2>3
<1>2. CASE b >= 128
  <2>1. char(b) = b - 256
    BY <1>2 DEF char
  <2>2. getOpposite(b - 256) = b - 256
    BY <1>2 DEF getOpposite
  <2>3. Turned(b) = (b - 256) % 256
    BY <2>1, <2>2 DEF Turned
  <2>4. (b - 256) % 256 = b
    BY <1>2
  <2> QED
    BY <1>2, <2>3, <2>4
<1> QED
  BY <1>1, <1>2

LEMMA TurnedIs ==
    ASSUME NEW c \in 0 .. 255
    PROVE  /\ Turned(c) \in 0 .. 255
           /\ c = 10 => Turned(c) = 10
           /\ c # 255 => Turned(c) # 255
           /\ Turned(Turned(c)) = c
<1> DEFINE t == Turned(c)
<1>2. t = IF c \in 97 .. 122 THEN c - 32 ELSE IF c \in 65 .. 90 THEN c + 32 ELSE c
  BY TurnedCase
<1> HIDE DEF t
<1>3. t \in 0 .. 255
  BY <1>2
<1>4. (c = 10 => t = 10) /\ (c # 255 => t # 255)
  BY <1>2
<1>5. Turned(t) = c
  <2>1. Turned(t) = IF t \in 97 .. 122 THEN t - 32 ELSE IF t \in 65 .. 90 THEN t + 32 ELSE t
    BY <1>3, TurnedCase
  <2> QED
    BY <1>2, <2>1
<1> QED
  BY <1>3, <1>4, <1>5 DEF t

(* The three kinds of codes. *)
LEMMA NumberDecoded == ASSUME NEW c \in 0 .. 255 PROVE Decoded(task1a(c)) = c
<1>1. Decoded(task1a(c)) = char(c) % 256
  BY DEF Decoded, task1a
<1>2. char(c) % 256 = c
  BY DEF char
<1> QED
  BY <1>1, <1>2

LEMMA DigitsDecoded == ASSUME NEW c \in 0 .. 255 PROVE Decoded(task1b(c)) = c
<1>1. "byte" \notin DOMAIN task1b(c) /\ "number" \notin DOMAIN task1b(c)
  BY DEF task1b
<1>2. Decoded(task1b(c)) = Worths(task1b(c).digits)[8]
  BY <1>1, Zenon DEF Decoded, Worths, Worth
<1>3. task1b(c).digits = getBinary(char(c))
  BY DEF task1b
<1>4. char(c) \in Int /\ char(c) % 256 = c
  BY DEF char
<1> QED
  BY <1>2, <1>3, <1>4, DigitsStandFor

LEMMA ByteDecoded == ASSUME NEW c PROVE Decoded([byte |-> c]) = c
  BY DEF Decoded

LEMMA CodesDecoded ==
    ASSUME NEW s \in Seq(0 .. 255), NEW k \in Readable(s)
    PROVE  /\ Decoded(Codes("a", s)[k]) = s[k]
           /\ Decoded(Codes("b", s)[k]) = s[k]
           /\ Decoded(Codes("c", s)[k]) = Turned(s[k])
<1> DEFINE c == s[k]
<1>1. /\ c \in 0 .. 255
      /\ Codes("a", s)[k] = IF c = 10 THEN [byte |-> 10] ELSE task1a(c)
      /\ Codes("b", s)[k] = IF c = 10 THEN [byte |-> 10] ELSE task1b(c)
      /\ Codes("c", s)[k] = IF c = 10 THEN [byte |-> 10] ELSE task1c(c)
  BY CodesAre DEF Code
<1> HIDE DEF c
<1>2. Decoded(Codes("a", s)[k]) = c
  BY <1>1, NumberDecoded, ByteDecoded
<1>3. Decoded(Codes("b", s)[k]) = c
  BY <1>1, DigitsDecoded, ByteDecoded
<1>4. Decoded(Codes("c", s)[k]) = Turned(c)
  <2>1. c = 10 => Turned(c) = 10
    BY <1>1, TurnedIs
  <2>2. task1c(c) = [byte |-> Turned(c)]
    BY DEF task1c, Turned
  <2> QED
    BY <1>1, <2>1, <2>2, ByteDecoded
<1> QED
  BY <1>2, <1>3, <1>4 DEF c

LEMMA TextDecoded ==
    ASSUME NEW s \in Seq(0 .. 255)
    PROVE  /\ DecodedText(Codes("a", s)) = [k \in Readable(s) |-> s[k]]
           /\ DecodedText(Codes("b", s)) = [k \in Readable(s) |-> s[k]]
           /\ DecodedText(Codes("c", s)) = [k \in Readable(s) |-> Turned(s[k])]
<1>1. /\ DOMAIN Codes("a", s) = Readable(s) /\ DOMAIN Codes("b", s) = Readable(s)
      /\ DOMAIN Codes("c", s) = Readable(s)
  BY CodesAre
<1>2. \A k \in Readable(s) : /\ Decoded(Codes("a", s)[k]) = s[k]
                            /\ Decoded(Codes("b", s)[k]) = s[k]
                            /\ Decoded(Codes("c", s)[k]) = Turned(s[k])
  BY CodesDecoded
<1> QED
  BY <1>1, <1>2 DEF DecodedText

(* Text behind text is decoded behind it. *)
LEMMA DecodedJoin ==
    ASSUME NEW n \in Nat, NEW m \in Nat, NEW c, NEW f,
           Lists(c, n), Lists(f, m)
    PROVE  /\ DecodedText(c \o f) = DecodedText(c) \o DecodedText(f)
           /\ c \o << >> = c
<1> DEFINE S == {c[k] : k \in 1 .. n} \cup {f[k] : k \in 1 .. m}
           T == {Decoded(x) : x \in S}
           dc == DecodedText(c)
           df == DecodedText(f)
           both == c \o f
           d == DecodedText(both)
<1>1. c \in Seq(S) /\ Len(c) = n /\ DOMAIN c = 1 .. n
  <2>1. c \in [1 .. n -> S]
    BY DEF Lists
  <2> HIDE DEF S
  <2> QED
    BY <2>1
<1>2. f \in Seq(S) /\ Len(f) = m /\ DOMAIN f = 1 .. m
  <2>1. f \in [1 .. m -> S]
    BY DEF Lists
  <2> HIDE DEF S
  <2> QED
    BY <2>1
<1>3. dc \in Seq(T) /\ Len(dc) = n /\ \A k \in 1 .. n : dc[k] = Decoded(c[k])
  <2>1. dc \in [1 .. n -> T] /\ \A k \in 1 .. n : dc[k] = Decoded(c[k])
    BY <1>1 DEF DecodedText
  <2> HIDE DEF T, dc
  <2> QED
    BY <2>1
<1>4. df \in Seq(T) /\ Len(df) = m /\ \A k \in 1 .. m : df[k] = Decoded(f[k])
  <2>1. df \in [1 .. m -> T] /\ \A k \in 1 .. m : df[k] = Decoded(f[k])
    BY <1>2 DEF DecodedText
  <2> HIDE DEF T, df
  <2> QED
    BY <2>1
<1> HIDE DEF dc, df
<1>5. /\ both \in Seq(S) /\ Len(both) = n + m
      /\ \A k \in 1 .. n + m : both[k] = IF k <= n THEN c[k] ELSE f[k - n]
  <2> HIDE DEF S
  <2>1. /\ c \o f \in Seq(S) /\ Len(c \o f) = Len(c) + Len(f)
        /\ \A k \in 1 .. Len(c) + Len(f) : (c \o f)[k] = IF k <= Len(c) THEN c[k] ELSE f[k - Len(c)]
    BY <1>1, <1>2, ConcatProperties
  <2> QED
    BY <1>1, <1>2, <2>1, Zenon
<1>6. /\ dc \o df \in Seq(T) /\ Len(dc \o df) = n + m
      /\ \A k \in 1 .. n + m : (dc \o df)[k] = IF k <= n THEN dc[k] ELSE df[k - n]
  <2> HIDE DEF T
  <2>1. /\ dc \o df \in Seq(T) /\ Len(dc \o df) = Len(dc) + Len(df)
        /\ \A k \in 1 .. Len(dc) + Len(df) : (dc \o df)[k] = IF k <= Len(dc) THEN dc[k] ELSE df[k - Len(dc)]
    BY <1>3, <1>4, ConcatProperties
  <2> QED
    BY <1>3, <1>4, <2>1, Zenon
<1>7. d \in Seq(T) /\ Len(d) = n + m /\ \A k \in 1 .. n + m : d[k] = Decoded(both[k])
  <2> HIDE DEF both
  <2>1. DOMAIN both = 1 .. n + m /\ \A k \in 1 .. n + m : both[k] \in S
    <3> HIDE DEF S
    <3> QED
      BY <1>5, ElementOfSeq
  <2>2. d \in [1 .. n + m -> T] /\ \A k \in 1 .. n + m : d[k] = Decoded(both[k])
    <3> HIDE DEF S
    <3> QED
      BY <2>1 DEF DecodedText
  <2> HIDE DEF T, d
  <2> QED
    BY <2>2
<1> HIDE DEF both
<1>8. \A k \in 1 .. n + m : d[k] = (dc \o df)[k]
  <2> SUFFICES ASSUME NEW k \in 1 .. n + m PROVE d[k] = (dc \o df)[k]
    OBVIOUS
  <2> HIDE DEF d
  <2>1. CASE k <= n
    <3>1. k \in 1 .. n
      BY <2>1
    <3>2. d[k] = Decoded(c[k])
      BY <1>5, <1>7, <2>1, Zenon
    <3>3. (dc \o df)[k] = dc[k]
      BY <1>6, <2>1, Zenon
    <3> QED
      BY <1>3, <3>1, <3>2, <3>3, Zenon
  <2>2. CASE ~ (k <= n)
    <3>1. k - n \in 1 .. m
      BY <2>2
    <3>2. d[k] = Decoded(f[k - n])
      BY <1>5, <1>7, <2>2, Zenon
    <3>3. (dc \o df)[k] = df[k - n]
      BY <1>6, <2>2, Zenon
    <3> QED
      BY <1>4, <3>1, <3>2, <3>3, Zenon
  <2> QED
    BY <2>1, <2>2
<1>9. d = dc \o df
  <2> HIDE DEF T, d
  <2> DEFINE e == dc \o df
  <2>1. d \in Seq(T) /\ e \in Seq(T) /\ Len(d) = Len(e) /\ \A k \in 1 .. Len(d) : d[k] = e[k]
    <3>1. e \in Seq(T) /\ Len(e) = n + m /\ \A k \in 1 .. n + m : d[k] = e[k]
      BY <1>6, <1>8
    <3> HIDE DEF e
    <3> QED
      BY <1>7, <3>1, Zenon
  <2> HIDE DEF e
  <2>2. d = e
    BY <2>1, SeqEqual
  <2> QED
    BY <2>2 DEF e
<1>10. c \o << >> = c
  <2> HIDE DEF S
  <2> QED
    BY <1>1, ConcatEmptySeq
<1> QED
  BY <1>9, <1>10 DEF both, d, dc, df

(* The trailer is text without capitals, and has no byte 255. *)
LEMMA TrailerIs ==
    /\ Lists(exiting, 12)
    /\ DOMAIN Farewell = 1 .. 12
    /\ \A k \in 1 .. 12 : Farewell[k] \in 0 .. 254 /\ Farewell[k] \notin 65 .. 90
<1> DEFINE bytes == <<10, 101, 120, 105, 116, 105, 110, 103, 46, 46, 46, 10>>
<1>1. \A k \in 1 .. 12 : bytes[k] \in 0 .. 254 /\ bytes[k] \notin 65 .. 90
  <2>1. /\ bytes[1] = 10 /\ bytes[2] = 101 /\ bytes[3] = 120 /\ bytes[4] = 105
        /\ bytes[5] = 116 /\ bytes[6] = 105 /\ bytes[7] = 110 /\ bytes[8] = 103
        /\ bytes[9] = 46 /\ bytes[10] = 46 /\ bytes[11] = 46 /\ bytes[12] = 10
    OBVIOUS
  <2> HIDE DEF bytes
  <2>2. \A k \in 1 .. 12 : \/ k = 1 \/ k = 2 \/ k = 3 \/ k = 4 \/ k = 5 \/ k = 6
                           \/ k = 7 \/ k = 8 \/ k = 9 \/ k = 10 \/ k = 11 \/ k = 12
    OBVIOUS
  <2> QED
    BY <2>1, <2>2
<1>2. exiting = [k \in 1 .. 12 |-> [byte |-> bytes[k]]]
  BY Zenon DEF exiting
<1> HIDE DEF bytes
<1>3. Lists(exiting, 12) /\ DOMAIN exiting = 1 .. 12
  BY <1>2 DEF Lists
<1>4. \A k \in 1 .. 12 : Decoded(exiting[k]) = bytes[k]
  <2>1. \A k \in 1 .. 12 : exiting[k] = [byte |-> bytes[k]]
    BY <1>2
  <2> QED
    BY <2>1, ByteDecoded
<1>5. Farewell = [k \in 1 .. 12 |-> bytes[k]]
  BY <1>3, <1>4, Zenon DEF Farewell, DecodedText
<1> QED
  BY <1>1, <1>3, <1>5

LEMMA TrailerBytes ==
    ASSUME NEW k \in 1 .. 12
    PROVE  /\ Farewell[k] \in 0 .. 255
           /\ Farewell[k] # 255
           /\ FAREWELL[k] = Turned(Farewell[k])
           /\ Turned(Farewell[k]) \in 0 .. 255
<1> DEFINE b == Farewell[k]
<1>1. b \in 0 .. 254 /\ b \notin 65 .. 90
  BY TrailerIs, Zenon
<1>2. FAREWELL[k] = IF b \in 97 .. 122 THEN b - 32 ELSE b
  BY TrailerIs, Zenon DEF FAREWELL
<1> HIDE DEF b
<1>3. b \in 0 .. 255 /\ b # 255
  BY <1>1
<1>4. Turned(b) \in 0 .. 255
  BY <1>3, TurnedIs
<1>5. Turned(b) = IF b \in 97 .. 122 THEN b - 32 ELSE b
  <2>1. Turned(b) = IF b \in 97 .. 122 THEN b - 32 ELSE IF b \in 65 .. 90 THEN b + 32 ELSE b
    BY <1>3, TurnedCase
  <2> QED
    BY <1>1, <2>1
<1> QED
  BY <1>2, <1>3, <1>4, <1>5 DEF b

LEMMA TrailerSeq ==
    /\ Farewell \in Seq(0 .. 255) /\ Len(Farewell) = 12
    /\ FAREWELL \in Seq(0 .. 255) /\ Len(FAREWELL) = 12
<1> DEFINE far == Farewell
           FAR == FAREWELL
           S == 0 .. 255
<1>1. DOMAIN far = 1 .. 12 /\ far = [k \in 1 .. 12 |-> far[k]]
  <2>1. DOMAIN far = 1 .. 12
    BY TrailerIs
  <2>2. far = [k \in DOMAIN exiting |-> Decoded(exiting[k])]
    BY Zenon DEF Farewell, DecodedText
  <2> HIDE DEF far
  <2> QED
    BY <2>1, <2>2
<1>2. FAR = [k \in 1 .. 12 |-> FAR[k]]
  <2>1. FAR = [k \in 1 .. 12 |-> IF far[k] \in 97 .. 122 THEN far[k] - 32 ELSE far[k]]
    BY <1>1, Zenon DEF FAREWELL
  <2> HIDE DEF far, FAR
  <2> QED
    BY <2>1
<1>3. \A k \in 1 .. 12 : far[k] \in S /\ FAR[k] \in S
  <2> SUFFICES ASSUME NEW k \in 1 .. 12 PROVE far[k] \in S /\ FAR[k] \in S
    OBVIOUS
  <2>1. far[k] \in S /\ FAR[k] = Turned(far[k]) /\ Turned(far[k]) \in S
    BY TrailerBytes
  <2> HIDE DEF far, FAR, S
  <2> QED
    BY <2>1
<1> HIDE DEF far, FAR, S
<1>4. far \in [1 .. 12 -> S] /\ FAR \in [1 .. 12 -> S]
  BY <1>1, <1>2, <1>3
<1>5. far \in Seq(S) /\ Len(far) = 12 /\ FAR \in Seq(S) /\ Len(FAR) = 12
  BY <1>4, ListsSeq
<1> QED
  BY <1>5 DEF far, FAR, S

LEMMA FilesEncoded == new \in Seq(0 .. 255) => EncodedRight
<1> SUFFICES ASSUME new \in Seq(0 .. 255) PROVE EncodedRight
  OBVIOUS
<1> DEFINE kept == [k \in {n1 \in DOMAIN new : \A j \in 1 .. n1 : new[j] # 255} |-> new[k]]
           middle == DecodedText(Codes("c", new))
           text == middle \o Farewell
<1>1. kept = [k \in Readable(new) |-> new[k]]
  BY DEF Readable
<1>2. PICK n \in Nat : Readable(new) = 1 .. n
  BY TakenIs
<1>3. \A k \in 1 .. n : new[k] \in 0 .. 255 /\ new[k] # 255
  <2>1. \A k \in Readable(new) : new[k] \in 0 .. 255
    BY CodesAre
  <2>2. \A k \in Readable(new) : new[k] # 255
    BY <1>2 DEF Readable
  <2> SUFFICES ASSUME NEW k \in 1 .. n PROVE new[k] \in 0 .. 255 /\ new[k] # 255
    OBVIOUS
  <2>3. k \in Readable(new)
    BY <1>2
  <2> QED
    BY <2>1, <2>2, <2>3
<1>4. middle = [k \in 1 .. n |-> Turned(new[k])]
  BY <1>2, TextDecoded
<1>5. \A k \in 1 .. n : /\ Turned(new[k]) \in 0 .. 255 /\ Turned(new[k]) # 255
                        /\ Turned(Turned(new[k])) = new[k]
  <2>1. \A c \in 0 .. 255 : c # 255 => /\ Turned(c) \in 0 .. 255 /\ Turned(c) # 255
                                      /\ Turned(Turned(c)) = c
    BY TurnedIs, Zenon
  <2> QED
    BY <1>3, <2>1, Zenon
<1> HIDE DEF middle, kept
<1>6. /\ middle \in Seq(0 .. 255) /\ DOMAIN middle = 1 .. n /\ Len(middle) = n
      /\ kept \in Seq(0 .. 255) /\ Len(kept) = n
  <2>1. middle \in [1 .. n -> 0 .. 255] /\ kept \in [1 .. n -> 0 .. 255]
    BY <1>1, <1>2, <1>3, <1>4, <1>5
  <2> QED
    BY <2>1
<1>7. /\ text \in Seq(0 .. 255) /\ Len(text) = n + 12 /\ DOMAIN text = 1 .. n + 12
      /\ \A k \in 1 .. n + 12 : text[k] = IF k <= n THEN middle[k] ELSE Farewell[k - n]
  <2> DEFINE far == Farewell  t == middle \o far
  <2>0. far \in Seq(0 .. 255) /\ Len(far) = 12
    BY TrailerSeq
  <2> HIDE DEF far
  <2>1. /\ middle \o far \in Seq(0 .. 255) /\ Len(middle \o far) = Len(middle) + Len(far)
        /\ \A k \in 1 .. Len(middle) + Len(far) :
              (middle \o far)[k] = IF k <= Len(middle) THEN middle[k] ELSE far[k - Len(middle)]
    BY <1>6, <2>0, ConcatProperties
  <2>2. /\ t \in Seq(0 .. 255) /\ Len(t) = n + 12
        /\ \A k \in 1 .. n + 12 : t[k] = IF k <= n THEN middle[k] ELSE far[k - n]
    BY <1>6, <2>0, <2>1, Zenon
  <2> HIDE DEF t
  <2>3. DOMAIN t = 1 .. n + 12
    BY <2>2
  <2> QED
    BY <2>2, <2>3 DEF t, far
<1> HIDE DEF text
<1>8. Readable(middle) = 1 .. n
  <2>1. \A k \in 1 .. n : middle[k] # 255
    BY <1>4, <1>5
  <2>2. \A k \in 1 .. n : \A j \in 1 .. k : j \in 1 .. n
    BY <1>2
  <2> QED
    BY <1>6, <2>1, <2>2 DEF Readable
<1>9. \A k \in 1 .. n + 12 : text[k] # 255
  <2> SUFFICES ASSUME NEW k \in 1 .. n + 12 PROVE text[k] # 255
    OBVIOUS
  <2>1. CASE k <= n
    <3>1. k \in 1 .. n
      BY <2>1
    <3> QED
      BY <1>4, <1>5, <1>7, <2>1, <3>1
  <2>2. CASE ~ (k <= n)
    <3>1. k - n \in 1 .. 12
      BY <2>2
    <3>2. Farewell[k - n] # 255
      BY <3>1, TrailerBytes
    <3> QED
      BY <1>7, <2>2, <3>2
  <2> QED
    BY <2>1, <2>2
<1>10. Readable(text) = 1 .. n + 12
  <2>1. \A k \in 1 .. n + 12 : \A j \in 1 .. k : j \in 1 .. n + 12
    BY <1>2
  <2> QED
    BY <1>7, <1>9, <2>1 DEF Readable
<1>11. /\ farewell(TRUE) = << >> /\ farewell(FALSE) = exiting
       /\ DecodedText(exiting) = Farewell
  BY DEF farewell, Farewell
<1>12. ASSUME NEW task, NEW s \in Seq(0 .. 255), NEW m \in Nat, Readable(s) = 1 .. m
       PROVE  /\ DecodedText(encoded(task, TRUE, s)) = DecodedText(Codes(task, s))
              /\ DecodedText(encoded(task, FALSE, s)) = DecodedText(Codes(task, s)) \o Farewell
  <2> DEFINE c == Codes(task, s)
  <2>1. Lists(c, m)
    BY <1>12, CodesAre, Zenon DEF Lists
  <2>2. encoded(task, TRUE, s) = c \o << >> /\ encoded(task, FALSE, s) = c \o exiting
    BY <1>11, EncodedIs
  <2> HIDE DEF c
  <2>3. Lists(exiting, 12) /\ 12 \in Nat
    BY TrailerIs
  <2>4. DecodedText(c \o exiting) = DecodedText(c) \o DecodedText(exiting) /\ c \o << >> = c
    BY <2>1, <2>3, DecodedJoin
  <2> QED
    BY <1>11, <2>2, <2>4, Zenon DEF c
<1>13. ASSUME NEW task \in {"a", "b"}
       PROVE  /\ DecodedText(encoded(task, TRUE, new)) = kept
              /\ DecodedText(encoded(task, FALSE, new)) = kept \o Farewell
  <2>1. DecodedText(Codes(task, new)) = kept
    BY <1>1, TextDecoded
  <2> QED
    BY <1>2, <1>12, <2>1, Zenon
<1>14. /\ DecodedText(encoded("c", TRUE, new)) = middle
       /\ DecodedText(encoded("c", FALSE, new)) = text
  BY <1>2, <1>12, Zenon DEF middle, text
<1>15. DecodedText(encoded("c", TRUE, middle)) = kept
  <2>1. DecodedText(Codes("c", middle)) = [k \in 1 .. n |-> Turned(middle[k])]
    BY <1>6, <1>8, TextDecoded
  <2>2. [k \in 1 .. n |-> Turned(middle[k])] = kept
    BY <1>1, <1>2, <1>4, <1>5
  <2> QED
    BY <1>6, <1>8, <1>12, <2>1, <2>2, Zenon
<1>16. DecodedText(encoded("c", FALSE, text)) = kept \o (FAREWELL \o Farewell)
  <2> DEFINE far == Farewell
             FAR == FAREWELL
             turned == [k \in 1 .. n + 12 |-> Turned(text[k])]
  <2>1. far \in Seq(0 .. 255) /\ FAR \in Seq(0 .. 255) /\ Len(far) = 12 /\ Len(FAR) = 12
        /\ \A k \in 1 .. 12 : FAR[k] = Turned(far[k])
    BY TrailerSeq, TrailerBytes
  <2> HIDE DEF far, FAR
  <2>2. DecodedText(Codes("c", text)) = turned
    BY <1>7, <1>10, TextDecoded
  <2>3. /\ kept \o FAR \in Seq(0 .. 255) /\ Len(kept \o FAR) = n + 12
        /\ \A k \in 1 .. n + 12 : (kept \o FAR)[k] = IF k <= n THEN kept[k] ELSE FAR[k - n]
    <3>1. /\ kept \o FAR \in Seq(0 .. 255) /\ Len(kept \o FAR) = Len(kept) + Len(FAR)
          /\ \A k \in 1 .. Len(kept) + Len(FAR) :
                (kept \o FAR)[k] = IF k <= Len(kept) THEN kept[k] ELSE FAR[k - Len(kept)]
      BY <1>6, <2>1, ConcatProperties
    <3> QED
      BY <1>6, <2>1, <3>1, Zenon
  <2> DEFINE whole == kept \o FAR
  <2>4. \A k \in 1 .. n + 12 : Turned(text[k]) = whole[k]
    <3> SUFFICES ASSUME NEW k \in 1 .. n + 12 PROVE Turned(text[k]) = whole[k]
      OBVIOUS
    <3>0. whole[k] = IF k <= n THEN kept[k] ELSE FAR[k - n]
      BY <2>3, Zenon
    <3> HIDE DEF whole
    <3>1. CASE k <= n
      <4>1. k \in 1 .. n
        BY <3>1
      <4>2. text[k] = Turned(new[k])
        BY <1>4, <1>7, <3>1, <4>1
      <4>3. kept[k] = new[k]
        BY <1>1, <1>2, <4>1
      <4> QED
        BY <1>5, <3>0, <3>1, <4>1, <4>2, <4>3
    <3>2. CASE ~ (k <= n)
      <4>1. k - n \in 1 .. 12
        BY <3>2
      <4>2. text[k] = far[k - n]
        BY <1>7, <3>2 DEF far
      <4> QED
        BY <2>1, <3>0, <3>2, <4>1, <4>2
    <3> QED
      BY <3>1, <3>2
  <2>5. turned = whole
    <3> DEFINE W == {whole[k] : k \in 1 .. n + 12}
    <3>1. whole \in Seq(0 .. 255) /\ Len(whole) = n + 12
      BY <2>3
    <3> HIDE DEF whole
    <3>2. whole = [k \in 1 .. n + 12 |-> whole[k]]
      BY <3>1
    <3> QED
      BY <2>4, <3>2
  <2>6. DecodedText(encoded("c", FALSE, text)) = whole \o far
    <3>1. n + 12 \in Nat
      OBVIOUS
    <3> HIDE DEF whole, turned
    <3> QED
      BY <1>7, <1>10, <1>12, <2>2, <2>5, <3>1 DEF far
  <2>7. (kept \o FAR) \o far = kept \o (FAR \o far)
    <3> DEFINE S == 0 .. 255
    <3>1. kept \in Seq(S) /\ FAR \in Seq(S) /\ far \in Seq(S)
      BY <1>6, <2>1
    <3> HIDE DEF S
    <3> QED
      BY <3>1, ConcatAssociative
  <2> QED
    BY <2>6, <2>7, Zenon DEF whole, FAR, far
<1> QED
  BY <1>13, <1>14, <1>15, <1>16, Zenon DEF EncodedRight, kept

(* Whatever is in a file, what the encoder writes for the part before the  *)
(* first byte 255 can be decoded to it, in each of the three codes; where  *)
(* it also says goodbye, that comes behind it.                             *)
THEOREM CodesRight == ToolsSpec => []EncodedRight
<1>1. DiffTypeOK => new \in Seq(0 .. 255)
  <2> SUFFICES ASSUME DiffTypeOK PROVE new \in Seq(0 .. 255)
    OBVIOUS
  <2>1. Len(new) \in Nat /\ new \in [1 .. Len(new) -> Bytes]
    BY FileLength DEF DiffTypeOK
  <2>2. PICK n \in Nat : new \in [1 .. n -> Bytes]
    BY <2>1, Zenon
  <2>3. new \in [1 .. n -> 0 .. 255]
    BY <2>2, DiffAssumption
  <2> QED
    BY <2>3
<1> QED
  BY <1>1, FilesEncoded, DiffTypeCorrect, PTL

================================================================================
