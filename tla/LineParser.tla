------------------------------- MODULE LineParser -------------------------------
(***************************************************************************)
(* The line parser of the shell (src/lab7/task4/LineParser.c; the copies   *)
(* in lab6 and lab7 have the same functions): from a line to the list of   *)
(* commands of a pipeline.                                                 *)
(*                                                                         *)
(* A line is a sequence of tokens: a word stands for a longest run of      *)
(* ordinary characters, so that no two words are adjacent; blanks,         *)
(* operators and the newline are tokens of their own.  A run of tabs is a  *)
(* word to strtok, which splits at blanks only, and white space to         *)
(* isspace: the token Tab is both.                                         *)
(*                                                                         *)
(* The list of struct cmdLine is a sequence; NULL is the empty sequence.   *)
(***************************************************************************)
EXTENDS Integers, SequencesExt

CONSTANTS
    Words,          \* the ordinary words, strings
    MAX_ARGUMENTS,  \* length of the array of arguments, with room for a NULL
    None            \* the NULL of a redirection that is not there

Space == " "
Tab == "\t"
Separators == {Space, "\n", "<", ">", "|", "&"}
Tokens == Words \cup {Tab} \cup Separators

(* struct cmdLine, of which next is the next element of a sequence. *)
CmdLines ==
    [command : [arguments : Seq(Words \cup {Tab}),
                inputRedirect : Words \cup {Tab, None},
                outputRedirect : Words \cup {Tab, None}],
     blocking : BOOLEAN,
     idx : Nat]

ASSUME ParserAssumption ==
    /\ Words \cap ({Tab} \cup Separators) = {}
    /\ MAX_ARGUMENTS \in Nat /\ MAX_ARGUMENTS >= 2
    /\ None \notin Tokens

IsWord(t) == t \notin Separators

-------------------------------------------------------------------------------
(* strchr and strpbrk: what is before the first token of C.                *)
Before(s, C) ==
    LET i == SelectInSeq(s, LAMBDA t : t \in C)
    IN  IF i = 0 THEN s ELSE SubSeq(s, 1, i - 1)

(* Mutant: only the first character is looked at. *)
isEmpty_First(s) == s = << >> \/ s[1] \in {Space, Tab, "\n"}

isEmpty(s) == \A i \in DOMAIN s : s[i] \in {Space, Tab, "\n"}

(* The words strtok finds, or the search for one: up to an operator, which *)
(* extractRedirections has overwritten by a 0 when strtok comes.           *)
words(s) ==
    LET line == Before(s, {"<", ">"})
        strtok[n \in 0 .. Len(line)] ==  \* among the first n tokens
            IF n = 0 THEN << >>
            ELSE IF IsWord(line[n]) THEN Append(strtok[n - 1], line[n]) ELSE strtok[n - 1]
    IN  strtok[Len(line)]

cloneFirstWord(s) == IF words(s) = << >> THEN None ELSE words(s)[1]

(* Mutant: the first of several redirections is kept. *)
extractRedirection_First(s, c) ==
    LET first == SelectInSeq(s, LAMBDA t : t = c)
    IN  IF first = 0 THEN None ELSE cloneFirstWord(SubSeq(s, first + 1, Len(s)))

(* A later redirection replaces an earlier one, by nothing if no word      *)
(* follows it.                                                             *)
extractRedirection(s, c) ==
    LET last == SelectLastInSeq(s, LAMBDA t : t = c)
    IN  IF last = 0 THEN None ELSE cloneFirstWord(SubSeq(s, last + 1, Len(s)))

(* Room is left for the NULL at the end of the array.                      *)
arguments(s) == SubSeq(words(s), 1, Min({MAX_ARGUMENTS - 1, Len(words(s))}))

parseSingleCmdLine(s) ==
    [arguments |-> arguments(s),
     inputRedirect |-> extractRedirection(s, "<"),
     outputRedirect |-> extractRedirection(s, ">")]

(* _parseCmdLines, called with what is behind the first n tokens: an empty *)
(* part ends the list, and what follows is lost.                           *)
Chain(line) ==
    LET parsed[n \in 0 .. Len(line)] ==
            LET first == Before(SubSeq(line, n + 1, Len(line)), {"|"})
                next == n + Len(first) + 1
                rest == IF next <= Len(line) THEN parsed[next] ELSE << >>
            IN  IF isEmpty(first) THEN << >> ELSE <<parseSingleCmdLine(first)>> \o rest
    IN  parsed[0]

stripped(s) ==
    IF s # << >> /\ s[Len(s)] = "\n" THEN SubSeq(s, 1, Len(s) - 1) ELSE s

(* Every command is numbered; of a command that is not the last, the field *)
(* blocking keeps the 0 of memset.                                         *)
parseCmdLines(s) ==
    LET list == IF isEmpty(s) THEN << >> ELSE Chain(Before(stripped(s), {"&"}))
    IN  [i \in DOMAIN list |->
            [command |-> list[i],
             blocking |-> i = Len(list) /\ ~ Contains(s, "&"),
             idx |-> i - 1]]

-------------------------------------------------------------------------------
(* Reference: what the parser makes of any line, whoever wrote it.         *)

Bars(s, n) == Cardinality({p \in 1 .. n : s[p] = "|"})

(* The places of the k-th part of a line: behind k - 1 bars, before any    *)
(* other bar, any "&" and the new line.                                    *)
Part(s, k) ==
    {p \in DOMAIN s :
        /\ s[p] \notin {"|", "\n"}
        /\ \A q \in 1 .. p : s[q] # "&"
        /\ Bars(s, p) = k - 1}

BlankPart(s, k) == \A p \in Part(s, k) : s[p] \in {Space, Tab}

ArgumentPlaces(s, P) ==
    {p \in P : IsWord(s[p]) /\ \A q \in P : s[q] \in {"<", ">"} => p < q}

(* The word of the last operator op in P: the first token after it that is *)
(* not a blank, if that is a word.                                         *)
RedirectedTo(s, P, op) ==
    LET ops == {p \in P : s[p] = op}
        later == {p \in P : s[p] # Space /\ ops # {} /\ p > Max(ops)}
    IN  IF later = {} \/ ~ IsWord(s[Min(later)]) THEN None ELSE s[Min(later)]

(* The parts up to the first blank one are the commands, in their order;   *)
(* the n-th argument is the n-th word that no redirection precedes, while  *)
(* there is room; the last redirection of each kind counts.  Words after a *)
(* redirection, parts behind a blank one and everything behind "&" are     *)
(* lost, and nothing else is.  Only the last command can say that it is    *)
(* waited for.                                                             *)
Rank(p, places) == Cardinality({q \in places : q <= p})

CommandRight(s, P, c) ==
    LET places == ArgumentPlaces(s, P)
    IN  /\ Len(c.arguments) = Min({Cardinality(places), MAX_ARGUMENTS - 1})
        /\ \A p \in places :
             Rank(p, places) < MAX_ARGUMENTS => c.arguments[Rank(p, places)] = s[p]
        /\ c.inputRedirect = RedirectedTo(s, P, "<")
        /\ c.outputRedirect = RedirectedTo(s, P, ">")

ParsedRight(s, list) ==
    /\ BlankPart(s, Len(list) + 1)
    /\ \A k \in DOMAIN list :
        /\ ~ BlankPart(s, k)
        /\ CommandRight(s, Part(s, k), list[k].command)
        /\ list[k].idx = k - 1
        /\ list[k].blocking = (k = Len(list) /\ \A p \in DOMAIN s : s[p] # "&")

=================================================================================
