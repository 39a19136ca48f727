---------------------------- MODULE MCRemoteShell ----------------------------
(* RemoteShell with a server that has the directories of the repository:    *)
(* Server, with one below it, and the two above it.                         *)
EXTENDS RemoteShell, TLC

CONSTANTS c1, c2, ls, echo, cat, find, sort, nosuch

ClientSymmetry == Permutations(Clients)

MCDirs == {Root, << >>, <<"Server">>, <<"Server", "usr">>}

MCFiles == (<<"Server", "a.pdf">> :> 2) @@ (<<"Server", "empty.txt">> :> 0)

(* What they print: one word, words, what does not decode, what is too      *)
(* large; "sort" is given a long command line.                              *)
MCLs == ls :> "word"

MCPrivate == (ls :> "word") @@ (cat :> "binary") @@ (find :> "huge")

MCShared == (echo :> "words") @@ (cat :> "binary") @@ (find :> "huge")

MCAll == MCShared @@ (sort :> "long")

MCBases == {<<"Server">>}

MCMounts == {<<"Server">>, << >>, Root, <<"Nowhere">>}

(* All clients type as many lines, or one of them types fewer.              *)
MCThree == [c \in Clients |-> 3]

MCFour == [c \in Clients |-> 4]

MCSix == [c \in Clients |-> 6]

MCFourAndThree == (c1 :> 4) @@ (c2 :> 3)

===============================================================================
