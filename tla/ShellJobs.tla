-------------------------------- MODULE ShellJobs --------------------------------
(***************************************************************************)
(* The main loop of the shell and the processes it starts: main,           *)
(* handle_command, execute and cd_case of src/lab7/task4/task4.c, on lines *)
(* that LineParser parses.  A background command is not waited for, then   *)
(* or ever; a pipeline is waited for whatever its last command says.       *)
(*                                                                         *)
(* So are the shells it grew from: lab7/task3 runs the first two commands  *)
(* of a pipeline; lab6/task2 (and lab6/task1 and lab7/task1, which differ  *)
(* from it in the history and in redirections) runs the first, and waits   *)
(* for it only if it is the last; myshell of lab6/task0 executes it in its *)
(* own process, and leaves the new line in the buffer.                     *)
(*                                                                         *)
(* The result of fgets is not looked at: once the input has ended, the     *)
(* buffer still holds the line before, or, if there was none, what was on  *)
(* the stack.                                                              *)
(*                                                                         *)
(* Lines of the history ("history", "!N") are CommandHistory's, and how    *)
(* the commands of a pipeline depend on one another is Pipeline's.         *)
(***************************************************************************)
EXTENDS LineParser

CONSTANTS
    Versions,   \* the programs, of "task4", "task3", "lab6" and "myshell"
    Lines,      \* the lines that are typed
    Garbage,    \* what the buffer may hold before anything is read
    Programs,   \* the words execvp finds
    Endless,    \* those among them that do not end by themselves
    Dirs,       \* the words chdir accepts
    Home,       \* the directory HOME names
    MaxProcs    \* processes the kernel grants the user beside the shell

ASSUME ShellAssumption ==
    /\ Versions \subseteq {"task4", "task3", "lab6", "myshell"}
    /\ Lines \subseteq Seq(Tokens \ {"\n"})
    /\ Garbage \subseteq Seq(Tokens \ {"\n"})
    /\ Endless \subseteq Programs
    /\ Programs \cap {"cd", "quit"} = {}
    /\ Home \in Dirs
    /\ MaxProcs \in Nat

VARIABLES
    version,  \* the program
    pc,       \* where the shell is
    input,    \* the buffer of main
    ended,    \* whether the end of the input was met
    mainCmd,  \* the parsed line
    curr,     \* commands of it that were forked
    waits,    \* children to be waited for, in order
    cwd,      \* the working directory
    procs     \* per process slot: the command and its state

shell == <<version, pc, input, ended, mainCmd, curr, waits, cwd>>
vars == <<version, pc, input, ended, mainCmd, curr, waits, cwd, procs>>

Slots == 1 .. MaxProcs

(* What the buffer can hold. *)
Buffers == Garbage \cup Lines \cup {Append(l, "\n") : l \in Lines}

(* What the parser makes of it (the comparison only makes TLC compute the  *)
(* table once).                                                            *)
Parsed ==
    LET table == [l \in Buffers |-> parseCmdLines(l)]
    IN  IF table = << >> THEN << >> ELSE table

NoProc == [state |-> "free", program |-> None, awaited |-> FALSE]

Init ==
    /\ version \in Versions
    /\ pc = "prompt"
    /\ input \in Garbage
    /\ ended = FALSE
    /\ mainCmd = << >>
    /\ curr = 0
    /\ waits = << >>
    /\ cwd = Home
    /\ procs = [p \in Slots |-> NoProc]

-------------------------------------------------------------------------------
(* main. *)

(* A line, without its new line; myshell finds it missing only where the   *)
(* input ends.                                                             *)
fgets ==
    /\ pc = "prompt"
    /\ ~ ended
    /\ ended' \in (IF version = "myshell" THEN BOOLEAN ELSE {FALSE})
    /\ \E l \in Lines :
         /\ ended' => l # << >>
         /\ input' = IF version = "myshell" /\ ~ ended' THEN Append(l, "\n") ELSE l
    /\ pc' = "read"
    /\ UNCHANGED <<version, mainCmd, curr, waits, cwd, procs>>

(* The end of the input, met by this call or an earlier one. *)
fgets_Null ==
    /\ pc = "prompt"
    /\ ended' = TRUE
    /\ pc' = "read"
    /\ UNCHANGED <<version, input, mainCmd, curr, waits, cwd, procs>>

Quit ==
    /\ pc = "read"
    /\ input = <<"quit">>
    /\ pc' = "exited"
    /\ UNCHANGED <<version, input, ended, mainCmd, curr, waits, cwd, procs>>

EmptyLine ==
    /\ pc = "read"
    /\ input = << >> /\ version # "myshell"
    /\ pc' = "prompt"
    /\ UNCHANGED <<version, input, ended, mainCmd, curr, waits, cwd, procs>>

Parse ==
    /\ pc = "read"
    /\ input # <<"quit">>
    /\ input = << >> => version = "myshell"
    /\ mainCmd' = Parsed[input]
    /\ pc' = "handle"
    /\ UNCHANGED <<version, input, ended, curr, waits, cwd, procs>>

(* The line is recorded (CommandHistory) and freed. *)
EndLine ==
    /\ pc = "return"
    /\ mainCmd' = << >>
    /\ curr' = 0
    /\ pc' = "prompt"
    /\ UNCHANGED <<version, input, ended, waits, cwd, procs>>

-------------------------------------------------------------------------------
(* handle_command. *)

IsPipe == version \in {"task4", "task3"} /\ Len(mainCmd) > 1
Args(i) == mainCmd[i].command.arguments
HasCommand == ~ IsPipe /\ mainCmd # << >> /\ Args(1) # << >>

(* A field of NULL, or arguments[0][0] of a command without words; execvp  *)
(* of no name crashes myshell.                                             *)
Crash ==
    /\ pc = "handle"
    /\ ~ (IsPipe \/ HasCommand)
    /\ pc' = "crashed"
    /\ UNCHANGED <<version, input, ended, mainCmd, curr, waits, cwd, procs>>

cd_case ==
    /\ pc = "handle"
    /\ HasCommand /\ Args(1)[1] = "cd" /\ version # "myshell"
    /\ cwd' = CASE Len(Args(1)) = 1 -> Home
                [] Len(Args(1)) = 2 /\ Args(1)[2] \in Dirs -> Args(1)[2]
                [] OTHER -> cwd
    /\ pc' = "return"
    /\ UNCHANGED <<version, input, ended, mainCmd, curr, waits, procs>>

(* execute, or the loop of handle_pipe_command. *)
Run ==
    /\ pc = "handle"
    /\ IsPipe \/ (HasCommand /\ Args(1)[1] # "cd")
    /\ version # "myshell"
    /\ pc' = "fork"
    /\ UNCHANGED <<version, input, ended, mainCmd, curr, waits, cwd, procs>>

(* myshell becomes the program, or goes on if there is none. *)
execute_myshell ==
    /\ pc = "handle"
    /\ version = "myshell" /\ HasCommand
    /\ pc' = IF Args(1)[1] \in Programs THEN "replaced" ELSE "return"
    /\ UNCHANGED <<version, input, ended, mainCmd, curr, waits, cwd, procs>>

(* The commands of the line that are run. *)
Forked ==
    CASE version = "task4" -> DOMAIN mainCmd
      [] version = "task3" -> DOMAIN mainCmd \cap {1, 2}
      [] OTHER -> DOMAIN mainCmd \cap {1}

FreeSlots == {p \in Slots : procs[p].state = "free"}

(* Mutant: a background command is waited for. *)
awaits_Always == TRUE

awaits == IsPipe \/ mainCmd[1].blocking

Fork ==
    /\ pc = "fork"
    /\ FreeSlots # {}
    /\ LET p == Min(FreeSlots)
           argv == Args(curr + 1)
           more == curr + 2 \in Forked
       IN  /\ procs' = [procs EXCEPT ![p] =
                           [state |-> "forked",
                            program |-> IF argv = << >> THEN None ELSE argv[1],
                            awaited |-> awaits]]
           /\ waits' = IF awaits THEN Append(waits, p) ELSE waits
           /\ pc' = IF more THEN "fork" ELSE IF awaits THEN "wait" ELSE "return"
    /\ curr' = curr + 1
    /\ UNCHANGED <<version, input, ended, mainCmd, cwd>>

(* No process can be had: execute gives up the command, while              *)
(* handle_pipe_command ends the shell.                                     *)
ForkFails ==
    /\ pc = "fork"
    /\ FreeSlots = {}
    /\ pc' = IF IsPipe THEN "died" ELSE "return"
    /\ UNCHANGED <<version, input, ended, mainCmd, curr, waits, cwd, procs>>

(* Mutant: any child that ended will do. *)
reaped_Any == {p \in Slots : procs[p].state = "zombie"}

(* waitpid waits for one child, and returns when that one has ended. *)
reaped == {p \in {Head(waits)} : procs[p].state = "zombie"}

Wait ==
    /\ pc = "wait"
    /\ \E p \in reaped : procs' = [procs EXCEPT ![p] = NoProc]
    /\ waits' = Tail(waits)
    /\ pc' = IF Len(waits) = 1 THEN "return" ELSE "wait"
    /\ UNCHANGED <<version, input, ended, mainCmd, curr, cwd>>

(* The programs. *)
handle == Crash \/ cd_case \/ Run
fork_and_wait == Fork \/ ForkFails \/ Wait
main == fgets_Null \/ Quit \/ EmptyLine \/ Parse \/ EndLine

main_myshell == version = "myshell" /\ (main \/ Crash \/ execute_myshell)
main_lab6 == version = "lab6" /\ (main \/ handle)
execute_lab6 == version = "lab6" /\ fork_and_wait
main_task3 == version = "task3" /\ main
handle_command_task3 == version = "task3" /\ handle
execute_task3 == version = "task3" /\ fork_and_wait
task4 == version = "task4" /\ (main \/ handle \/ fork_and_wait)

ShellStep ==
    \/ main_myshell
    \/ main_lab6 \/ execute_lab6
    \/ main_task3 \/ handle_command_task3 \/ execute_task3
    \/ task4

-------------------------------------------------------------------------------
(* The children.  When the shell is gone, init adopts and reaps them.      *)

ShellGone == pc \in {"exited", "crashed", "died", "replaced"}

Become(p, state) == procs' = [procs EXCEPT ![p].state = state]

Exec(p) ==
    /\ procs[p].state = "forked"
    /\ Become(p, IF procs[p].program \in Programs THEN "running" ELSE "zombie")
    /\ UNCHANGED shell

End(p) ==
    /\ procs[p].state = "running"
    /\ procs[p].program \notin Endless
    /\ Become(p, "zombie")
    /\ UNCHANGED shell

Adopt(p) ==
    /\ ShellGone
    /\ procs[p].state = "zombie"
    /\ procs' = [procs EXCEPT ![p] = NoProc]
    /\ UNCHANGED shell

ChildStep(p) == Exec(p) \/ End(p) \/ Adopt(p)

Next == fgets \/ ShellStep \/ \E p \in Slots : ChildStep(p)

Spec == Init /\ [][Next]_vars

(* The kernel schedules every process, and a program that ends by itself   *)
(* does so.  Nobody has to type, but once the input has ended fgets        *)
(* returns at once.                                                        *)
FairSpec ==
    /\ Spec
    /\ WF_vars(ShellStep /\ (pc = "prompt" => ended))
    /\ \A p \in Slots : WF_vars(ChildStep(p))

-------------------------------------------------------------------------------
(* Properties. *)

(* The variables hold values of their types, and what is waited for is a   *)
(* child that has not been reaped.                                         *)
ShellTypeOK ==
    /\ version \in Versions
    /\ pc \in {"prompt", "read", "handle", "fork", "wait", "return",
               "exited", "crashed", "died", "replaced"}
    /\ input \in Buffers
    /\ ended \in BOOLEAN
    /\ mainCmd \in Seq(CmdLines)
    /\ curr \in 0 .. Len(mainCmd)
    /\ waits \in Seq(Slots)
    /\ ~ ShellGone => \A i \in DOMAIN waits : procs[waits[i]].awaited
    /\ cwd \in Dirs
    /\ procs \in [Slots -> [state : {"free", "forked", "running", "zombie"},
                            program : Words \cup {Tab, None},
                            awaited : BOOLEAN]]

(* Every line is carried out as it was parsed, and parsed as the reference *)
(* definition says, whatever is in it (LineParser.c:48-162).               *)
LineParsed == pc \in {"handle", "fork", "wait"} => ParsedRight(input, mainCmd)

(* At the prompt nothing the shell meant to wait for is left, running or   *)
(* dead: the child waitpid named is the one of this line, however many     *)
(* background commands have ended meanwhile (task4.c:114-115 and 167-168). *)
(* Only a line with an "&" is not waited for, and only by the shells of    *)
(* lab6 a line with a bar: the parser says of the last command alone that  *)
(* it blocks, and they run the first (lab6/task2/task2.c:161-164).         *)
ForegroundReaped ==
    /\ pc \in {"prompt", "read", "handle"} => \A p \in Slots : ~ procs[p].awaited
    /\ pc = "fork" /\ ~ awaits =>
         Contains(input, "&") \/ (version = "lab6" /\ Contains(input, "|"))

(* What crashes the shell: a line that has no word before its first        *)
(* operator, or only white space before its first bar or "&".  A pipeline  *)
(* does not, whatever is missing in its commands (task4.c:39-59,           *)
(* LineParser.c:85-162).  To myshell an empty line is such a line, too.    *)
WordBefore(s, C) ==
    \E i \in DOMAIN s : IsWord(s[i]) /\ \A j \in 1 .. i : s[j] \notin C

CrashCause ==
    pc = "crashed" =>
        /\ ~ IsPipe
        /\ \/ ~ WordBefore(input, {"<", ">", "|", "&"})
           \/ \A i \in DOMAIN Before(input, {"|", "&"}) : input[i] \in {Space, Tab, "\n"}

(* Every line is dealt with in the end, if its programs end by themselves: *)
(* the shell prompts again or is gone.  A background command is never      *)
(* waited for, so that it may be endless.                                  *)
MustEnd ==
    (IsPipe \/ mainCmd[1].blocking) =>
        \A i \in Forked : Args(i) = << >> \/ Args(i)[1] \notin Endless

PromptReturns == (pc = "handle" /\ (mainCmd # << >> => MustEnd)) ~> (pc = "prompt" \/ ShellGone)

(* Zombies and the end of the input: if the last line starts a background  *)
(* command, it is carried out again and again, and as nothing ever reaps   *)
(* its processes, none is left for the user (task4.c:28 and 167).  To the  *)
(* shells of lab6 a pipeline is such a line.                               *)
Background(l) ==
    LET list == Parsed[l]
    IN  /\ version # "myshell"
        /\ Len(list) = 1 \/ (version = "lab6" /\ Len(list) > 1)
        /\ ~ list[1].blocking
        /\ list[1].command.arguments # << >> /\ list[1].command.arguments[1] # "cd"

TableFills == (ended /\ ~ ShellGone /\ Background(input)) ~> FreeSlots = {}

=================================================================================
