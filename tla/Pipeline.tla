------------------------------- MODULE Pipeline -------------------------------
(***************************************************************************)
(* Pipelines of the shell: handle_pipe_command (src/lab7/task4/task4.c)    *)
(* and the pipes it opens (src/lab7/task4/pipes.c).  Command i writes to   *)
(* pipe i, which command i + 1 reads.  What matters is which process holds *)
(* which end: fork copies what the shell holds at that moment, a reader    *)
(* sees the end of its input once no process holds the write end, and a    *)
(* writer is killed by SIGPIPE once no process holds the read end.         *)
(*                                                                         *)
(* A program is a source (writes Volume items), a filter (writes what it   *)
(* reads, to the end of its input), a head (reads one item and ends) or    *)
(* one that cannot be executed.  A command may redirect its input or its   *)
(* output to a file, which takes the place of its pipe.                    *)
(*                                                                         *)
(* Two earlier programs do the same with one pipe: the shell of            *)
(* lab7/task3, which runs the first two commands whatever is typed, and    *)
(* mypipeline of lab7/task2, which runs "ls -l | tail -n 2" once.          *)
(***************************************************************************)
EXTENDS Integers, Sequences, FiniteSets

CONSTANTS
    Versions,      \* the programs looked at, by their directories
    Kinds,         \* the kinds of program that are typed
    Redirections,  \* the redirections a command has: sets of "in", "out"
    ForkMayFail,   \* whether fork may return -1
    MaxCommands,   \* bound: commands in a pipeline
    MaxPipelines,  \* bound: pipelines typed
    Volume,        \* items a source writes, or the terminal provides
    Capacity,      \* items a pipe holds
    MaxFds         \* descriptors a process may hold beside the standard ones

ASSUME PipelineAssumption ==
    /\ Versions \subseteq {"task2", "task3", "task4"}
    /\ Kinds \subseteq {"source", "filter", "head", "missing"}
    /\ Redirections \subseteq SUBSET {"in", "out"}
    /\ ForkMayFail \in BOOLEAN
    /\ MaxCommands \in Nat /\ MaxCommands >= 2
    /\ MaxPipelines \in Nat
    /\ Volume \in Nat
    /\ Capacity \in Nat \ {0}
    /\ MaxFds \in Nat /\ MaxFds >= 2  \* POSIX: a process may open one pipe

VARIABLES
    version,    \* the program
    pc,         \* where it is
    cmds,       \* the pipeline: kind and redirections of each command
    cmd_ind,    \* the command being forked, or waited for
    ends,       \* the ends of this pipeline's pipes the shell holds
    leaked,     \* ends the shell holds and can no longer name
    child,      \* per command: state, ends held, items read and written
    pipe,       \* items in each pipe
    shown,      \* items the last command wrote to the terminal
    pipelines,  \* bound counter
    opened      \* history variable: pipes of all pipelines

vars == <<version, pc, cmds, cmd_ind, ends, leaked, child, pipe, shown, pipelines, opened>>

cmd_count == Len(cmds)
(* Mutant: one pipe too few. *)
nPipes_Short == cmd_count - 2

nPipes == cmd_count - 1

Commands == 0 .. cmd_count - 1
Pipes == 0 .. nPipes - 1

Kind(i) == cmds[i + 1].kind
Redirects(i) == cmds[i + 1].redirects

R(p) == <<p, "read">>
W(p) == <<p, "write">>

(* leftPipe and rightPipe, as sets of at most one pipe. *)
leftPipe(i) == {i - 1} \cap Pipes
rightPipe(i) == {i} \cap Pipes

NoChild == [state |-> "unborn", holds |-> {}, read |-> 0, written |-> 0]

Init ==
    /\ version \in Versions
    /\ pc = "prompt"
    /\ cmds = << >>
    /\ cmd_ind = 0
    /\ ends = {}
    /\ leaked = 0
    /\ child = << >>
    /\ pipe = << >>
    /\ shown = 0
    /\ pipelines = 0
    /\ opened = 0

-------------------------------------------------------------------------------
(* The shell. *)

(* createPipes opens every pipe; openPipes opens every pipe again and      *)
(* overwrites the descriptors of the first.  The earlier programs call     *)
(* pipe once.                                                              *)
createPipes(n) == IF version = "task4" THEN 2 * n ELSE 0

(* A shell that exits lets go of every end it holds. *)
Die(why) ==
    /\ pc' = why
    /\ ends' = {}
    /\ leaked' = 0

(* The pipes of n commands are opened; the ends a pipeline before this one *)
(* has left open cannot be named any more.                                 *)
Open(n) ==
    /\ LET lost == leaked + Cardinality(ends) + createPipes(n - 1) IN
       IF lost + 2 * (n - 1) <= MaxFds
       THEN /\ pc' = "fork"
            /\ ends' = (0 .. n - 2) \X {"read", "write"}
            /\ leaked' = lost
       ELSE Die("nopipe")  \* "The call to pipe() has failed."
    /\ child' = [i \in 0 .. n - 1 |-> NoChild]
    /\ pipe' = [p \in 0 .. n - 2 |-> 0]
    /\ opened' = opened + n - 1
    /\ cmd_ind' = 0
    /\ shown' = 0

Typed(n) ==
    /\ pc = "prompt"
    /\ pipelines < MaxPipelines
    /\ pipelines' = pipelines + 1
    /\ Open(n)
    /\ UNCHANGED version

Commandlines(n) == [1 .. n -> [kind : Kinds, redirects : Redirections]]

Start == \E n \in 2 .. MaxCommands : Typed(n) /\ cmds' \in Commandlines(n)

(* What follows a second bar is ignored. *)
StartTwo == Typed(2) /\ cmds' \in Commandlines(2)

(* "ls" is a source, "tail" reads to the end of its input.  A child forks  *)
(* again and waits for the program it started; both hold the same ends and *)
(* are one process here.  If that fork fails, nothing is executed.         *)
StartOnce ==
    /\ pipelines = 0
    /\ Typed(2)
    /\ \E first \in {"source", "missing"}, second \in {"filter", "missing"} :
         cmds' = <<[kind |-> first, redirects |-> {}], [kind |-> second, redirects |-> {}]>>

Fork ==
    /\ pc = "fork"
    /\ \/ /\ child' = [child EXCEPT ![cmd_ind] = [@ EXCEPT !.state = "setup", !.holds = ends]]
          /\ pc' = "close"
          /\ UNCHANGED <<ends, leaked>>
       \/ /\ ForkMayFail
          /\ Die("nofork")
          /\ UNCHANGED child
    /\ UNCHANGED <<cmds, cmd_ind, pipe, shown, pipelines, opened, version>>

(* Mutant: the write end is not closed. *)
closed_ReadOnly(i) == {R(p) : p \in leftPipe(i)}

(* What the shell closes once command i has been forked. *)
closed(i) == {W(p) : p \in rightPipe(i)} \cup {R(p) : p \in leftPipe(i)}

Close ==
    /\ pc = "close"
    /\ ends' = ends \ closed(cmd_ind)
    /\ IF cmd_ind + 1 < cmd_count
       THEN pc' = "fork" /\ cmd_ind' = cmd_ind + 1
       ELSE pc' = "wait" /\ cmd_ind' = 0
    /\ UNCHANGED <<cmds, leaked, child, pipe, shown, pipelines, opened, version>>

(* Mutant: only the first command is waited for. *)
Wait_First ==
    /\ pc = "wait"
    /\ child[cmd_ind].state = "ended"
    /\ pc' = "prompt"
    /\ UNCHANGED <<cmds, cmd_ind, ends, leaked, child, pipe, shown, pipelines, opened, version>>

(* The commands are waited for in their order. *)
Wait ==
    /\ pc = "wait"
    /\ child[cmd_ind].state = "ended"
    /\ IF cmd_ind + 1 < cmd_count
       THEN pc' = "wait" /\ cmd_ind' = cmd_ind + 1
       ELSE pc' = "prompt" /\ cmd_ind' = 0
    /\ UNCHANGED <<cmds, ends, leaked, child, pipe, shown, pipelines, opened, version>>

ForkCloseWait == Fork \/ Close \/ Wait

handle_pipe_command == version = "task4" /\ (Start \/ ForkCloseWait)
handle_two_commands == version = "task3" /\ (StartTwo \/ ForkCloseWait)
mypipeline == version = "task2" /\ (StartOnce \/ ForkCloseWait)

ShellNext == handle_pipe_command \/ handle_two_commands \/ mypipeline

-------------------------------------------------------------------------------
(* The commands. *)

(* The ends a child goes on holding.  dup2 and close move its own two ends *)
(* to the standard descriptors, where a redirection replaces them; the     *)
(* ends it inherited for other commands stay open.                         *)
kept(i) ==
    child[i].holds \ ({R(p) : p \in {q \in leftPipe(i) : "in" \in Redirects(i)}} \cup
                      {W(p) : p \in {q \in rightPipe(i) : "out" \in Redirects(i)}})

Ended(i) == [child EXCEPT ![i] = [@ EXCEPT !.state = "ended", !.holds = {}]]

(* After dup2 and redirect_io the program is executed, or _exit is called. *)
Setup(i) ==
    /\ child[i].state = "setup"
    /\ child' = IF Kind(i) = "missing" THEN Ended(i)
                ELSE [child EXCEPT ![i] = [@ EXCEPT !.state = "run", !.holds = kept(i)]]
    /\ UNCHANGED <<pipe, shown>>

Running(i) == child[i].state = "run"

Held(end) == end \in ends \/ \E i \in Commands : end \in child[i].holds

FromPipe(i) == leftPipe(i) # {} /\ "in" \notin Redirects(i)
ToPipe(i) == rightPipe(i) # {} /\ "out" \notin Redirects(i)

Wants(i) == Kind(i) = "filter" \/ (Kind(i) = "head" /\ child[i].read = 0)

(* Items still to be written: the source's own, or what was read and not   *)
(* yet passed on.                                                          *)
Pending(i) ==
    child[i].written < (IF Kind(i) = "source" THEN Volume ELSE child[i].read)

CanRead(i) ==
    /\ Running(i)
    /\ Wants(i)
    /\ ~ Pending(i)
    /\ IF FromPipe(i) THEN pipe[i - 1] > 0 ELSE child[i].read < Volume

(* An item from the pipe, or from the terminal or a file. *)
Read(i) ==
    /\ CanRead(i)
    /\ pipe' = IF FromPipe(i) THEN [pipe EXCEPT ![i - 1] = @ - 1] ELSE pipe
    /\ child' = [child EXCEPT ![i].read = @ + 1]
    /\ UNCHANGED shown

Broken(i) == ToPipe(i) /\ ~ Held(R(i))

CanWrite(i) ==
    /\ Running(i)
    /\ Pending(i)
    /\ ToPipe(i) => Broken(i) \/ pipe[i] < Capacity

(* An item to the pipe, if it has room, or to the terminal or a file.  A   *)
(* writer to a pipe nobody can read is killed by SIGPIPE.                  *)
Write(i) ==
    /\ CanWrite(i)
    /\ child' = IF Broken(i) THEN Ended(i)
                ELSE [child EXCEPT ![i].written = @ + 1]
    /\ pipe' = IF ToPipe(i) /\ ~ Broken(i) THEN [pipe EXCEPT ![i] = @ + 1] ELSE pipe
    /\ shown' = IF rightPipe(i) = {} THEN shown + 1 ELSE shown

EndOfInput(i) ==
    IF FromPipe(i) THEN pipe[i - 1] = 0 /\ ~ Held(W(i - 1)) ELSE child[i].read = Volume

CanFinish(i) ==
    /\ Running(i)
    /\ ~ Pending(i)
    /\ Wants(i) => EndOfInput(i)

Finish(i) ==
    /\ CanFinish(i)
    /\ child' = Ended(i)
    /\ UNCHANGED <<pipe, shown>>

CommandNext(i) ==
    /\ Setup(i) \/ Read(i) \/ Write(i) \/ Finish(i)
    /\ UNCHANGED <<pc, cmds, cmd_ind, ends, leaked, pipelines, opened, version>>

Next == ShellNext \/ \E i \in Commands : CommandNext(i)

Spec == Init /\ [][Next]_vars

(* The scheduler runs the shell and every command; the user may type no    *)
(* more.                                                                   *)
FairSpec ==
    /\ Spec
    /\ WF_vars(ForkCloseWait)
    /\ \A i \in 0 .. MaxCommands - 1 : WF_vars(i \in Commands /\ CommandNext(i))

-------------------------------------------------------------------------------
(* Properties. *)

CommandTypes == [kind : {"source", "filter", "head", "missing"}, redirects : SUBSET {"in", "out"}]

(* The variables hold values of their types; the shell holds ends of this  *)
(* pipeline's pipes only, and no pipe holds more than it can.              *)
TypeOK ==
    /\ version \in Versions
    /\ pc \in {"prompt", "fork", "close", "wait", "nopipe", "nofork"}
    /\ cmds \in Seq(CommandTypes)
    /\ cmd_ind \in Nat
    /\ ends \subseteq Pipes \X {"read", "write"}
    /\ leaked \in 0 .. MaxFds
    /\ \A i \in DOMAIN child :
         /\ child[i].state \in {"unborn", "setup", "run", "ended"}
         /\ child[i].holds \subseteq Pipes \X {"read", "write"}
         /\ child[i].written <= Volume
    /\ \A p \in DOMAIN pipe : pipe[p] \in 0 .. Capacity
    /\ shown \in 0 .. Volume
    /\ pipelines \in 0 .. MaxPipelines
    /\ opened \in Nat

(* What the pipelines before cost: the shell of task4 keeps two            *)
(* descriptors of every pipe it ever asked for, and exits when the next    *)
(* pipes find no room beside them; the earlier programs, which close all   *)
(* they open, never exit for that reason (pipes.c:9-19 and 62-75,          *)
(* task4.c:108-111, task3.c:219-245).                                      *)
LeakBudget ==
    /\ pc \notin {"nopipe", "nofork"} =>
         leaked = IF version = "task4" THEN 2 * opened ELSE 0
    /\ pc = "nopipe" => version = "task4" /\ 2 * opened + 2 * nPipes > MaxFds

(* A chain: every command reads all of the one before and passes it on. *)
Chain ==
    \A i \in Commands :
        /\ Kind(i) = "filter" \/ (i = 0 /\ Kind(i) = "source")
        /\ FromPipe(i) = (i > 0)
        /\ ToPipe(i) = (i < cmd_count - 1)

(* When the shell prompts again, everything a chain was fed has come out   *)
(* of its last command, wherever its two ends are redirected: the shell    *)
(* waits for all of them (task4.c:90-117).                                 *)
NothingLost == (pc = "prompt" /\ cmds # << >> /\ Chain) => shown = Volume

(* No action of the shell or of a command is enabled while the shell waits. *)
NothingRuns ==
    /\ pc = "wait"
    /\ child[cmd_ind].state # "ended"
    /\ \A i \in Commands :
         child[i].state # "setup" /\ ~ CanRead(i) /\ ~ CanWrite(i) /\ ~ CanFinish(i)

(* The one way a pipeline hangs the shell: some writer has filled its pipe *)
(* and the reader has ended, or redirected its input, but no SIGPIPE comes *)
(* because the read end was inherited by the writer (task4.c:83-111).  In  *)
(* particular no reader ever waits for the end of an input nobody writes.  *)
HangCause ==
    NothingRuns =>
        \E i \in Commands :
            /\ Running(i)
            /\ Pending(i)
            /\ ToPipe(i)
            /\ pipe[i] = Capacity
            /\ child[i + 1].state = "ended" \/ ~ FromPipe(i + 1)
            /\ R(i) \in child[i].holds

(* A chain always ends, or a fork in it failed and the shell exited        *)
(* (task4.c:79-117).                                                       *)
PipelineEnds == (pc = "fork" /\ Chain) ~> pc \in {"prompt", "nofork"}

===============================================================================
