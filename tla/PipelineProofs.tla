---------------------------- MODULE PipelineProofs ----------------------------
(***************************************************************************)
(* What the runs of Pipeline check on pipelines of three commands, proved  *)
(* for pipelines of any length, pipes of any capacity and any limit of     *)
(* descriptors.                                                            *)
(***************************************************************************)
EXTENDS Pipeline, CountLemmas

States == {"unborn", "setup", "run", "ended"}

Ends == Pipes \X {"read", "write"}

ChildType == [state : States, holds : SUBSET Ends, read : Nat, written : Nat]

Typing ==
    /\ version \in Versions
    /\ pc \in {"prompt", "fork", "close", "wait", "nopipe", "nofork"}
    /\ cmds \in Seq(CommandTypes)
    /\ cmd_ind \in Nat
    /\ ends \in SUBSET Ends
    /\ leaked \in 0 .. MaxFds
    /\ child \in [Commands -> ChildType]
    /\ pipe \in [Pipes -> 0 .. Capacity]
    /\ shown \in Nat
    /\ pipelines \in 0 .. MaxPipelines
    /\ opened \in Nat

(* How far the shell is, and which children there are. *)
Position ==
    /\ Len(cmds) = 0 \/ Len(cmds) >= 2
    /\ Len(cmds) = 0 => pc = "prompt" /\ shown = 0
    /\ Len(cmds) # 0 => cmd_ind < Len(cmds)
    /\ pc = "fork" => \A i \in Commands : child[i].state = "unborn" <=> i >= cmd_ind
    /\ pc = "close" => \A i \in Commands : child[i].state = "unborn" <=> i > cmd_ind
    /\ pc = "wait" => \A i \in Commands : /\ child[i].state # "unborn"
                                          /\ i < cmd_ind => child[i].state = "ended"
    /\ pc = "prompt" => \A i \in Commands : child[i].state = "ended"
    /\ pc = "nopipe" => \A i \in Commands : child[i].state = "unborn"

(* What the shell holds when it forks command i: every pipe from i on, and *)
(* the read end of the one before.                                         *)
Inherited(i) == {W(p) : p \in {q \in Pipes : q >= i}} \cup {R(p) : p \in {q \in Pipes : q >= i - 1}}

(* What command i gives up for its redirections. *)
Dropped(i) ==
    {R(p) : p \in {q \in leftPipe(i) : "in" \in Redirects(i)}} \cup
    {W(p) : p \in {q \in rightPipe(i) : "out" \in Redirects(i)}}

Holding ==
    /\ ends = IF pc \in {"fork", "close"} THEN Inherited(cmd_ind) ELSE {}
    /\ \A i \in Commands :
         child[i].holds = CASE child[i].state = "setup" -> Inherited(i)
                            [] child[i].state = "run" -> Inherited(i) \ Dropped(i)
                            [] OTHER -> {}

Passed(i) == IF ToPipe(i) THEN child[i].written ELSE 0
Taken(i) == IF FromPipe(i) THEN child[i].read ELSE 0

(* What is in a pipe was written by one neighbour and not yet read by the  *)
(* other; nobody writes more than it has.                                  *)
Flow ==
    /\ \A p \in Pipes : pipe[p] = Passed(p) - Taken(p + 1)
    /\ \A i \in Commands :
         /\ child[i].state \in {"unborn", "setup"} => child[i].read = 0 /\ child[i].written = 0
         /\ child[i].read <= Volume
         /\ child[i].written <= IF Kind(i) = "source" THEN Volume ELSE child[i].read
    /\ Len(cmds) # 0 => shown = child[Len(cmds) - 1].written

(* In a chain, a command that has ended has passed on everything. *)
Complete ==
    Chain /\ pc # "nofork" =>
        \A i \in Commands : child[i].state = "ended" => child[i].written = Volume

IInv == Typing /\ Position /\ Holding /\ LeakBudget /\ Flow /\ Complete

-------------------------------------------------------------------------------
(* Lemmas. *)

(* Which ends Inherited names. *)
LEMMA InheritedEnds ==
    ASSUME NEW i \in Int, cmd_count \in Nat
    PROVE  /\ Inherited(i) \in SUBSET Ends
           /\ \A p \in Pipes : /\ W(p) \in Inherited(i) <=> p >= i
                               /\ R(p) \in Inherited(i) <=> p >= i - 1
           /\ Inherited(i + 1) = Inherited(i) \ closed(i)
           /\ i = 0 => Inherited(i) = Ends
           /\ i = cmd_count - 1 => Inherited(i + 1) = {}
<1> USE DEF Inherited, Ends, W, R, closed, leftPipe, rightPipe, Pipes, nPipes
<1>1. Inherited(i) \in SUBSET Ends
  OBVIOUS
<1>2. \A p \in Pipes : /\ W(p) \in Inherited(i) <=> p >= i
                       /\ R(p) \in Inherited(i) <=> p >= i - 1
  OBVIOUS
<1>3. Inherited(i + 1) = Inherited(i) \ closed(i)
  OBVIOUS
<1>4. i = 0 => Inherited(i) = Ends
  OBVIOUS
<1>5. i = cmd_count - 1 => Inherited(i + 1) = {}
  OBVIOUS
<1> QED
  BY <1>1, <1>2, <1>3, <1>4, <1>5

-------------------------------------------------------------------------------
(* The invariant holds initially. *)

LEMMA InitInvariant ==
    Init => IInv
<1> SUFFICES ASSUME Init PROVE IInv
  OBVIOUS
<1> USE PipelineAssumption DEF Init
<1>1. cmd_count = 0 /\ Commands = {} /\ Pipes = {}
  BY DEF cmd_count, Commands, Pipes, nPipes
<1>2. Typing
  BY <1>1 DEF Typing
<1>3. Position
  BY <1>1 DEF Position
<1>4. Holding
  BY <1>1 DEF Holding
<1>5. LeakBudget
  BY DEF LeakBudget
<1>6. Flow
  BY <1>1 DEF Flow
<1>7. Complete
  BY <1>1 DEF Complete
<1> QED
  BY <1>2, <1>3, <1>4, <1>5, <1>6, <1>7 DEF IInv

-------------------------------------------------------------------------------
(* The steps of the shell. *)

(* Opening the pipes of n commands: the one step that changes the pipeline *)
(* itself.                                                                 *)
LEMMA TypedStep ==
    ASSUME IInv, NEW n \in Nat, n >= 2, Typed(n), version # "task4" => n = 2,
           cmds' \in Seq(CommandTypes), Len(cmds') = n
    PROVE  IInv'
<1> USE PipelineAssumption
<1> DEFINE lost == leaked + Cardinality(ends) + createPipes(n - 1)
<1>1. cmd_count' = n /\ nPipes' = n - 1 /\ Commands' = 0 .. n - 1 /\ Pipes' = 0 .. n - 2
  BY DEF cmd_count, nPipes, Commands, Pipes
<1>2. /\ pc = "prompt"
      /\ pipelines' \in 0 .. MaxPipelines
      /\ version' = version
      /\ child' = [i \in Commands' |-> NoChild]
      /\ pipe' = [p \in Pipes' |-> 0]
      /\ opened' = opened + n - 1
      /\ cmd_ind' = 0
      /\ shown' = 0
  BY <1>1 DEF Typed, Open, IInv, Typing
<1>3. /\ version \in {"task2", "task3", "task4"}
      /\ leaked = IF version = "task4" THEN 2 * opened ELSE 0
      /\ opened \in Nat
      /\ lost = leaked + createPipes(n - 1)
  <2>1. Cardinality(ends) = 0
    BY <1>2, FS_EmptySet DEF IInv, Holding
  <2> QED
    BY <1>2, <2>1 DEF IInv, Typing, LeakBudget, createPipes
<1>4. lost \in Nat /\ lost = IF version = "task4" THEN 2 * opened' ELSE 0
  BY <1>2, <1>3 DEF createPipes
<1>5. \/ /\ pc' = "fork"
         /\ lost + 2 * (n - 1) <= MaxFds
         /\ ends' = Ends'
         /\ leaked' = lost
      \/ /\ pc' = "nopipe"
         /\ lost + 2 * (n - 1) > MaxFds
         /\ ends' = {}
         /\ leaked' = 0
  <2> HIDE DEF lost
  <2>1. Open(n)
    BY DEF Typed
  <2>2. IF lost + 2 * (n - 1) <= MaxFds
        THEN /\ pc' = "fork"
             /\ ends' = (0 .. n - 2) \X {"read", "write"}
             /\ leaked' = lost
        ELSE Die("nopipe")
    BY <2>1 DEF Open, lost
  <2> QED
    BY <1>1, <1>4, <2>2 DEF Die, Ends
<1> HIDE DEF lost
<1>6. Typing'
  <2>1. child' \in [Commands' -> ChildType']
    BY <1>2 DEF NoChild, ChildType, States
  <2>2. pipe' \in [Pipes' -> 0 .. Capacity]
    BY <1>2
  <2>3. leaked' \in 0 .. MaxFds /\ ends' \in SUBSET Ends' /\ opened' \in Nat
    BY <1>2, <1>3, <1>4, <1>5
  <2> QED
    BY <1>2, <1>5, <2>1, <2>2, <2>3 DEF IInv, Typing
<1>7. Position'
  BY <1>1, <1>2, <1>5 DEF Position, NoChild
<1>8. Holding'
  <2>1. pc' = "fork" => ends' = Inherited(0)'
    BY <1>1, <1>5 DEF Inherited, Ends, R, W
  <2>2. \A i \in Commands' : child'[i].state = "unborn" /\ child'[i].holds = {}
    BY <1>2 DEF NoChild
  <2> QED
    BY <1>2, <1>5, <2>1, <2>2 DEF Holding
<1>9. LeakBudget'
  BY <1>1, <1>2, <1>3, <1>4, <1>5 DEF LeakBudget
<1>10. Flow'
  BY <1>1, <1>2 DEF Flow, NoChild, Passed, Taken
<1>11. Complete'
  BY <1>2 DEF Complete, NoChild
<1> QED
  BY <1>6, <1>7, <1>8, <1>9, <1>10, <1>11 DEF IInv

(* As long as the pipeline is the same, so is what is defined from it.     *)
LEMMA SamePipeline ==
    ASSUME UNCHANGED cmds
    PROVE  /\ cmd_count' = cmd_count
           /\ Commands' = Commands
           /\ Pipes' = Pipes
           /\ Ends' = Ends
           /\ ChildType' = ChildType
           /\ Chain' = Chain
           /\ \A i : /\ Kind(i)' = Kind(i)
                     /\ Redirects(i)' = Redirects(i)
                     /\ Inherited(i)' = Inherited(i)
                     /\ Dropped(i)' = Dropped(i)
                     /\ FromPipe(i)' = FromPipe(i)
                     /\ ToPipe(i)' = ToPipe(i)
<1> USE DEF cmd_count, Commands, Pipes, nPipes
<1>1. cmd_count' = cmd_count /\ Commands' = Commands /\ Pipes' = Pipes
  OBVIOUS
<1>2. Ends' = Ends /\ ChildType' = ChildType
  BY DEF Ends, ChildType
<1>3. \A i : Kind(i)' = Kind(i) /\ Redirects(i)' = Redirects(i)
  BY DEF Kind, Redirects
<1>4. \A i : Inherited(i)' = Inherited(i)
  BY DEF Inherited
<1>5. \A i : /\ Dropped(i)' = Dropped(i)
             /\ FromPipe(i)' = FromPipe(i)
             /\ ToPipe(i)' = ToPipe(i)
  BY <1>3 DEF Dropped, FromPipe, ToPipe, leftPipe, rightPipe
<1>6. Chain' = Chain
  BY <1>1, <1>3, <1>5 DEF Chain
<1> QED
  BY <1>1, <1>2, <1>3, <1>4, <1>5, <1>6

(* What an assignment to the state and the ends of a child leaves.         *)
LEMMA ChildUpdate ==
    ASSUME child \in [Commands -> ChildType], NEW i \in Commands,
           NEW s \in States, NEW h \in SUBSET Ends,
           child' = [child EXCEPT ![i] = [@ EXCEPT !.state = s, !.holds = h]]
    PROVE  /\ child' \in [Commands -> ChildType]
           /\ child'[i].state = s
           /\ child'[i].holds = h
           /\ \A j \in Commands : j # i => child'[j] = child[j]
           /\ \A j \in Commands : child'[j].read = child[j].read /\ child'[j].written = child[j].written
<1> DEFINE c == [child[i] EXCEPT !.state = s, !.holds = h]
<1>1. child[i] \in ChildType
  OBVIOUS
<1>2. /\ c \in ChildType
      /\ c.state = s /\ c.holds = h
      /\ c.read = child[i].read /\ c.written = child[i].written
  BY <1>1 DEF ChildType
<1>3. child' = [child EXCEPT ![i] = c]
  OBVIOUS
<1> HIDE DEF c
<1> QED
  BY <1>2, <1>3

LEMMA ForkStep ==
    ASSUME IInv, Fork
    PROVE  IInv'
<1> USE PipelineAssumption
<1>1. /\ pc = "fork" /\ cmd_ind \in Commands /\ cmd_count \in Nat
      /\ child[cmd_ind].read = 0 /\ child[cmd_ind].written = 0
      /\ UNCHANGED <<cmds, cmd_ind, pipe, shown, pipelines, opened, version>>
  <2>1. pc = "fork" /\ UNCHANGED <<cmds, cmd_ind, pipe, shown, pipelines, opened, version>>
    BY DEF Fork
  <2>2. cmd_ind \in Commands /\ cmd_count \in Nat
    BY <2>1 DEF IInv, Typing, Position, Commands, cmd_count
  <2>3. child[cmd_ind].read = 0 /\ child[cmd_ind].written = 0
    BY <2>1, <2>2 DEF IInv, Typing, Position, Flow, Commands
  <2> QED
    BY <2>1, <2>2, <2>3
<1>2. Commands' = Commands /\ Pipes' = Pipes /\ Ends' = Ends /\ ChildType' = ChildType
      /\ Chain' = Chain
      /\ \A i : /\ Kind(i)' = Kind(i)
                /\ Inherited(i)' = Inherited(i)
                /\ Dropped(i)' = Dropped(i)
                /\ FromPipe(i)' = FromPipe(i)
                /\ ToPipe(i)' = ToPipe(i)
  BY <1>1, SamePipeline
<1>3. CASE /\ child' = [child EXCEPT ![cmd_ind] = [@ EXCEPT !.state = "setup", !.holds = ends]]
           /\ pc' = "close"
           /\ UNCHANGED <<ends, leaked>>
  <2>1. /\ child' \in [Commands -> ChildType]
        /\ child'[cmd_ind].state = "setup"
        /\ child'[cmd_ind].holds = Inherited(cmd_ind)
        /\ \A i \in Commands : i # cmd_ind => child'[i] = child[i]
        /\ \A i \in Commands : child'[i].read = child[i].read /\ child'[i].written = child[i].written
    <3>1. ends = Inherited(cmd_ind) /\ ends \in SUBSET Ends /\ child \in [Commands -> ChildType]
      BY <1>1 DEF IInv, Typing, Holding
    <3> QED
      BY <1>1, <1>3, <3>1, ChildUpdate DEF States
  <2>2. Typing'
    BY <1>1, <1>2, <1>3, <2>1 DEF IInv, Typing
  <2>3. Position'
    <3>1. \A i \in Commands : child'[i].state = "unborn" <=> i > cmd_ind
      <4>1. \A i \in Commands : i \in Int /\ (child[i].state = "unborn" <=> i >= cmd_ind)
        BY <1>1 DEF IInv, Position, Commands
      <4> QED
        BY <1>1, <2>1, <4>1 DEF Commands
    <3> QED
      BY <1>1, <1>2, <1>3, <3>1 DEF IInv, Position
  <2>4. Holding'
    BY <1>1, <1>2, <1>3, <2>1 DEF IInv, Holding
  <2>5. LeakBudget'
    BY <1>1, <1>3 DEF IInv, LeakBudget
  <2>7. Flow'
    <3>1. \A i : i \in Commands => Passed(i)' = Passed(i) /\ Taken(i)' = Taken(i)
      BY <1>2, <2>1 DEF Passed, Taken
    <3>2. \A p \in Pipes : p \in Commands /\ p + 1 \in Commands
      BY <1>1 DEF Pipes, Commands, nPipes
    <3>3. Len(cmds) # 0 => Len(cmds) - 1 \in Commands
      BY <1>1 DEF Commands, cmd_count
    <3> QED
      BY <1>1, <1>2, <2>1, <3>1, <3>2, <3>3 DEF IInv, Flow
  <2>8. Complete'
    BY <1>1, <1>2, <2>1 DEF IInv, Complete
  <2> QED
    BY <2>2, <2>3, <2>4, <2>5, <2>7, <2>8 DEF IInv
<1>4. CASE Die("nofork") /\ UNCHANGED child
  <2> USE <1>1, <1>2, <1>4 DEF Die
  <2>1. Typing'
    BY DEF IInv, Typing
  <2>2. Position'
    BY DEF IInv, Position
  <2>3. Holding'
    BY DEF IInv, Holding
  <2>4. LeakBudget'
    BY DEF LeakBudget
  <2>5. Flow'
    <3>1. \A i : Passed(i)' = Passed(i) /\ Taken(i)' = Taken(i)
      BY DEF Passed, Taken
    <3> QED
      BY <3>1 DEF IInv, Flow
  <2>6. Complete'
    BY DEF Complete
  <2> QED
    BY <2>1, <2>2, <2>3, <2>4, <2>5, <2>6 DEF IInv
<1> QED
  BY <1>3, <1>4 DEF Fork

LEMMA CloseStep ==
    ASSUME IInv, Close
    PROVE  IInv'
<1> USE PipelineAssumption
<1>1. /\ pc = "close" /\ cmd_ind \in Commands /\ cmd_count \in Nat /\ cmd_count = Len(cmds)
      /\ ends' = ends \ closed(cmd_ind)
      /\ \/ cmd_ind + 1 < cmd_count /\ pc' = "fork" /\ cmd_ind' = cmd_ind + 1
         \/ cmd_ind + 1 = cmd_count /\ pc' = "wait" /\ cmd_ind' = 0
      /\ UNCHANGED <<cmds, leaked, child, pipe, shown, pipelines, opened, version>>
  BY DEF Close, IInv, Typing, Position, Commands, cmd_count
<1>2. Commands' = Commands /\ Pipes' = Pipes /\ Ends' = Ends /\ ChildType' = ChildType
      /\ Chain' = Chain
      /\ \A i : /\ Kind(i)' = Kind(i)
                /\ Inherited(i)' = Inherited(i)
                /\ Dropped(i)' = Dropped(i)
                /\ FromPipe(i)' = FromPipe(i)
                /\ ToPipe(i)' = ToPipe(i)
  BY <1>1, SamePipeline
<1>3. \A i \in Commands : i \in Int /\ (child[i].state = "unborn" <=> i > cmd_ind)
  BY <1>1 DEF IInv, Position, Commands
<1>4. cmd_ind \in Nat /\ ends = Inherited(cmd_ind) /\ ends \in SUBSET Ends
  BY <1>1 DEF IInv, Typing, Holding
<1>5. ends' = Inherited(cmd_ind + 1)
  BY <1>1, <1>4, InheritedEnds
<1>6. Typing'
  BY <1>1, <1>2, <1>4 DEF IInv, Typing
<1>7. Position'
  <2>1. CASE pc' = "fork"
    <3>1. \A i \in Commands : i > cmd_ind <=> i >= cmd_ind'
      BY <1>1, <1>3, <1>4, <2>1
    <3> QED
      BY <1>1, <1>2, <1>3, <2>1, <3>1 DEF IInv, Position
  <2>2. CASE pc' = "wait"
    <3>1. \A i \in Commands : ~ (i > cmd_ind) /\ ~ (i < cmd_ind')
      BY <1>1, <1>3, <1>4, <2>2 DEF Commands
    <3> QED
      BY <1>1, <1>2, <1>3, <2>2, <3>1 DEF IInv, Position
  <2> QED
    BY <1>1, <2>1, <2>2
<1>8. Holding'
  <2>1. pc' = "fork" => ends' = Inherited(cmd_ind)'
    BY <1>1, <1>2, <1>5 DEF Inherited
  <2>2. pc' = "wait" => ends' = {}
    BY <1>1, <1>4, <1>5, InheritedEnds
  <2> QED
    BY <1>1, <1>2, <2>1, <2>2 DEF IInv, Holding
<1>9. LeakBudget'
  BY <1>1 DEF IInv, LeakBudget
<1>10. Flow'
  <2>1. \A i : Passed(i)' = Passed(i) /\ Taken(i)' = Taken(i)
    BY <1>1, <1>2 DEF Passed, Taken
  <2> QED
    BY <1>1, <1>2, <2>1 DEF IInv, Flow
<1>11. Complete'
  BY <1>1, <1>2 DEF IInv, Complete
<1> QED
  BY <1>6, <1>7, <1>8, <1>9, <1>10, <1>11 DEF IInv

LEMMA WaitStep ==
    ASSUME IInv, Wait
    PROVE  IInv'
<1> USE PipelineAssumption
<1>1. /\ pc = "wait" /\ cmd_ind \in Commands /\ cmd_count \in Nat /\ cmd_count = Len(cmds)
      /\ child[cmd_ind].state = "ended"
      /\ \/ cmd_ind + 1 < cmd_count /\ pc' = "wait" /\ cmd_ind' = cmd_ind + 1
         \/ cmd_ind + 1 = cmd_count /\ pc' = "prompt" /\ cmd_ind' = 0
      /\ UNCHANGED <<cmds, ends, leaked, child, pipe, shown, pipelines, opened, version>>
  BY DEF Wait, IInv, Typing, Position, Commands, cmd_count
<1>2. Commands' = Commands /\ Pipes' = Pipes /\ Ends' = Ends /\ ChildType' = ChildType
      /\ Chain' = Chain
      /\ \A i : /\ Kind(i)' = Kind(i)
                /\ Inherited(i)' = Inherited(i)
                /\ Dropped(i)' = Dropped(i)
                /\ FromPipe(i)' = FromPipe(i)
                /\ ToPipe(i)' = ToPipe(i)
  BY <1>1, SamePipeline
<1>3. \A i \in Commands : /\ i \in Int
                          /\ child[i].state # "unborn"
                          /\ i <= cmd_ind => child[i].state = "ended"
  BY <1>1 DEF IInv, Position, Commands
<1>4. cmd_ind \in Nat /\ ends = {}
  BY <1>1 DEF IInv, Typing, Holding
<1>5. Typing'
  BY <1>1, <1>2, <1>4 DEF IInv, Typing
<1>6. Position'
  <2>1. CASE pc' = "wait"
    <3>1. \A i \in Commands : i < cmd_ind' => i <= cmd_ind
      BY <1>1, <1>3, <1>4, <2>1
    <3> QED
      BY <1>1, <1>2, <1>3, <2>1, <3>1 DEF IInv, Position
  <2>2. CASE pc' = "prompt"
    <3>1. \A i \in Commands : i <= cmd_ind
      BY <1>1, <1>3, <1>4, <2>2 DEF Commands
    <3> QED
      BY <1>1, <1>2, <1>3, <2>2, <3>1 DEF IInv, Position
  <2> QED
    BY <1>1, <2>1, <2>2
<1>7. Holding'
  BY <1>1, <1>2, <1>4 DEF IInv, Holding
<1>8. LeakBudget'
  BY <1>1 DEF IInv, LeakBudget
<1>9. Flow'
  <2>1. \A i : Passed(i)' = Passed(i) /\ Taken(i)' = Taken(i)
    BY <1>1, <1>2 DEF Passed, Taken
  <2> QED
    BY <1>1, <1>2, <2>1 DEF IInv, Flow
<1>10. Complete'
  BY <1>1, <1>2 DEF IInv, Complete
<1> QED
  BY <1>5, <1>6, <1>7, <1>8, <1>9, <1>10 DEF IInv

-------------------------------------------------------------------------------
(* The steps of the commands. *)

(* A command that runs always holds the read end of the pipe it writes to: *)
(* no writer is ever killed by SIGPIPE.                                    *)
LEMMA NeverBroken ==
    ASSUME IInv, NEW i \in Commands, Running(i)
    PROVE  /\ i \in Pipes => R(i) \in child[i].holds
           /\ ToPipe(i) => W(i) \in child[i].holds
           /\ ~ Broken(i)
<1>1. child[i].holds = Inherited(i) \ Dropped(i) /\ cmd_count \in Nat /\ i \in Int
  <2>1. child[i].holds = Inherited(i) \ Dropped(i)
    BY DEF IInv, Holding, Running
  <2> QED
    BY <2>1 DEF IInv, Typing, cmd_count, Commands
<1>2. i \in Pipes => R(i) \in Inherited(i) /\ R(i) \notin Dropped(i) /\ W(i) \in Inherited(i)
  BY <1>1, InheritedEnds DEF Dropped, R, W, leftPipe
<1>3. ToPipe(i) => i \in Pipes /\ W(i) \notin Dropped(i)
  BY DEF Dropped, R, W, ToPipe, rightPipe
<1> QED
  BY <1>1, <1>2, <1>3 DEF Broken, Held

(* A step of a command leaves the shell alone, which sees only whether it  *)
(* has ended.                                                              *)
LEMMA ShellUnaffected ==
    ASSUME IInv, NEW i \in Commands,
           UNCHANGED <<pc, cmds, cmd_ind, ends, leaked, pipelines, opened, version>>,
           child' \in [Commands -> ChildType],
           \A j \in Commands : j # i => child'[j] = child[j],
           child[i].state \in {"setup", "run"}, child'[i].state \in {"run", "ended"}
    PROVE  Position' /\ LeakBudget' /\ pc # "prompt"
<1>1. Commands' = Commands
  BY SamePipeline
<1>2. pc \notin {"prompt", "nopipe"} /\ Len(cmds) # 0
  BY DEF IInv, Typing, Position, Commands, cmd_count
<1>3. \A j \in Commands : /\ child'[j].state = "unborn" <=> child[j].state = "unborn"
                          /\ child[j].state = "ended" => child'[j].state = "ended"
  OBVIOUS
<1> QED
  BY <1>1, <1>2, <1>3 DEF IInv, Position, LeakBudget

(* The pipeline as a step of a command finds it and leaves it.             *)
LEMMA CommandFacts ==
    ASSUME IInv, NEW i \in Commands
    PROVE  /\ cmd_count \in Nat /\ cmd_count = Len(cmds) /\ i \in Int
           /\ child \in [Commands -> ChildType]
           /\ child[i] \in ChildType
           /\ pipe \in [Pipes -> 0 .. Capacity]
           /\ Len(cmds) - 1 \in Commands
           /\ \A p \in Pipes : p \in Commands /\ p + 1 \in Commands /\ p \in Int
           /\ FromPipe(i) => i - 1 \in Pipes
           /\ ToPipe(i) => i \in Pipes
           /\ rightPipe(i) = {} <=> i = Len(cmds) - 1
<1>1. cmd_count \in Nat /\ cmd_count = Len(cmds)
  BY DEF IInv, Typing, cmd_count
<1>2. child \in [Commands -> ChildType] /\ pipe \in [Pipes -> 0 .. Capacity]
  BY DEF IInv, Typing
<1> QED
  BY <1>1, <1>2 DEF Commands, Pipes, nPipes, FromPipe, ToPipe, leftPipe, rightPipe

LEMMA SetupStep ==
    ASSUME IInv, NEW i \in Commands, CommandNext(i), Setup(i)
    PROVE  IInv'
<1> USE PipelineAssumption
<1>1. UNCHANGED <<pc, cmds, cmd_ind, ends, leaked, pipelines, opened, version, pipe, shown>>
  BY DEF CommandNext, Setup
<1>2. Commands' = Commands /\ Pipes' = Pipes /\ Ends' = Ends /\ ChildType' = ChildType
      /\ Chain' = Chain
      /\ \A j : /\ Kind(j)' = Kind(j)
                /\ Inherited(j)' = Inherited(j)
                /\ Dropped(j)' = Dropped(j)
                /\ FromPipe(j)' = FromPipe(j)
                /\ ToPipe(j)' = ToPipe(j)
  BY <1>1, SamePipeline
<1>3. child[i].state = "setup" /\ child[i].holds = Inherited(i) /\ child[i] \in ChildType
  BY CommandFacts DEF Setup, IInv, Holding
<1>4. /\ child' \in [Commands -> ChildType]
      /\ \A j \in Commands : j # i => child'[j] = child[j]
      /\ \A j \in Commands : child'[j].read = child[j].read /\ child'[j].written = child[j].written
      /\ \/ Kind(i) = "missing" /\ child'[i].state = "ended" /\ child'[i].holds = {}
         \/ child'[i].state = "run" /\ child'[i].holds = Inherited(i) \ Dropped(i)
  <2>1. CASE Kind(i) = "missing"
    <3>1. child' = [child EXCEPT ![i] = [@ EXCEPT !.state = "ended", !.holds = {}]]
      BY <2>1 DEF Setup, Ended
    <3> QED
      BY <2>1, <3>1, CommandFacts, ChildUpdate DEF States
  <2>2. CASE Kind(i) # "missing"
    <3>1. kept(i) = Inherited(i) \ Dropped(i) /\ kept(i) \in SUBSET Ends
      BY <1>3 DEF kept, Dropped, ChildType
    <3>2. child' = [child EXCEPT ![i] = [@ EXCEPT !.state = "run", !.holds = kept(i)]]
      BY <2>2 DEF Setup
    <3> QED
      BY <2>2, <3>1, <3>2, CommandFacts, ChildUpdate DEF States
  <2> QED
    BY <2>1, <2>2
<1>5. Typing'
  BY <1>1, <1>2, <1>4 DEF IInv, Typing
<1>6. Position' /\ LeakBudget'
  BY <1>1, <1>3, <1>4, ShellUnaffected
<1>7. Holding'
  BY <1>1, <1>2, <1>4 DEF IInv, Holding
<1>8. Flow'
  <2>1. \A j \in Commands : Passed(j)' = Passed(j) /\ Taken(j)' = Taken(j)
    BY <1>2, <1>4 DEF Passed, Taken
  <2>2. \A j \in Commands : child'[j].state \in {"unborn", "setup"} =>
                              child[j].state \in {"unborn", "setup"}
    BY <1>4
  <2>3. \A p \in Pipes : pipe'[p] = Passed(p)' - Taken(p + 1)'
    BY <1>1, <2>1, CommandFacts DEF IInv, Flow
  <2>4. ASSUME NEW j \in Commands
        PROVE  /\ child'[j].state \in {"unborn", "setup"} => child'[j].read = 0 /\ child'[j].written = 0
               /\ child'[j].read <= Volume
               /\ child'[j].written <= IF Kind(j)' = "source" THEN Volume ELSE child'[j].read
    BY <1>2, <1>4, <2>2 DEF IInv, Flow
  <2>5. Len(cmds') # 0 => shown' = child'[Len(cmds') - 1].written
    BY <1>1, <1>4, CommandFacts DEF IInv, Flow
  <2> QED
    BY <1>2, <2>3, <2>4, <2>5 DEF Flow
<1>9. Complete'
  <2>1. Chain => Kind(i) # "missing"
    BY DEF Chain
  <2> QED
    BY <1>1, <1>2, <1>4, <2>1 DEF IInv, Complete
<1> QED
  BY <1>5, <1>6, <1>7, <1>8, <1>9 DEF IInv

(* What one more item read, or written, leaves.                            *)
LEMMA ReadUpdate ==
    ASSUME child \in [Commands -> ChildType], NEW i \in Commands,
           child' = [child EXCEPT ![i].read = @ + 1]
    PROVE  /\ child' \in [Commands -> ChildType]
           /\ \A j \in Commands : j # i => child'[j] = child[j]
           /\ \A j \in Commands : /\ child'[j].state = child[j].state
                                  /\ child'[j].holds = child[j].holds
                                  /\ child'[j].written = child[j].written
           /\ child'[i].read = child[i].read + 1
<1> DEFINE c == [child[i] EXCEPT !.read = @ + 1]
<1>1. child[i] \in ChildType
  OBVIOUS
<1>2. /\ c \in ChildType
      /\ c.state = child[i].state /\ c.holds = child[i].holds
      /\ c.written = child[i].written /\ c.read = child[i].read + 1
  BY <1>1 DEF ChildType
<1>3. child' = [child EXCEPT ![i] = c]
  OBVIOUS
<1> HIDE DEF c
<1> QED
  BY <1>2, <1>3

LEMMA WriteUpdate ==
    ASSUME child \in [Commands -> ChildType], NEW i \in Commands,
           child' = [child EXCEPT ![i].written = @ + 1]
    PROVE  /\ child' \in [Commands -> ChildType]
           /\ \A j \in Commands : j # i => child'[j] = child[j]
           /\ \A j \in Commands : /\ child'[j].state = child[j].state
                                  /\ child'[j].holds = child[j].holds
                                  /\ child'[j].read = child[j].read
           /\ child'[i].written = child[i].written + 1
<1> DEFINE c == [child[i] EXCEPT !.written = @ + 1]
<1>1. child[i] \in ChildType
  OBVIOUS
<1>2. /\ c \in ChildType
      /\ c.state = child[i].state /\ c.holds = child[i].holds
      /\ c.read = child[i].read /\ c.written = child[i].written + 1
  BY <1>1 DEF ChildType
<1>3. child' = [child EXCEPT ![i] = c]
  OBVIOUS
<1> HIDE DEF c
<1> QED
  BY <1>2, <1>3

LEMMA ReadStep ==
    ASSUME IInv, NEW i \in Commands, CommandNext(i), Read(i)
    PROVE  IInv'
<1> USE PipelineAssumption
<1>1. UNCHANGED <<pc, cmds, cmd_ind, ends, leaked, pipelines, opened, version, shown>>
  BY DEF CommandNext, Read
<1>2. Commands' = Commands /\ Pipes' = Pipes /\ Ends' = Ends /\ ChildType' = ChildType
      /\ Chain' = Chain
      /\ \A j : /\ Kind(j)' = Kind(j)
                /\ Inherited(j)' = Inherited(j)
                /\ Dropped(j)' = Dropped(j)
                /\ FromPipe(j)' = FromPipe(j)
                /\ ToPipe(j)' = ToPipe(j)
  BY <1>1, SamePipeline
<1>3. /\ child[i].state = "run"
      /\ Kind(i) # "source"
      /\ child[i] \in ChildType
      /\ child' = [child EXCEPT ![i].read = @ + 1]
  BY CommandFacts DEF Read, CanRead, Running, Wants
<1>4. /\ child' \in [Commands -> ChildType]
      /\ \A j \in Commands : j # i => child'[j] = child[j]
      /\ \A j \in Commands : /\ child'[j].state = child[j].state
                             /\ child'[j].holds = child[j].holds
                             /\ child'[j].written = child[j].written
      /\ child'[i].read = child[i].read + 1
  BY <1>3, CommandFacts, ReadUpdate
<1>5. ASSUME NEW p \in Pipes
      PROVE  /\ pipe'[p] = Passed(p)' - Taken(p + 1)'
             /\ pipe'[p] \in 0 .. Capacity
  <2>1. /\ pipe[p] = Passed(p) - Taken(p + 1) /\ pipe[p] \in 0 .. Capacity
        /\ p \in Commands /\ p + 1 \in Commands /\ p \in Int
        /\ child[p] \in ChildType /\ child[p + 1] \in ChildType
    BY CommandFacts DEF IInv, Flow
  <2>2. Passed(p)' = Passed(p)
    BY <1>2, <1>4, <2>1 DEF Passed
  <2>3. CASE p + 1 = i /\ FromPipe(i)
    <3>1. pipe[p] > 0 /\ pipe'[p] = pipe[p] - 1
      <4>1. p = i - 1
        BY <2>1, <2>3
      <4> QED
        BY <2>1, <2>3, <4>1, CommandFacts DEF Read, CanRead
    <3>2. Taken(p + 1)' = Taken(p + 1) + 1
      BY <1>2, <1>4, <2>3 DEF Taken
    <3> QED
      BY <2>1, <2>2, <3>1, <3>2 DEF Passed, Taken, ChildType
  <2>4. CASE ~ (p + 1 = i /\ FromPipe(i))
    <3>1. pipe'[p] = pipe[p]
      <4>1. p + 1 = i \/ p # i - 1
        BY <2>1, CommandFacts
      <4> QED
        BY <2>1, <2>4, <4>1, CommandFacts DEF Read
    <3>2. Taken(p + 1)' = Taken(p + 1)
      BY <1>2, <1>4, <2>1, <2>4 DEF Taken
    <3> QED
      BY <2>1, <2>2, <3>1, <3>2
  <2> QED
    BY <2>3, <2>4
<1>6. child[i].read + 1 <= Volume
  <2>1. CASE FromPipe(i)
    <3>1. i - 1 \in Pipes /\ i - 1 \in Commands /\ pipe[i - 1] > 0 /\ (i - 1) + 1 = i
      BY <2>1, CommandFacts DEF Read, CanRead
    <3>2. pipe[i - 1] = Passed(i - 1) - child[i].read
      <4>1. pipe[i - 1] = Passed(i - 1) - Taken((i - 1) + 1)
        BY <3>1 DEF IInv, Flow
      <4> QED
        BY <2>1, <3>1, <4>1 DEF Taken
    <3>3. Passed(i - 1) <= Volume /\ Passed(i - 1) \in Nat
      <4>1. child[i - 1] \in ChildType
        BY <3>1, CommandFacts
      <4>2. child[i - 1].written <= Volume
        BY <3>1, <4>1 DEF IInv, Flow, ChildType
      <4> QED
        BY <4>1, <4>2 DEF Passed, ChildType
    <3> QED
      BY <1>3, <3>1, <3>2, <3>3 DEF ChildType
  <2>2. CASE ~ FromPipe(i)
    BY <1>3, <2>2 DEF Read, CanRead, ChildType
  <2> QED
    BY <2>1, <2>2
<1>7. Typing'
  <2>1. pipe' \in [Pipes -> 0 .. Capacity]
    BY <1>5, CommandFacts DEF Read
  <2> QED
    BY <1>1, <1>2, <1>4, <2>1 DEF IInv, Typing
<1>8. Position' /\ LeakBudget'
  BY <1>1, <1>3, <1>4, ShellUnaffected
<1>9. Holding'
  BY <1>1, <1>2, <1>4 DEF IInv, Holding
<1>10. Flow'
  <2>1. ASSUME NEW j \in Commands
        PROVE  /\ child'[j].state \in {"unborn", "setup"} => child'[j].read = 0 /\ child'[j].written = 0
               /\ child'[j].read <= Volume
               /\ child'[j].written <= IF Kind(j)' = "source" THEN Volume ELSE child'[j].read
    <3>1. CASE j = i
      BY <1>2, <1>3, <1>4, <1>6, <3>1 DEF IInv, Flow, ChildType
    <3>2. CASE j # i
      BY <1>2, <1>4, <3>2 DEF IInv, Flow
    <3> QED
      BY <3>1, <3>2
  <2>2. Len(cmds') # 0 => shown' = child'[Len(cmds') - 1].written
    BY <1>1, <1>4, CommandFacts DEF IInv, Flow
  <2> QED
    BY <1>2, <1>5, <2>1, <2>2 DEF Flow
<1>11. Complete'
  BY <1>1, <1>2, <1>4 DEF IInv, Complete
<1> QED
  BY <1>7, <1>8, <1>9, <1>10, <1>11 DEF IInv

LEMMA WriteStep ==
    ASSUME IInv, NEW i \in Commands, CommandNext(i), Write(i)
    PROVE  IInv'
<1> USE PipelineAssumption
<1>1. UNCHANGED <<pc, cmds, cmd_ind, ends, leaked, pipelines, opened, version>>
  BY DEF CommandNext
<1>2. Commands' = Commands /\ Pipes' = Pipes /\ Ends' = Ends /\ ChildType' = ChildType
      /\ Chain' = Chain
      /\ \A j : /\ Kind(j)' = Kind(j)
                /\ Inherited(j)' = Inherited(j)
                /\ Dropped(j)' = Dropped(j)
                /\ FromPipe(j)' = FromPipe(j)
                /\ ToPipe(j)' = ToPipe(j)
  BY <1>1, SamePipeline
<1>3. /\ child[i].state = "run"
      /\ Pending(i)
      /\ child[i] \in ChildType
      /\ child' = [child EXCEPT ![i].written = @ + 1]
      /\ pipe' = IF ToPipe(i) THEN [pipe EXCEPT ![i] = @ + 1] ELSE pipe
      /\ ToPipe(i) => pipe[i] < Capacity
  <2>1. Running(i)
    BY DEF Write, CanWrite
  <2>2. ~ Broken(i)
    BY <2>1, NeverBroken
  <2> QED
    BY <2>1, <2>2, CommandFacts DEF Write, CanWrite, Running
<1>4. /\ child' \in [Commands -> ChildType]
      /\ \A j \in Commands : j # i => child'[j] = child[j]
      /\ \A j \in Commands : /\ child'[j].state = child[j].state
                             /\ child'[j].holds = child[j].holds
                             /\ child'[j].read = child[j].read
      /\ child'[i].written = child[i].written + 1
  BY <1>3, CommandFacts, WriteUpdate
<1>5. ASSUME NEW p \in Pipes
      PROVE  /\ pipe'[p] = Passed(p)' - Taken(p + 1)'
             /\ pipe'[p] \in 0 .. Capacity
  <2>1. /\ pipe[p] = Passed(p) - Taken(p + 1) /\ pipe[p] \in 0 .. Capacity
        /\ p \in Commands /\ p + 1 \in Commands
        /\ child[p] \in ChildType /\ child[p + 1] \in ChildType
    BY CommandFacts DEF IInv, Flow
  <2>2. Taken(p + 1)' = Taken(p + 1)
    BY <1>2, <1>4, <2>1 DEF Taken
  <2>3. CASE p = i /\ ToPipe(i)
    <3>1. pipe[p] < Capacity /\ pipe'[p] = pipe[p] + 1
      BY <1>3, <2>3, CommandFacts
    <3>2. Passed(p)' = Passed(p) + 1
      BY <1>2, <1>4, <2>3 DEF Passed
    <3> QED
      BY <2>1, <2>2, <3>1, <3>2 DEF Passed, Taken, ChildType
  <2>4. CASE ~ (p = i /\ ToPipe(i))
    <3>1. pipe'[p] = pipe[p]
      BY <1>3, <2>4, CommandFacts
    <3>2. Passed(p)' = Passed(p)
      BY <1>2, <1>4, <2>1, <2>4 DEF Passed
    <3> QED
      BY <2>1, <2>2, <3>1, <3>2
  <2> QED
    BY <2>3, <2>4
<1>6. shown' \in Nat /\ shown' = child'[Len(cmds) - 1].written
  <2>1. shown \in Nat /\ shown = child[Len(cmds) - 1].written
    BY CommandFacts DEF IInv, Typing, Flow, Commands
  <2>2. shown' = IF i = Len(cmds) - 1 THEN shown + 1 ELSE shown
    BY CommandFacts DEF Write
  <2> QED
    BY <1>4, <2>1, <2>2, CommandFacts
<1>7. Typing'
  <2>1. pipe' \in [Pipes -> 0 .. Capacity]
    BY <1>3, <1>5, CommandFacts
  <2> QED
    BY <1>1, <1>2, <1>4, <1>6, <2>1 DEF IInv, Typing
<1>8. Position' /\ LeakBudget'
  BY <1>1, <1>3, <1>4, ShellUnaffected
<1>9. Holding'
  BY <1>1, <1>2, <1>4 DEF IInv, Holding
<1>10. Flow'
  <2>1. ASSUME NEW j \in Commands
        PROVE  /\ child'[j].state \in {"unborn", "setup"} => child'[j].read = 0 /\ child'[j].written = 0
               /\ child'[j].read <= Volume
               /\ child'[j].written <= IF Kind(j)' = "source" THEN Volume ELSE child'[j].read
    <3>1. CASE j = i
      BY <1>2, <1>3, <1>4, <3>1 DEF IInv, Flow, ChildType, Pending
    <3>2. CASE j # i
      BY <1>2, <1>4, <3>2 DEF IInv, Flow
    <3> QED
      BY <3>1, <3>2
  <2> QED
    BY <1>1, <1>2, <1>5, <1>6, <2>1 DEF Flow
<1>11. Complete'
  BY <1>1, <1>2, <1>3, <1>4 DEF IInv, Complete
<1> QED
  BY <1>7, <1>8, <1>9, <1>10, <1>11 DEF IInv

(* A command of a chain that ends has read what the one before wrote,      *)
(* which had ended: otherwise it would still hold the write end.           *)
LEMMA FinishComplete ==
    ASSUME IInv, NEW i \in Commands, Finish(i), Chain, pc # "nofork"
    PROVE  child[i].written = Volume
<1>1. /\ child[i].state = "run" /\ ~ Pending(i)
      /\ child[i] \in ChildType
      /\ Kind(i) = "source" \/ Kind(i) = "filter"
      /\ child[i].read <= Volume
      /\ child[i].written <= IF Kind(i) = "source" THEN Volume ELSE child[i].read
  BY CommandFacts DEF Finish, CanFinish, Running, Chain, IInv, Flow
<1>2. Kind(i) = "filter" => child[i].read = Volume
  <2>1. SUFFICES ASSUME Kind(i) = "filter" PROVE child[i].read = Volume
    OBVIOUS
  <2>2. EndOfInput(i)
    BY <2>1 DEF Finish, CanFinish, Wants
  <2>3. CASE ~ FromPipe(i)
    BY <2>2, <2>3 DEF EndOfInput
  <2>4. CASE FromPipe(i)
    <3>1. /\ i - 1 \in Pipes /\ i - 1 \in Commands /\ (i - 1) + 1 = i
          /\ pipe[i - 1] = 0
          /\ ~ Held(W(i - 1))
      BY <2>2, <2>4, CommandFacts DEF EndOfInput
    <3>2. ToPipe(i - 1)
      <4>1. ToPipe(i - 1) = (i - 1 < cmd_count - 1)
        BY <3>1, Zenon DEF Chain
      <4>2. i - 1 < cmd_count - 1
        BY <3>1, CommandFacts DEF Pipes, nPipes
      <4> QED
        BY <4>1, <4>2
    <3>3. child[i - 1].state = "ended"
      <4>1. child[i - 1] \in ChildType /\ W(i - 1) \notin child[i - 1].holds
        BY <3>1, CommandFacts DEF Held
      <4>2. child[i - 1].state # "run"
        BY <3>1, <3>2, <4>1, NeverBroken DEF Running
      <4>3. child[i - 1].state # "setup"
        <5>1. W(i - 1) \in Inherited(i - 1)
          BY <3>1, InheritedEnds, CommandFacts
        <5>2. child[i - 1].state = "setup" => child[i - 1].holds = Inherited(i - 1)
          BY <3>1 DEF IInv, Holding
        <5> QED
          BY <4>1, <5>1, <5>2
      <4>4. child[i - 1].state # "unborn"
        BY <1>1, <3>1, CommandFacts DEF IInv, Typing, Position
      <4> QED
        BY <4>1, <4>2, <4>3, <4>4 DEF ChildType, States
    <3>4. child[i - 1].written = Volume
      BY <3>1, <3>3 DEF IInv, Complete
    <3>5. pipe[i - 1] = child[i - 1].written - child[i].read
      <4>1. pipe[i - 1] = Passed(i - 1) - Taken((i - 1) + 1)
        BY <3>1 DEF IInv, Flow
      <4> QED
        BY <2>4, <3>1, <3>2, <4>1 DEF Passed, Taken
    <3> QED
      BY <1>1, <3>1, <3>4, <3>5, PipelineAssumption DEF ChildType
  <2> QED
    BY <2>3, <2>4
<1> QED
  BY <1>1, <1>2, PipelineAssumption DEF Pending, ChildType

LEMMA FinishStep ==
    ASSUME IInv, NEW i \in Commands, CommandNext(i), Finish(i)
    PROVE  IInv'
<1> USE PipelineAssumption
<1>1. UNCHANGED <<pc, cmds, cmd_ind, ends, leaked, pipelines, opened, version, pipe, shown>>
  BY DEF CommandNext, Finish
<1>2. Commands' = Commands /\ Pipes' = Pipes /\ Ends' = Ends /\ ChildType' = ChildType
      /\ Chain' = Chain
      /\ \A j : /\ Kind(j)' = Kind(j)
                /\ Inherited(j)' = Inherited(j)
                /\ Dropped(j)' = Dropped(j)
                /\ FromPipe(j)' = FromPipe(j)
                /\ ToPipe(j)' = ToPipe(j)
  BY <1>1, SamePipeline
<1>3. child[i].state = "run"
  BY DEF Finish, CanFinish, Running
<1>4. /\ child' \in [Commands -> ChildType]
      /\ \A j \in Commands : j # i => child'[j] = child[j]
      /\ \A j \in Commands : child'[j].read = child[j].read /\ child'[j].written = child[j].written
      /\ child'[i].state = "ended" /\ child'[i].holds = {}
  <2>1. child' = [child EXCEPT ![i] = [@ EXCEPT !.state = "ended", !.holds = {}]]
    BY DEF Finish, Ended
  <2> QED
    BY <2>1, CommandFacts, ChildUpdate DEF States
<1>5. Typing'
  BY <1>1, <1>2, <1>4 DEF IInv, Typing
<1>6. Position' /\ LeakBudget'
  BY <1>1, <1>3, <1>4, ShellUnaffected
<1>7. Holding'
  BY <1>1, <1>2, <1>4 DEF IInv, Holding
<1>8. Flow'
  <2>1. \A j \in Commands : Passed(j)' = Passed(j) /\ Taken(j)' = Taken(j)
    BY <1>2, <1>4 DEF Passed, Taken
  <2>2. \A p \in Pipes : pipe'[p] = Passed(p)' - Taken(p + 1)'
    BY <1>1, <2>1, CommandFacts DEF IInv, Flow
  <2>3. ASSUME NEW j \in Commands
        PROVE  /\ child'[j].state \in {"unborn", "setup"} => child'[j].read = 0 /\ child'[j].written = 0
               /\ child'[j].read <= Volume
               /\ child'[j].written <= IF Kind(j)' = "source" THEN Volume ELSE child'[j].read
    BY <1>2, <1>4 DEF IInv, Flow
  <2>4. Len(cmds') # 0 => shown' = child'[Len(cmds') - 1].written
    BY <1>1, <1>4, CommandFacts DEF IInv, Flow
  <2> QED
    BY <1>2, <2>2, <2>3, <2>4 DEF Flow
<1>9. Complete'
  <2>1. ASSUME Chain, pc # "nofork", NEW j \in Commands, child'[j].state = "ended"
        PROVE  child'[j].written = Volume
    <3>1. CASE j = i
      BY <1>4, <2>1, <3>1, FinishComplete
    <3>2. CASE j # i
      BY <1>4, <2>1, <3>2 DEF IInv, Complete
    <3> QED
      BY <3>1, <3>2
  <2> QED
    BY <1>1, <1>2, <2>1 DEF Complete
<1> QED
  BY <1>5, <1>6, <1>7, <1>8, <1>9 DEF IInv

-------------------------------------------------------------------------------
(* Every step preserves the invariant. *)

LEMMA StutterStep ==
    ASSUME IInv, UNCHANGED vars
    PROVE  IInv'
<1>1. UNCHANGED <<version, pc, cmds, cmd_ind, ends, leaked, child, pipe, shown, pipelines, opened>>
  BY DEF vars
<1>2. Commands' = Commands /\ Pipes' = Pipes /\ Ends' = Ends /\ ChildType' = ChildType
      /\ Chain' = Chain
      /\ \A j : /\ Kind(j)' = Kind(j)
                /\ Inherited(j)' = Inherited(j)
                /\ Dropped(j)' = Dropped(j)
                /\ FromPipe(j)' = FromPipe(j)
                /\ ToPipe(j)' = ToPipe(j)
  BY <1>1, SamePipeline
<1>3. \A j : Passed(j)' = Passed(j) /\ Taken(j)' = Taken(j)
  BY <1>1, <1>2 DEF Passed, Taken
<1>4. Typing' /\ Position' /\ LeakBudget' /\ Complete'
  BY <1>1, <1>2 DEF IInv, Typing, Position, LeakBudget, Complete, nPipes, cmd_count
<1>5. Holding'
  <2>1. ends' = ends /\ pc' = pc /\ Inherited(cmd_ind)' = Inherited(cmd_ind)
    BY <1>1, <1>2 DEF Inherited
  <2> QED
    BY <1>1, <1>2, <2>1 DEF IInv, Holding
<1>6. Flow'
  BY <1>1, <1>2, <1>3 DEF IInv, Flow
<1> QED
  BY <1>4, <1>5, <1>6 DEF IInv

LEMMA TypedCommands ==
    ASSUME NEW n \in Nat, NEW line \in Commandlines(n)
    PROVE  line \in Seq(CommandTypes) /\ Len(line) = n
<1>1. [kind : Kinds, redirects : Redirections] \subseteq CommandTypes
  BY PipelineAssumption DEF CommandTypes
<1>2. line \in [1 .. n -> CommandTypes]
  BY <1>1 DEF Commandlines
<1> QED
  BY <1>2

LEMMA NextInvariant ==
    IInv /\ [Next]_vars => IInv'
<1> SUFFICES ASSUME IInv, [Next]_vars PROVE IInv'
  OBVIOUS
<1>1. ASSUME NEW n \in 2 .. MaxCommands, Typed(n), cmds' \in Commandlines(n), version = "task4"
      PROVE  IInv'
  <2>1. cmds' \in Seq(CommandTypes) /\ Len(cmds') = n /\ n \in Nat
    BY <1>1, PipelineAssumption, TypedCommands
  <2> QED
    BY <1>1, <2>1, TypedStep
<1>2. CASE StartTwo
  <2>1. cmds' \in Seq(CommandTypes) /\ Len(cmds') = 2 /\ Typed(2)
    BY <1>2, TypedCommands DEF StartTwo
  <2> QED
    BY <2>1, TypedStep
<1>3. CASE StartOnce
  <2>1. cmds' \in Seq(CommandTypes) /\ Len(cmds') = 2 /\ Typed(2)
    BY <1>3 DEF StartOnce, CommandTypes
  <2> QED
    BY <2>1, TypedStep
<1>4. CASE ForkCloseWait
  BY <1>4, ForkStep, CloseStep, WaitStep DEF ForkCloseWait
<1>5. ASSUME NEW i \in Commands, CommandNext(i)
      PROVE  IInv'
  BY <1>5, SetupStep, ReadStep, WriteStep, FinishStep DEF CommandNext
<1>6. CASE UNCHANGED vars
  BY <1>6, StutterStep
<1> QED
  BY <1>1, <1>2, <1>3, <1>4, <1>5, <1>6
  DEF Next, ShellNext, handle_pipe_command, handle_two_commands, mypipeline, Start

LEMMA Invariance ==
    Spec => []IInv
<1> QED
  BY InitInvariant, NextInvariant, PTL DEF Spec

-------------------------------------------------------------------------------
(* The theorems. *)

(* The variables of the pipelines keep their types: the shell and its      *)
(* children hold ends of this pipeline's pipes only, and no pipe holds     *)
(* more than it can (task4.c:70-118).                                      *)
THEOREM TypeCorrect ==
    Spec => []TypeOK
<1>1. IInv => TypeOK
  <2>1. SUFFICES ASSUME IInv PROVE TypeOK
    OBVIOUS
  <2>2. ASSUME NEW i \in DOMAIN child
        PROVE  /\ child[i].state \in {"unborn", "setup", "run", "ended"}
               /\ child[i].holds \subseteq Pipes \X {"read", "write"}
               /\ child[i].written <= Volume
    <3>1. i \in Commands /\ child[i] \in ChildType
      BY <2>1, <2>2 DEF IInv, Typing
    <3>2. child[i].read <= Volume /\ child[i].written <= IF Kind(i) = "source" THEN Volume ELSE child[i].read
      BY <2>1, <3>1 DEF IInv, Flow
    <3> QED
      BY <3>1, <3>2, PipelineAssumption DEF ChildType, States, Ends
  <2>3. shown \in 0 .. Volume
    <3>1. CASE Len(cmds) = 0
      BY <2>1, <3>1, PipelineAssumption DEF IInv, Position
    <3>2. CASE Len(cmds) # 0
      <4>1. Len(cmds) - 1 \in Commands
        BY <2>1, <3>2 DEF IInv, Typing, Commands, cmd_count
      <4>2. shown = child[Len(cmds) - 1].written /\ shown \in Nat
        BY <2>1, <3>2 DEF IInv, Typing, Flow
      <4> QED
        BY <2>1, <2>2, <4>1, <4>2, PipelineAssumption DEF IInv, Typing
    <3> QED
      BY <3>1, <3>2
  <2> QED
    BY <2>1, <2>2, <2>3 DEF TypeOK, IInv, Typing, Ends
<1> QED
  BY <1>1, Invariance, PTL

(* What the pipelines before cost, for any number of them and any limit of *)
(* descriptors: the final shell keeps two of every pipe it ever asked for  *)
(* and dies of it, the earlier programs never do (pipes.c:9-19 and 62-75,  *)
(* task4.c:108-111, task3.c:219-245).                                      *)
THEOREM LeaksCounted ==
    Spec => []LeakBudget
<1> QED
  BY Invariance, PTL DEF IInv

(* When the shell prompts again, everything a chain was fed has come out   *)
(* of its last command, however long the chain is (task4.c:90-117).        *)
THEOREM OutputAwaited ==
    Spec => []NothingLost
<1>1. IInv => NothingLost
  <2>1. SUFFICES ASSUME IInv, pc = "prompt", cmds # << >>, Chain
                 PROVE  shown = Volume
    BY DEF NothingLost
  <2>2. Len(cmds) # 0 /\ Len(cmds) - 1 \in Commands
    BY <2>1 DEF IInv, Typing, Commands, cmd_count
  <2>3. child[Len(cmds) - 1].state = "ended"
    BY <2>1, <2>2 DEF IInv, Position
  <2> QED
    BY <2>1, <2>2, <2>3 DEF IInv, Complete, Flow
<1> QED
  BY <1>1, Invariance, PTL

(* No command of the shell's pipelines is ever killed by SIGPIPE: whoever  *)
(* writes to a pipe has inherited its read end too (task4.c:79-104).       *)
THEOREM NeverKilledBySigpipe ==
    Spec => [](\A i \in Commands : Running(i) => ~ Broken(i))
<1>1. IInv => \A i \in Commands : Running(i) => ~ Broken(i)
  BY NeverBroken
<1> QED
  BY <1>1, Invariance, PTL

(* The one way a pipeline of any length hangs the shell: some writer has   *)
(* filled its pipe, whose reader has ended or reads from a file, and no    *)
(* SIGPIPE comes because the writer itself holds the read end              *)
(* (task4.c:83-111).  The first command that still runs is not waiting for *)
(* its input, for nobody before it holds the write end; so some command is *)
(* waiting to write, and of the last of these the reader cannot be waiting *)
(* for anything.                                                           *)
THEOREM HangExplained ==
    Spec => []HangCause
<1>1. ASSUME IInv, NothingRuns
      PROVE  \E i \in Commands :
                 /\ Running(i)
                 /\ Pending(i)
                 /\ ToPipe(i)
                 /\ pipe[i] = Capacity
                 /\ child[i + 1].state = "ended" \/ ~ FromPipe(i + 1)
                 /\ R(i) \in child[i].holds
  <2> USE <1>1, PipelineAssumption
  <2>1. pc = "wait" /\ ends = {} /\ cmd_ind \in Commands /\ child[cmd_ind].state # "ended"
    BY DEF NothingRuns, IInv, Typing, Position, Holding, Commands, cmd_count
  <2>2. ASSUME NEW i \in Commands
        PROVE  child[i].state \in {"run", "ended"} /\ child[i] \in ChildType /\ i \in Int
    <3>1. child[i] \in ChildType /\ i \in Int
      BY CommandFacts
    <3> QED
      BY <2>1, <3>1 DEF NothingRuns, IInv, Position, ChildType, States
  <2>3. ASSUME NEW i \in Commands, Running(i), Pending(i)
        PROVE  ToPipe(i) /\ pipe[i] = Capacity
    <3>1. ToPipe(i) /\ ~ (pipe[i] < Capacity)
      BY <2>3 DEF NothingRuns, CanWrite
    <3> QED
      BY <3>1, CommandFacts
  <2>4. ASSUME NEW i \in Commands, Running(i), ~ Pending(i)
        PROVE  FromPipe(i) /\ pipe[i - 1] = 0 /\ \E j \in Commands : j < i /\ Running(j)
    <3>1. Wants(i) /\ ~ EndOfInput(i) /\ ~ CanRead(i)
      BY <2>4 DEF NothingRuns, CanFinish
    <3>2. FromPipe(i)
      <4>1. SUFFICES ASSUME ~ FromPipe(i) PROVE FALSE
        OBVIOUS
      <4>2. child[i].read # Volume /\ ~ (child[i].read < Volume)
        BY <2>4, <3>1, <4>1 DEF EndOfInput, CanRead
      <4> QED
        BY <2>2, <4>2 DEF IInv, Flow, ChildType
    <3>3. i - 1 \in Pipes /\ pipe[i - 1] = 0
      <4>1. i - 1 \in Pipes /\ ~ (pipe[i - 1] > 0)
        BY <2>4, <3>1, <3>2, CommandFacts DEF CanRead
      <4> QED
        BY <4>1, CommandFacts
    <3>4. Held(W(i - 1))
      BY <3>1, <3>2, <3>3 DEF EndOfInput
    <3>5. PICK j \in Commands : W(i - 1) \in child[j].holds
      BY <2>1, <3>4 DEF Held
    <3>6. Running(j) /\ child[j].holds = Inherited(j) \ Dropped(j)
      <4>1. child[j].state = "ended" => child[j].holds = {}
        BY DEF IInv, Holding
      <4>2. child[j].state = "run"
        BY <2>2, <3>5, <4>1
      <4> QED
        BY <4>2 DEF IInv, Holding, Running
    <3>7. i - 1 >= j
      BY <2>2, <3>3, <3>5, <3>6, InheritedEnds, CommandFacts
    <3> QED
      BY <2>2, <3>2, <3>3, <3>6, <3>7
  <2> DEFINE Runners == {i \in Commands : Running(i)}
             Writers == {i \in Commands : Running(i) /\ Pending(i)}
  <2>5. cmd_count \in Nat /\ Commands = 0 .. cmd_count - 1
    BY CommandFacts, <2>1 DEF Commands
  <2>6. Writers # {}
    <3>1. Runners \in SUBSET Nat /\ cmd_ind \in Runners
      BY <2>1, <2>2, <2>5 DEF Running
    <3>2. PICK m \in Runners : \A j \in Runners : m <= j
      <4> HIDE DEF Runners
      <4> QED
        BY <3>1, LeastElement
    <3>3. \A j \in Commands : j < m => ~ Running(j)
      BY <2>2, <3>1, <3>2
    <3> QED
      BY <2>4, <3>2, <3>3
  <2>7. PICK i \in Writers : \A j \in Writers : j <= i
    <3>1. Writers \in SUBSET (0 .. cmd_count - 1) /\ cmd_count - 1 \in Int
      BY <2>5
    <3> HIDE DEF Writers
    <3> QED
      BY <2>6, <3>1, GreatestElement
  <2>8. i \in Commands /\ Running(i) /\ Pending(i) /\ ToPipe(i) /\ pipe[i] = Capacity
    BY <2>3, <2>7
  <2>9. i \in Pipes /\ i + 1 \in Commands /\ (i + 1) - 1 = i
    BY <2>8, CommandFacts
  <2>10. child[i + 1].state = "ended" \/ ~ FromPipe(i + 1)
    <3>1. SUFFICES ASSUME Running(i + 1) PROVE ~ FromPipe(i + 1)
      BY <2>2, <2>9 DEF Running
    <3>2. ~ Pending(i + 1)
      BY <2>2, <2>7, <2>8, <2>9, <3>1
    <3>3. pipe[i] = 0
      BY <2>4, <2>9, <3>1, <3>2
    <3> QED
      BY <2>8, <3>3
  <2>11. R(i) \in child[i].holds
    BY <2>8, <2>9, NeverBroken
  <2> QED
    BY <2>8, <2>10, <2>11
<1>2. IInv => HangCause
  BY <1>1 DEF HangCause
<1> QED
  BY <1>2, Invariance, PTL

===============================================================================
