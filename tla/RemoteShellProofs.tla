-------------------------- MODULE RemoteShellProofs ---------------------------
(***************************************************************************)
(* What the runs of RemoteShell check for one and two clients, proved for  *)
(* any number of them, of directories, programs and lines typed.           *)
(*                                                                         *)
(* The invariants stand on one another: TypeInv, with which shell a client *)
(* is in wherever its threads are; RowsInv, one row or one login on its    *)
(* way; and PathInv, that the inbox of whoever has asked for the path      *)
(* holds pairs of consecutive commands, up to the last one while the       *)
(* server serves, with half a pair at the end perhaps if it stopped.       *)
(* ExchangeInv is about everybody who is not a member: one request on its  *)
(* way, or what fits the last one.  MemberInv, that whoever waits for an   *)
(* event will be woken, needs all of them: a client logs in only when      *)
(* nothing it has asked for before is still to come.                       *)
(***************************************************************************)
EXTENDS RemoteShell, CountLemmas, SequenceTheorems, TLAPS

(* The values of the variables. *)

Paths == Seq(STRING)

SharedCmds == [op : {"cd", "run"}, arg : Names \cup Programs]

Cmds == {None} \cup Programs \cup SharedCmds

RequestTypes == {"login", "logout", "valid", "run", "copy", "path", "shared"}

Requests ==
    {r \in [type : RequestTypes, from : Clients, path : Paths, cmd : Cmds] :
        r.type = "shared" => r.cmd \in SharedCmds}

Texts ==
    [kind : {"status"}, ok : BOOLEAN] \cup
    [kind : {"path"}, path : Paths, nth : Nat] \cup
    [kind : {"header"}, path : Paths, nth : Nat, cmd : Cmds, by : Clients] \cup
    [kind : {"output"}, what : Outputs] \cup
    [kind : {"chunk"}]

ShownTexts == Texts \cup [kind : {"local", "word"}]

Mains == Waits \cup {"top", "input", "event_wait", "exited", "crashed"}

Receivers == {"none", "first", "second", "shown", "dead", "undecoded"}

ClientType ==
    [server : Bases \cup {None}, is_shared_shell : BOOLEAN, is_client_shell : BOOLEAN,
     send_shared_cmd : BOOLEAN, display_path : ShownTexts, event : BOOLEAN,
     main : Mains, receiver : Receivers, timed : BOOLEAN, wanted : Paths,
     held : Texts \cup {None}, mine : BOOLEAN, mounted : {None, "private", "shared"},
     clean : BOOLEAN, refused : BOOLEAN, inputs : Nat]

ServerTyping ==
    /\ packet_queue \in Seq(Requests)
    /\ inbox \in [Clients -> Seq(Texts)]
    /\ users \in [Clients -> Nat]
    /\ cwd \in Dirs
    /\ serving \in BOOLEAN
    /\ sending \in {None} \cup [to : Clients, left : Nat \ {0}]
    /\ executed \in Nat
    /\ faults \in Seq(Faults \ {"database"})

(* Which shell a client is in, what its main thread may wait for there, and *)
(* what it has to know.                                                    *)
Mode(c) ==
    /\ client[c].receiver # "none" <=> AtShared(c)
    /\ client[c].main = "mount_reply" => AtClient(c) /\ client[c].server \in Bases
    /\ client[c].main \in {"login_reply", "path_reply"} => AtClient(c) /\ client[c].is_shared_shell
    /\ client[c].main \in {"cd_reply", "run_reply", "cp_reply", "first_chunk", "next_chunk"} => AtPrivate(c)
    /\ client[c].main = "event_wait" => AtShared(c)
    /\ client[c].clean => AtShared(c)
    /\ client[c].receiver \in {"second", "shown"} => client[c].held \in Texts

(* A private shell shows a directory at or below the mounted one, and asks *)
(* for such directories only, by their normal paths.                       *)
Below(c) ==
    /\ AtPrivate(c) => /\ client[c].server \in Bases
                       /\ client[c].display_path \in [kind : {"path"}, path : Paths, nth : Nat]
                       /\ IsPrefix(client[c].server, client[c].display_path.path)
                       /\ Normal(client[c].display_path.path)
    /\ client[c].main = "cd_reply" => IsPrefix(client[c].server, client[c].wanted) /\ Normal(client[c].wanted)

ClientTyping ==
    /\ client \in [Clients -> ClientType]
    /\ \A c \in Clients : Mode(c) /\ Below(c)

TypeInv == ServerTyping /\ ClientTyping


-------------------------------------------------------------------------------
(* The values, step by step. *)

LEMMA BecomesTyped ==
    ASSUME client \in [Clients -> ClientType], NEW c \in Clients, NEW r \in ClientType, Becomes(c, r)
    PROVE  /\ client' \in [Clients -> ClientType]
           /\ client'[c] = r
           /\ \A d \in Clients : d # c => client'[d] = client[d]
  BY DEF Becomes

(* What a client is in does not depend on the others.                      *)
LEMMA OwnStep ==
    ASSUME TypeInv, NEW c \in Clients, NEW r \in ClientType, Becomes(c, r),
           client'[c] = r => Mode(c)' /\ Below(c)'
    PROVE  ClientTyping'
<1>1. /\ client' \in [Clients -> ClientType]
      /\ client'[c] = r
      /\ \A d \in Clients : d # c => client'[d] = client[d]
  BY BecomesTyped DEF TypeInv, ClientTyping
<1>2. ASSUME NEW d \in Clients, d # c
      PROVE  Mode(d)' /\ Below(d)'
  <2>1. client'[d] = client[d] /\ Mode(d) /\ Below(d)
    BY <1>1, <1>2 DEF TypeInv, ClientTyping
  <2> QED
    BY <2>1 DEF Mode, Below, AtClient, AtShared, AtPrivate
<1> QED
  BY <1>1, <1>2 DEF ClientTyping

LEMMA ReceivedText ==
    ASSUME TypeInv, NEW c \in Clients, inbox[c] # << >>
    PROVE  Received(c) \in Texts
  BY DEF TypeInv, ServerTyping, Received

(* One line more has been typed, and the main thread has moved on.         *)
LEMMA ThenTyped ==
    ASSUME NEW c, client[c] \in ClientType, NEW m \in Mains
    PROVE  Then(c, m) \in ClientType
<1> DEFINE n == client[c].inputs + 1
<1>1. n \in Nat
  BY DEF ClientType
<1> HIDE DEF n
<1>2. [client[c] EXCEPT !.main = m, !.inputs = n] \in ClientType
  BY <1>1 DEF ClientType
<1> QED
  BY <1>2 DEF Then, n

(* The main thread keeps its client's fields what they are, action by      *)
(* action.                                                                 *)
LEMMA MainTyped ==
    ASSUME TypeInv, NEW c \in Clients,
           \/ Top(c) \/ Exit(c) \/ MountShared(c) \/ MountPrivate(c) \/ MountReply(c)
           \/ LocalCd(c) \/ LocalRun(c) \/ Join(c) \/ LoginReply(c) \/ RemoteRun(c) \/ RunReply(c)
           \/ RemoteCp(c) \/ CpReply(c) \/ CpChunk(c) \/ CpTimeout(c) \/ MainTimeout(c)
           \/ DecodeError(c) \/ SharedCmd(c) \/ EventWait(c)
    PROVE  ClientTyping'
<1>1. client[c] \in ClientType /\ Mode(c) /\ Below(c)
  BY DEF TypeInv, ClientTyping
<1>3. CASE Top(c)
  <2> DEFINE r == [client[c] EXCEPT !.event = FALSE, !.main = "input"]
  <2>1. Becomes(c, r)
    BY <1>3 DEF Top
  <2>2. r \in ClientType
    BY <1>1 DEF ClientType, Mains, Waits
  <2>3. ASSUME client'[c] = r PROVE Mode(c)' /\ Below(c)'
    BY <1>1, <1>3, <2>3 DEF Top, ClientType, Mode, Below, AtClient, AtShared, AtPrivate
  <2> QED
    BY <2>1, <2>2, <2>3, OwnStep
<1>4. CASE Exit(c)
  <2> DEFINE r == Then(c, "exited")
             q == Then(c, "crashed")
  <2>1. Becomes(c, r) \/ Becomes(c, q)
    BY <1>4 DEF Exit
  <2>2. r \in ClientType /\ q \in ClientType
    BY <1>1, ThenTyped DEF Mains, Waits
  <2>3. ASSUME client'[c] = r \/ client'[c] = q PROVE Mode(c)' /\ Below(c)'
    BY <1>1, <1>4, <2>3 DEF Exit, Typed, ClientType, Mode, Below, AtClient, AtShared, AtPrivate, Then
  <2> QED
    BY <2>1, <2>2, <2>3, OwnStep
<1>5. CASE MountShared(c)
  <2>1. PICK b \in Bases : Becomes(c, [Then(c, "top") EXCEPT !.server = b, !.is_shared_shell = TRUE, !.mounted = "shared"])
    BY <1>5 DEF MountShared
  <2> DEFINE r == [Then(c, "top") EXCEPT !.server = b, !.is_shared_shell = TRUE, !.mounted = "shared"]
  <2>4. Then(c, "top") \in ClientType
    BY <1>1, ThenTyped DEF Mains, Waits
  <2>2. r \in ClientType
    BY <2>4 DEF ClientType, ShownTexts, Local
  <2>3. ASSUME client'[c] = r PROVE Mode(c)' /\ Below(c)'
    BY <1>1, <1>5, <2>3 DEF MountShared, Typed, ClientType, Mode, Below, AtClient, AtShared, AtPrivate, Then
  <2> QED
    BY <2>1, <2>2, <2>3, OwnStep
<1>6. CASE MountPrivate(c)
  <2>1. PICK b \in Bases : Becomes(c, [Then(c, "mount_reply") EXCEPT !.server = b])
    BY <1>6 DEF MountPrivate
  <2> DEFINE r == [Then(c, "mount_reply") EXCEPT !.server = b]
  <2>4. Then(c, "mount_reply") \in ClientType
    BY <1>1, ThenTyped DEF Mains, Waits
  <2>2. r \in ClientType
    BY <2>4 DEF ClientType, ShownTexts, Local
  <2>3. ASSUME client'[c] = r PROVE Mode(c)' /\ Below(c)'
    BY <1>1, <1>6, <2>3 DEF MountPrivate, Typed, ClientType, Mode, Below, AtClient, AtShared, AtPrivate, Then
  <2> QED
    BY <2>1, <2>2, <2>3, OwnStep
<1>7. CASE MountReply(c)
  <2> DEFINE r == [client[c] EXCEPT !.main = "top", !.mounted = "private"]
             q == [client[c] EXCEPT !.main = "top", !.server = None]
  <2>1. Becomes(c, r) \/ Becomes(c, q)
    BY <1>7 DEF MountReply
  <2>2. r \in ClientType /\ q \in ClientType
    BY <1>1 DEF ClientType, Mains, Waits
  <2>3. ASSUME client'[c] = r \/ client'[c] = q PROVE Mode(c)' /\ Below(c)'
    BY <1>1, <1>7, <2>3 DEF MountReply, ClientType, Mode, Below, AtClient, AtShared, AtPrivate
  <2> QED
    BY <2>1, <2>2, <2>3, OwnStep
<1>8. CASE LocalCd(c)
  <2> DEFINE r == [Then(c, "top") EXCEPT !.display_path = Local]
  <2>1. Becomes(c, r)
    BY <1>8 DEF LocalCd
  <2>4. Then(c, "top") \in ClientType
    BY <1>1, ThenTyped DEF Mains, Waits
  <2>2. r \in ClientType
    BY <2>4 DEF ClientType, ShownTexts, Local
  <2>3. ASSUME client'[c] = r PROVE Mode(c)' /\ Below(c)'
    BY <1>1, <1>8, <2>3 DEF LocalCd, Typed, ClientType, Mode, Below, AtClient, AtShared, AtPrivate, Then
  <2> QED
    BY <2>1, <2>2, <2>3, OwnStep
<1>9. CASE LocalRun(c)
  <2> DEFINE r == Then(c, "top")
             q == Then(c, "crashed")
  <2>1. Becomes(c, r) \/ Becomes(c, q)
    BY <1>9 DEF LocalRun
  <2>2. r \in ClientType /\ q \in ClientType
    BY <1>1, ThenTyped DEF Mains, Waits
  <2>3. ASSUME client'[c] = r \/ client'[c] = q PROVE Mode(c)' /\ Below(c)'
    BY <1>1, <1>9, <2>3 DEF LocalRun, Typed, ClientType, Mode, Below, AtClient, AtShared, AtPrivate, Then
  <2> QED
    BY <2>1, <2>2, <2>3, OwnStep
<1>10. CASE Join(c)
  <2> DEFINE r == Then(c, "login_reply")
  <2>1. Becomes(c, r)
    BY <1>10 DEF Join
  <2>2. r \in ClientType
    BY <1>1, ThenTyped DEF Mains, Waits
  <2>3. ASSUME client'[c] = r PROVE Mode(c)' /\ Below(c)'
    BY <1>1, <1>10, <2>3 DEF Join, Typed, ClientType, Mode, Below, AtClient, AtShared, AtPrivate, Then
  <2> QED
    BY <2>1, <2>2, <2>3, OwnStep
<1>11. CASE LoginReply(c)
  <2> DEFINE no == ~ IsYes(Received(c))
             r == [client[c] EXCEPT !.main = "path_reply", !.refused = no]
  <2>1. Becomes(c, r)
    BY <1>11 DEF LoginReply
  <2>4. no \in BOOLEAN
    OBVIOUS
  <2> HIDE DEF no
  <2>2. r \in ClientType
    BY <1>1, <2>4 DEF ClientType, Mains, Waits
  <2>3. ASSUME client'[c] = r PROVE Mode(c)' /\ Below(c)'
    BY <1>1, <1>11, <2>3 DEF LoginReply, ClientType, Mode, Below, AtClient, AtShared, AtPrivate
  <2> QED
    BY <2>1, <2>2, <2>3, OwnStep
<1>12. CASE RemoteRun(c)
  <2> DEFINE r == Then(c, "run_reply")
  <2>1. Becomes(c, r)
    BY <1>12 DEF RemoteRun
  <2>2. r \in ClientType
    BY <1>1, ThenTyped DEF Mains, Waits
  <2>3. ASSUME client'[c] = r PROVE Mode(c)' /\ Below(c)'
    BY <1>1, <1>12, <2>3 DEF RemoteRun, Typed, ClientType, Mode, Below, AtClient, AtShared, AtPrivate, Then
  <2> QED
    BY <2>1, <2>2, <2>3, OwnStep
<1>13. CASE RemoteCp(c)
  <2> DEFINE r == Then(c, "cp_reply")
  <2>1. Becomes(c, r)
    BY <1>13 DEF RemoteCp
  <2>2. r \in ClientType
    BY <1>1, ThenTyped DEF Mains, Waits
  <2>3. ASSUME client'[c] = r PROVE Mode(c)' /\ Below(c)'
    BY <1>1, <1>13, <2>3 DEF RemoteCp, Typed, ClientType, Mode, Below, AtClient, AtShared, AtPrivate, Then
  <2> QED
    BY <2>1, <2>2, <2>3, OwnStep
<1>14. CASE RunReply(c)
  <2> DEFINE r == [client[c] EXCEPT !.main = "top"]
  <2>1. Becomes(c, r)
    BY <1>14 DEF RunReply
  <2>2. r \in ClientType
    BY <1>1 DEF ClientType, Mains, Waits
  <2>3. ASSUME client'[c] = r PROVE Mode(c)' /\ Below(c)'
    BY <1>1, <1>14, <2>3 DEF RunReply, ClientType, Mode, Below, AtClient, AtShared, AtPrivate
  <2> QED
    BY <2>1, <2>2, <2>3, OwnStep
<1>15. CASE CpReply(c)
  <2> DEFINE r == [client[c] EXCEPT !.main = "first_chunk"]
             q == [client[c] EXCEPT !.main = "top"]
  <2>1. Becomes(c, r) \/ Becomes(c, q)
    BY <1>15 DEF CpReply
  <2>2. r \in ClientType /\ q \in ClientType
    BY <1>1 DEF ClientType, Mains, Waits
  <2>3. ASSUME client'[c] = r \/ client'[c] = q PROVE Mode(c)' /\ Below(c)'
    BY <1>1, <1>15, <2>3 DEF CpReply, ClientType, Mode, Below, AtClient, AtShared, AtPrivate
  <2> QED
    BY <2>1, <2>2, <2>3, OwnStep
<1>16. CASE CpChunk(c)
  <2> DEFINE r == [client[c] EXCEPT !.main = "next_chunk", !.timed = TRUE]
             q == [client[c] EXCEPT !.main = "top"]
  <2>1. Becomes(c, r) \/ Becomes(c, q)
    BY <1>16 DEF CpChunk
  <2>2. r \in ClientType /\ q \in ClientType
    BY <1>1 DEF ClientType, Mains, Waits
  <2>3. ASSUME client'[c] = r \/ client'[c] = q PROVE Mode(c)' /\ Below(c)'
    BY <1>1, <1>16, <2>3 DEF CpChunk, ClientType, Mode, Below, AtClient, AtShared, AtPrivate
  <2> QED
    BY <2>1, <2>2, <2>3, OwnStep
<1>17. CASE CpTimeout(c)
  <2> DEFINE r == [client[c] EXCEPT !.main = "top"]
  <2>1. Becomes(c, r)
    BY <1>17 DEF CpTimeout
  <2>2. r \in ClientType
    BY <1>1 DEF ClientType, Mains, Waits
  <2>3. ASSUME client'[c] = r PROVE Mode(c)' /\ Below(c)'
    BY <1>1, <1>17, <2>3 DEF CpTimeout, ClientType, Mode, Below, AtClient, AtShared, AtPrivate
  <2> QED
    BY <2>1, <2>2, <2>3, OwnStep
<1>18. CASE MainTimeout(c)
  <2> DEFINE r == [client[c] EXCEPT !.main = "crashed"]
  <2>1. Becomes(c, r)
    BY <1>18 DEF MainTimeout
  <2>2. r \in ClientType
    BY <1>1 DEF ClientType, Mains, Waits
  <2>3. ASSUME client'[c] = r PROVE Mode(c)' /\ Below(c)'
    BY <1>1, <1>18, <2>3 DEF MainTimeout, ClientType, Mode, Below, AtClient, AtShared, AtPrivate
  <2> QED
    BY <2>1, <2>2, <2>3, OwnStep
<1>21. CASE DecodeError(c)
  <2> DEFINE r == [client[c] EXCEPT !.main = "crashed"]
  <2>1. Becomes(c, r)
    BY <1>21 DEF DecodeError
  <2>2. r \in ClientType
    BY <1>1 DEF ClientType, Mains, Waits
  <2>3. ASSUME client'[c] = r PROVE Mode(c)' /\ Below(c)'
    BY <1>1, <1>21, <2>3 DEF DecodeError, ClientType, Mode, Below, AtClient, AtShared, AtPrivate
  <2> QED
    BY <2>1, <2>2, <2>3, OwnStep
<1>19. CASE SharedCmd(c)
  <2> DEFINE r == [Then(c, "event_wait") EXCEPT !.send_shared_cmd = TRUE]
  <2>1. Becomes(c, r)
    BY <1>19 DEF SharedCmd
  <2>4. Then(c, "event_wait") \in ClientType
    BY <1>1, ThenTyped DEF Mains, Waits
  <2>2. r \in ClientType
    BY <2>4 DEF ClientType, ShownTexts, Local
  <2>3. ASSUME client'[c] = r PROVE Mode(c)' /\ Below(c)'
    BY <1>1, <1>19, <2>3 DEF SharedCmd, Typed, ClientType, Mode, Below, AtClient, AtShared, AtPrivate, Then
  <2> QED
    BY <2>1, <2>2, <2>3, OwnStep
<1>20. CASE EventWait(c)
  <2> DEFINE r == [client[c] EXCEPT !.main = "top"]
  <2>1. Becomes(c, r)
    BY <1>20 DEF EventWait
  <2>2. r \in ClientType
    BY <1>1 DEF ClientType, Mains, Waits
  <2>3. ASSUME client'[c] = r PROVE Mode(c)' /\ Below(c)'
    BY <1>1, <1>20, <2>3 DEF EventWait, ClientType, Mode, Below, AtClient, AtShared, AtPrivate
  <2> QED
    BY <2>1, <2>2, <2>3, OwnStep
<1> QED
  BY <1>3, <1>4, <1>5, <1>6, <1>7, <1>8, <1>9, <1>10, <1>11, <1>12, <1>13, <1>14, <1>15, <1>16, <1>17, <1>18, <1>19, <1>20, <1>21

(* The same for the actions that write what is shown: a path that is       *)
(* walked to is one, and what is received is shown only in a shared shell.  *)
LEMMA WalkTyped ==
    ASSUME NEW p \in Paths, NEW name \in STRING
    PROVE  Walk(p, name) \in Paths
<1>1. CASE name # ".." \/ p = << >> \/ Last(p) = ".."
  BY <1>1, AppendProperties DEF Walk, Paths
<1>2. CASE ~ (name # ".." \/ p = << >> \/ Last(p) = "..")
  <2>1. Len(p) \in Nat \ {0}
    BY <1>2 DEF Paths
  <2>2. SubSeq(p, 1, Len(p) - 1) \in Seq(STRING)
    BY <2>1, SubSeqProperties DEF Paths
  <2> QED
    BY <1>2, <2>2 DEF Walk, Paths, Front
<1> QED
  BY <1>1, <1>2

(* It is normal if the path was.                                           *)
LEMMA WalkNormal ==
    ASSUME NEW p, Normal(p), NEW name \in STRING
    PROVE  Normal(Walk(p, name))
<1> DEFINE q == Walk(p, name)
<1>1. p \in Seq(STRING) /\ Len(p) \in Nat /\ \A i \in 2 .. Len(p) : p[i] = ".." => p[i - 1] = ".."
  BY DEF Normal
<1>2. q \in Seq(STRING)
  BY <1>1, WalkTyped DEF Paths
<1>3. CASE name # ".." \/ p = << >> \/ Last(p) = ".."
  <2>1. Len(q) = Len(p) + 1 /\ q[Len(p) + 1] = name /\ \A i \in 1 .. Len(p) : q[i] = p[i]
    BY <1>1, <1>3, AppendProperties DEF Walk
  <2> HIDE DEF q
  <2>2. ASSUME NEW i \in 2 .. Len(q), q[i] = ".."
        PROVE  q[i - 1] = ".."
    <3>1. CASE i = Len(p) + 1
      <4>1. name = ".." /\ p # << >>
        BY <1>1, <2>1, <2>2, <3>1
      <4> QED
        BY <1>1, <1>3, <2>1, <2>2, <3>1, <4>1 DEF Last
    <3>2. CASE i # Len(p) + 1
      BY <1>1, <2>1, <2>2, <3>2
    <3> QED
      BY <3>1, <3>2
  <2> QED
    BY <1>2, <2>2 DEF Normal, q
<1>4. CASE ~ (name # ".." \/ p = << >> \/ Last(p) = "..")
  <2>1. q = SubSeq(p, 1, Len(p) - 1) /\ p # << >>
    BY <1>4 DEF Walk, Front
  <2>2. Len(p) - 1 \in Nat
    BY <1>1, <2>1
  <2> DEFINE n == Len(p) - 1
  <2>4. \A i \in 1 .. n : p[i] \in STRING
    BY <1>1, <2>2
  <2>7. n \in Nat
    BY <2>2
  <2> HIDE DEF n
  <2>8. /\ SubSeq(p, 1, n) \in Seq(STRING)
        /\ Len(SubSeq(p, 1, n)) = IF 1 <= n THEN n - 1 + 1 ELSE 0
        /\ \A i \in 1 .. n - 1 + 1 : SubSeq(p, 1, n)[i] = p[1 + i - 1]
    BY <2>4, <2>7, SubSeqProperties
  <2>5. Len(SubSeq(p, 1, n)) = n /\ \A i \in 1 .. n : SubSeq(p, 1, n)[i] = p[i]
    BY <2>7, <2>8
  <2>6. Len(q) = n /\ \A i \in 1 .. n : q[i] = p[i]
    BY <2>1, <2>2, <2>5 DEF n
  <2>3. Len(q) = Len(p) - 1 /\ \A i \in 1 .. Len(p) - 1 : q[i] = p[i]
    BY <2>6 DEF n
  <2> HIDE DEF q
  <2> QED
    BY <1>1, <1>2, <2>2, <2>3 DEF Normal, q
<1> QED
  BY <1>3, <1>4

(* Below a directory that ends in a name a normal path has names only: the *)
(* first ".." behind it would follow a name.                               *)
LEMMA NormalBelow ==
    ASSUME NEW base, Normal(base), NEW path, Normal(path), IsPrefix(base, path),
           base # << >>, Last(base) # ".."
    PROVE  \A i \in Len(base) + 1 .. Len(path) : path[i] # ".."
<1> DEFINE S == {i \in Len(base) + 1 .. Len(path) : path[i] = ".."}
<1>1. /\ base \in Seq(STRING) /\ Len(base) \in Nat \ {0} /\ path \in Seq(STRING) /\ Len(path) \in Nat
      /\ \A i \in 2 .. Len(path) : path[i] = ".." => path[i - 1] = ".."
  BY DEF Normal
<1>2. path[Len(base)] = base[Len(base)]
  <2>1. Len(base) <= Len(path) /\ SubSeq(base, 1, Len(base)) = SubSeq(path, 1, Len(base))
    BY DEF IsPrefix
  <2>2. SubSeq(base, 1, Len(base))[Len(base)] = base[1 + Len(base) - 1]
    BY <1>1, SubSeqProperties
  <2>3. SubSeq(path, 1, Len(base))[Len(base)] = path[1 + Len(base) - 1]
    BY <1>1, <2>1, SubSeqProperties
  <2>4. 1 + Len(base) - 1 = Len(base)
    BY <1>1
  <2> QED
    BY <2>1, <2>2, <2>3, <2>4
<1>3. SUFFICES ASSUME S # {} PROVE FALSE
  OBVIOUS
<1>4. S \in SUBSET Nat
  BY <1>1
<1>5. PICK i \in S : \A j \in S : i <= j
  BY <1>3, <1>4, LeastElement
<1>6. i \in Len(base) + 1 .. Len(path) /\ path[i - 1] = ".."
  BY <1>1, <1>5
<1>7. CASE i = Len(base) + 1
  BY <1>1, <1>2, <1>6, <1>7 DEF Last
<1>8. CASE i # Len(base) + 1
  <2>1. i - 1 \in S /\ i - 1 < i
    BY <1>1, <1>6, <1>8
  <2> QED
    BY <1>1, <1>5, <1>6, <2>1
<1> QED
  BY <1>7, <1>8

LEMMA PathReplyTyped ==
    ASSUME TypeInv, NEW c \in Clients, PathReply(c)
    PROVE  ClientTyping'
<1> DEFINE t == Received(c)
           r == [client[c] EXCEPT !.display_path = t, !.clean = (t.kind = "path"),
                                  !.is_client_shell = FALSE, !.receiver = "first", !.main = "top"]
<1>1. client[c] \in ClientType /\ Mode(c) /\ Below(c)
  BY DEF TypeInv, ClientTyping
<1>2. Becomes(c, r)
  BY DEF PathReply
<1>3. t \in Texts
  BY ReceivedText DEF PathReply, Receive
<1> HIDE DEF t
<1>4. r \in ClientType
  BY <1>1, <1>3 DEF ClientType, ShownTexts, Mains, Receivers
<1>5. ASSUME client'[c] = r PROVE Mode(c)' /\ Below(c)'
  BY <1>1, <1>5 DEF PathReply, ClientType, Mode, Below, AtClient, AtShared, AtPrivate
<1> QED
  BY <1>2, <1>4, <1>5, OwnStep

LEMMA EnterPrivateTyped ==
    ASSUME TypeInv, NEW c \in Clients, EnterPrivate(c)
    PROVE  ClientTyping'
<1> DEFINE p == PathText(client[c].server, 0)
           r == [Then(c, "top") EXCEPT !.is_client_shell = FALSE, !.display_path = p]
<1>1. client[c] \in ClientType /\ Mode(c) /\ Below(c)
  BY DEF TypeInv, ClientTyping
<1>2. Becomes(c, r)
  BY DEF EnterPrivate
<1>3. client[c].server \in Paths
  BY ClientAssumption DEF EnterPrivate, Normal, Paths
<1>4. p \in [kind : {"path"}, path : Paths, nth : Nat] /\ p.path = client[c].server
  BY <1>3 DEF PathText
<1>5. IsPrefix(client[c].server, p.path) /\ Normal(p.path)
  BY <1>3, <1>4, ClientAssumption DEF EnterPrivate, IsPrefix, Paths
<1> HIDE DEF p
<1>6. Then(c, "top") \in ClientType
  BY <1>1, ThenTyped DEF Mains, Waits
<1>7. p \in ShownTexts
  BY <1>4 DEF ShownTexts, Texts
<1>8. r \in ClientType
  BY <1>6, <1>7 DEF ClientType
<1>9. ASSUME client'[c] = r PROVE Mode(c)' /\ Below(c)'
  BY <1>1, <1>4, <1>5, <1>9 DEF EnterPrivate, Typed, ClientType, Mode, Below, AtClient, AtShared, AtPrivate, Then
<1> QED
  BY <1>2, <1>8, <1>9, OwnStep

LEMMA RemoteCdTyped ==
    ASSUME TypeInv, NEW c \in Clients, RemoteCd(c)
    PROVE  ClientTyping'
<1>1. client[c] \in ClientType /\ Mode(c) /\ Below(c)
  BY DEF TypeInv, ClientTyping
<1>2. PICK name \in Names :
        LET path == Walk(client[c].display_path.path, name)
        IN  \/ is_child_path(client[c].server, path) /\ Becomes(c, [Then(c, "cd_reply") EXCEPT !.wanted = path])
            \/ Becomes(c, [Then(c, "top") EXCEPT !.is_client_shell = TRUE, !.display_path = Local])
  BY DEF RemoteCd
<1> DEFINE path == Walk(client[c].display_path.path, name)
<1>3. path \in Paths /\ Normal(path)
  BY <1>1, WalkTyped, WalkNormal, ClientAssumption DEF RemoteCd, Below
<1> HIDE DEF path
<1>4. Then(c, "cd_reply") \in ClientType /\ Then(c, "top") \in ClientType
  BY <1>1, ThenTyped DEF Mains, Waits
<1>5. CASE is_child_path(client[c].server, path) /\ Becomes(c, [Then(c, "cd_reply") EXCEPT !.wanted = path])
  <2> DEFINE r == [Then(c, "cd_reply") EXCEPT !.wanted = path]
  <2>1. r \in ClientType
    BY <1>3, <1>4 DEF ClientType
  <2>2. IsPrefix(client[c].server, path)
    BY <1>5 DEF is_child_path
  <2>3. ASSUME client'[c] = r PROVE Mode(c)' /\ Below(c)'
    BY <1>1, <1>3, <2>2, <2>3 DEF RemoteCd, Typed, ClientType, Mode, Below, AtClient, AtShared, AtPrivate, Then
  <2> QED
    BY <1>5, <2>1, <2>3, OwnStep
<1>6. CASE Becomes(c, [Then(c, "top") EXCEPT !.is_client_shell = TRUE, !.display_path = Local])
  <2> DEFINE r == [Then(c, "top") EXCEPT !.is_client_shell = TRUE, !.display_path = Local]
  <2>1. r \in ClientType
    BY <1>4 DEF ClientType, ShownTexts, Local
  <2>3. ASSUME client'[c] = r PROVE Mode(c)' /\ Below(c)'
    BY <1>1, <2>3 DEF RemoteCd, Typed, ClientType, Mode, Below, AtClient, AtShared, AtPrivate, Then
  <2> QED
    BY <1>6, <2>1, <2>3, OwnStep
<1> QED
  BY <1>2, <1>5, <1>6 DEF path

LEMMA CdReplyTyped ==
    ASSUME TypeInv, NEW c \in Clients, CdReply(c)
    PROVE  ClientTyping'
<1> DEFINE p == PathText(client[c].wanted, 0)
           r == [client[c] EXCEPT !.main = "top", !.display_path = p]
           q == [client[c] EXCEPT !.main = "top"]
<1>1. client[c] \in ClientType /\ Mode(c) /\ Below(c)
  BY DEF TypeInv, ClientTyping
<1>2. Becomes(c, r) \/ Becomes(c, q)
  BY DEF CdReply
<1>3. p \in [kind : {"path"}, path : Paths, nth : Nat] /\ p.path = client[c].wanted
  BY <1>1 DEF PathText, ClientType
<1>6. p \in ShownTexts
  BY <1>3 DEF ShownTexts, Texts
<1> HIDE DEF p
<1>4. r \in ClientType /\ q \in ClientType
  BY <1>1, <1>6 DEF ClientType, Mains
<1>5. ASSUME client'[c] = r \/ client'[c] = q PROVE Mode(c)' /\ Below(c)'
  BY <1>1, <1>3, <1>5 DEF CdReply, ClientType, Mode, Below, AtClient, AtShared, AtPrivate
<1> QED
  BY <1>2, <1>4, <1>5, OwnStep

(* The receive loop. *)
LEMMA FirstWordTyped ==
    ASSUME NEW t \in Texts
    PROVE  FirstWord(t) \in ShownTexts
  BY DEF FirstWord, ShownTexts, Texts, PathText

LEMMA ReceiverTyped ==
    ASSUME TypeInv, NEW c \in Clients, ReceiverNext(c)
    PROVE  ClientTyping'
<1>1. client[c] \in ClientType /\ Mode(c) /\ Below(c)
  BY DEF TypeInv, ClientTyping
<1>2. CASE ReceiveHeader(c)
  <2> DEFINE t == Received(c)
             r == [client[c] EXCEPT !.held = t, !.receiver = "second"]
             q == [client[c] EXCEPT !.receiver = "dead"]
             u == [client[c] EXCEPT !.receiver = "undecoded"]
  <2>1. Becomes(c, r) \/ Becomes(c, q) \/ Becomes(c, u)
    BY <1>2 DEF ReceiveHeader
  <2>2. t \in Texts
    BY <1>2, ReceivedText DEF ReceiveHeader, Receive
  <2> HIDE DEF t
  <2>3. r \in ClientType /\ q \in ClientType /\ u \in ClientType
    BY <1>1, <2>2 DEF ClientType, Receivers
  <2>4. ASSUME client'[c] = r \/ client'[c] = q \/ client'[c] = u PROVE Mode(c)' /\ Below(c)'
    BY <1>1, <1>2, <2>2, <2>4 DEF ReceiveHeader, ClientType, Mode, Below, AtClient, AtShared, AtPrivate
  <2> QED
    BY <2>1, <2>3, <2>4, OwnStep
<1>3. CASE ReceiveOutput(c)
  <2> DEFINE r == [client[c] EXCEPT !.mine = client[c].send_shared_cmd, !.receiver = "shown"]
             u == [client[c] EXCEPT !.receiver = "undecoded"]
  <2>1. Becomes(c, r) \/ Becomes(c, u)
    BY <1>3 DEF ReceiveOutput
  <2>2. r \in ClientType /\ u \in ClientType
    BY <1>1 DEF ClientType, Receivers
  <2>3. ASSUME client'[c] = r \/ client'[c] = u PROVE Mode(c)' /\ Below(c)'
    BY <1>1, <1>3, <2>3 DEF ReceiveOutput, ClientType, Mode, Below, AtClient, AtShared, AtPrivate
  <2> QED
    BY <2>1, <2>2, <2>3, OwnStep
<1>4. CASE Update(c)
  <2> DEFINE w == FirstWord(client[c].held)
             r == [client[c] EXCEPT !.display_path = w, !.send_shared_cmd = FALSE, !.event = TRUE,
                                    !.held = None, !.receiver = "first"]
  <2>1. Becomes(c, r)
    BY <1>4 DEF Update
  <2>2. w \in ShownTexts
    BY <1>1, <1>4, FirstWordTyped DEF Update, Mode
  <2> HIDE DEF w
  <2>3. r \in ClientType
    BY <1>1, <2>2 DEF ClientType, Receivers
  <2>4. ASSUME client'[c] = r PROVE Mode(c)' /\ Below(c)'
    BY <1>1, <1>4, <2>4 DEF Update, ClientType, Mode, Below, AtClient, AtShared, AtPrivate
  <2> QED
    BY <2>1, <2>3, <2>4, OwnStep
<1>5. CASE ReceiverTimeout(c)
  <2> DEFINE r == [client[c] EXCEPT !.receiver = "dead"]
  <2>1. Becomes(c, r)
    BY <1>5 DEF ReceiverTimeout
  <2>2. r \in ClientType
    BY <1>1 DEF ClientType, Receivers
  <2>3. ASSUME client'[c] = r PROVE Mode(c)' /\ Below(c)'
    BY <1>1, <1>5, <2>3 DEF ReceiverTimeout, ClientType, Mode, Below, AtClient, AtShared, AtPrivate
  <2> QED
    BY <2>1, <2>2, <2>3, OwnStep
<1> QED
  BY <1>2, <1>3, <1>4, <1>5 DEF ReceiverNext

-------------------------------------------------------------------------------
(* The queues. *)

(* What a step of client c may do to them: take the oldest datagram that   *)
(* has come for it, and send one request of its own.                       *)
Sends(c) ==
    \/ packet_queue' = packet_queue
    \/ \E r \in Requests : r.from = c /\ packet_queue' = Append(packet_queue, r)

Takes(c) ==
    \/ inbox' = inbox
    \/ inbox[c] # << >> /\ inbox' = [inbox EXCEPT ![c] = Tail(inbox[c])]

LEMMA ClientQueues ==
    ASSUME TypeInv, NEW c \in Clients, MainNext(c) \/ ReceiverNext(c)
    PROVE  Sends(c) /\ Takes(c)
<1>1. client[c] \in ClientType /\ Mode(c) /\ Below(c)
  BY DEF TypeInv, ClientTyping
<1>2. ASSUME NEW type \in RequestTypes, NEW path \in Paths, NEW cmd \in Cmds, Send(Request(c, type, path, cmd)),
             type = "shared" => cmd \in SharedCmds
      PROVE  Sends(c) /\ Takes(c)
  <2>1. Request(c, type, path, cmd) \in Requests /\ Request(c, type, path, cmd).from = c
    BY <1>2 DEF Request, Requests
  <2> QED
    BY <1>2, <2>1 DEF Send, Sends, Takes
<1>3. ASSUME Silent \/ Receive(c)
      PROVE  Sends(c) /\ Takes(c)
  BY <1>3 DEF Silent, Receive, Sends, Takes
<1>4. << >> \in Paths /\ None \in Cmds
  BY DEF Paths, Cmds
<1>5. CASE Exit(c) \/ Join(c)
  BY <1>2, <1>3, <1>4, <1>5 DEF Exit, Join, RequestTypes
<1>6. CASE MountPrivate(c)
  <2>1. PICK b \in Bases : Send(Request(c, "valid", b, None))
    BY <1>6 DEF MountPrivate
  <2> QED
    BY <1>2, <1>4, <2>1, ClientAssumption DEF RequestTypes, Normal, Paths
<1>7. CASE LoginReply(c)
  <2>1. Request(c, "path", << >>, None) \in Requests /\ Request(c, "path", << >>, None).from = c
    BY <1>4 DEF Request, Requests, RequestTypes
  <2> QED
    BY <1>7, <2>1 DEF LoginReply, Decodes, Sends, Takes
<1>8. CASE RemoteCd(c)
  <2>1. PICK name \in Names : \/ Send(Request(c, "valid", Walk(client[c].display_path.path, name), None))
                              \/ Silent
    BY <1>8 DEF RemoteCd
  <2>2. Walk(client[c].display_path.path, name) \in Paths
    BY <1>1, <1>8, WalkTyped, ClientAssumption DEF RemoteCd, Below
  <2> QED
    BY <1>2, <1>3, <1>4, <2>1, <2>2 DEF RequestTypes
<1>9. CASE RemoteRun(c)
  <2>1. PICK p \in Programs : Send(Request(c, "run", client[c].display_path.path, p))
    BY <1>9 DEF RemoteRun
  <2> QED
    BY <1>1, <1>2, <1>9, <2>1 DEF RemoteRun, Below, RequestTypes, Cmds
<1>10. CASE RemoteCp(c)
  <2>1. PICK f \in CopyNames : Send(Request(c, "copy", Walk(client[c].display_path.path, f), None))
    BY <1>10 DEF RemoteCp
  <2>2. client[c].display_path.path \in Paths
    BY <1>1, <1>10 DEF RemoteCp, Below
  <2>3. Walk(client[c].display_path.path, f) \in Paths
    BY <2>2, WalkTyped, ClientAssumption
  <2> QED
    BY <1>2, <1>4, <2>1, <2>3 DEF RequestTypes
<1>11. CASE SharedCmd(c)
  <2>1. PICK cmd \in SharedCommands : Send(Request(c, "shared", << >>, cmd))
    BY <1>11 DEF SharedCmd
  <2>2. cmd \in Cmds /\ cmd \in SharedCmds
    BY DEF SharedCommands, Cmds, SharedCmds
  <2> QED
    BY <1>2, <1>4, <2>1, <2>2 DEF RequestTypes
<1>12. CASE \/ Top(c) \/ MountShared(c) \/ MountReply(c) \/ LocalCd(c) \/ LocalRun(c) \/ PathReply(c)
           \/ EnterPrivate(c) \/ CdReply(c) \/ RunReply(c) \/ CpReply(c) \/ CpChunk(c) \/ CpTimeout(c)
           \/ MainTimeout(c) \/ DecodeError(c) \/ EventWait(c)
  <2>1. Silent \/ Receive(c)
    BY <1>12 DEF Top, MountShared, MountReply, LocalCd, LocalRun, PathReply, EnterPrivate, CdReply, RunReply,
                 CpReply, CpChunk, CpTimeout, MainTimeout, DecodeError, EventWait
  <2> QED
    BY <1>3, <2>1
<1>13. CASE ReceiverNext(c)
  <2>1. Silent \/ Receive(c)
    BY <1>13 DEF ReceiverNext, ReceiveHeader, ReceiveOutput, Update, ReceiverTimeout
  <2> QED
    BY <1>3, <2>1
<1> QED
  BY <1>5, <1>6, <1>7, <1>8, <1>9, <1>10, <1>11, <1>12, <1>13 DEF MainNext

LEMMA ClientServerTyped ==
    ASSUME TypeInv, NEW c \in Clients, MainNext(c) \/ ReceiverNext(c)
    PROVE  ServerTyping'
<1>1. Sends(c) /\ Takes(c)
  BY ClientQueues
<1>2. packet_queue' \in Seq(Requests)
  <2>1. packet_queue \in Seq(Requests)
    BY DEF TypeInv, ServerTyping
  <2> QED
    BY <1>1, <2>1, AppendProperties DEF Sends
<1>3. inbox' \in [Clients -> Seq(Texts)]
  <2>1. inbox \in [Clients -> Seq(Texts)]
    BY DEF TypeInv, ServerTyping
  <2>2. inbox[c] # << >> => Tail(inbox[c]) \in Seq(Texts)
    BY <2>1, HeadTailProperties
  <2> QED
    BY <1>1, <2>1, <2>2 DEF Takes
<1>4. UNCHANGED <<users, cwd, serving, sending, executed, faults>>
  BY DEF MainNext, ReceiverNext
<1> QED
  BY <1>2, <1>3, <1>4 DEF TypeInv, ServerTyping

(* A pair of datagrams for each of n rows.                                 *)
LEMMA TimesPair ==
    ASSUME NEW S, NEW a \in S, NEW b \in S, NEW n \in Nat
    PROVE  /\ Times(n, <<a, b>>) \in Seq(S)
           /\ Len(Times(n, <<a, b>>)) = 2 * n
           /\ \A j \in 1 .. n : /\ Times(n, <<a, b>>)[2 * j - 1] = a
                                /\ Times(n, <<a, b>>)[2 * j] = b
<1> DEFINE s == <<a, b>>
           t == [i \in 1 .. 2 * n |-> s[1 + ((i - 1) % 2)]]
<1>1. Times(n, s) = t
  <2>1. Len(s) = 2 /\ n * 2 = 2 * n
    OBVIOUS
  <2> QED
    BY <2>1 DEF Times
<1>2. s[1] = a /\ s[2] = b
  OBVIOUS
<1> HIDE DEF s
<1>3. \A i \in 1 .. 2 * n : 1 + ((i - 1) % 2) \in {1, 2}
  OBVIOUS
<1>4. t \in Seq(S) /\ Len(t) = 2 * n
  <2>1. t \in [1 .. 2 * n -> S]
    BY <1>2, <1>3
  <2>2. 2 * n \in Nat
    OBVIOUS
  <2> QED
    BY <2>1, <2>2
<1>5. ASSUME NEW j \in 1 .. n
      PROVE  t[2 * j - 1] = a /\ t[2 * j] = b
  <2>1. 2 * j - 1 \in 1 .. 2 * n /\ 2 * j \in 1 .. 2 * n
    OBVIOUS
  <2>2. 1 + ((2 * j - 1 - 1) % 2) = 1 /\ 1 + ((2 * j - 1) % 2) = 2
    OBVIOUS
  <2> QED
    BY <1>2, <2>1, <2>2
<1> QED
  BY <1>1, <1>4, <1>5 DEF s

LEMMA ReplyTyped ==
    ASSUME ServerTyping, NEW texts \in Seq(Texts), Reply(texts)
    PROVE  inbox' \in [Clients -> Seq(Texts)]
<1>1. inbox \in [Clients -> Seq(Texts)] /\ inbox' = [inbox EXCEPT ![sender] = inbox[sender] \o texts]
  BY DEF ServerTyping, Reply
<1>2. sender \in Clients => inbox[sender] \o texts \in Seq(Texts)
  BY <1>1, ConcatProperties
<1> QED
  BY <1>1, <1>2

LEMMA HandleTyped ==
    ASSUME ServerTyping, NEW type, Handle(type)
    PROVE  /\ request \in Requests /\ sender \in Clients
           /\ packet_queue' \in Seq(Requests) /\ packet_queue' = Tail(packet_queue)
           /\ request.type = type /\ sending = None /\ faults' = faults /\ serving
<1>1. request \in Requests /\ packet_queue' \in Seq(Requests)
  BY HeadTailProperties DEF ServerTyping, Handle, request
<1> QED
  BY <1>1 DEF Handle, request, sender, Requests

LEMMA ServerTyped ==
    ASSUME ServerTyping, ServerNext
    PROVE  ServerTyping'
<1>1. CASE remote_login
  <2>1. /\ request \in Requests /\ sender \in Clients /\ packet_queue' \in Seq(Requests)
        /\ faults' = faults
    BY <1>1, HandleTyped DEF remote_login
  <2>2. <<Status(TRUE)>> \in Seq(Texts) /\ <<Status(FALSE)>> \in Seq(Texts)
    BY DEF Status, Texts
  <2>3. inbox' \in [Clients -> Seq(Texts)]
    BY <1>1, <2>2, ReplyTyped DEF remote_login
  <2>5. users \in [Clients -> Nat] /\ Inserted \in [Clients -> Nat]
    BY <2>1 DEF Inserted, ServerTyping
  <2>4. users' \in [Clients -> Nat]
    BY <1>1, <2>5 DEF remote_login
  <2> QED
    BY <1>1, <2>1, <2>3, <2>4 DEF remote_login, ServerTyping
<1>2. CASE remote_logout
  <2>1. /\ request \in Requests /\ sender \in Clients /\ packet_queue' \in Seq(Requests)
        /\ faults' = faults
    BY <1>2, HandleTyped DEF remote_logout
  <2>3. users \in [Clients -> Nat] /\ Deleted \in [Clients -> Nat]
    BY <2>1 DEF Deleted, ServerTyping
  <2>2. users' \in [Clients -> Nat]
    BY <1>2, <2>3 DEF remote_logout
  <2> QED
    BY <1>2, <2>1, <2>2 DEF remote_logout, ServerTyping
<1>3. CASE valid_remote_path
  <2>1. /\ request \in Requests /\ sender \in Clients /\ packet_queue' \in Seq(Requests)
        /\ faults' = faults
    BY <1>3, HandleTyped DEF valid_remote_path
  <2>2. <<Status(Resolve(request.path) \in Dirs)>> \in Seq(Texts)
    BY DEF Status, Texts
  <2>3. inbox' \in [Clients -> Seq(Texts)]
    BY <1>3, <2>2, ReplyTyped DEF valid_remote_path
  <2> QED
    BY <1>3, <2>1, <2>3 DEF valid_remote_path, ServerTyping
<1>4. CASE run_remote_cmd
  <2>1. /\ request \in Requests /\ sender \in Clients /\ packet_queue' \in Seq(Requests)
        /\ faults' = faults
    BY <1>4, HandleTyped DEF run_remote_cmd
  <2>2. CASE Resolve(request.path) \in Dirs /\ request.cmd \in DOMAIN Known /\ Known[request.cmd] # "huge"
    <3>1. <<Output(Known[request.cmd])>> \in Seq(Texts)
      BY <2>2, ServerAssumption DEF Output, Texts
    <3>2. inbox' \in [Clients -> Seq(Texts)]
      BY <1>4, <2>2, <3>1, ReplyTyped DEF run_remote_cmd
    <3> QED
      BY <1>4, <2>1, <2>2, <3>2 DEF run_remote_cmd, ServerTyping
  <2>3. CASE ~ (/\ Resolve(request.path) \in Dirs /\ request.cmd \in DOMAIN Known
                /\ Known[request.cmd] # "huge")
    BY <1>4, <2>1, <2>3 DEF run_remote_cmd, Raise, ServerTyping
  <2> QED
    BY <2>2, <2>3
<1>5. CASE remote_copy_file
  <2>1. /\ request \in Requests /\ sender \in Clients /\ packet_queue' \in Seq(Requests)
        /\ faults' = faults
    BY <1>5, HandleTyped DEF remote_copy_file
  <2>2. <<Status(Resolve(request.path) \in DOMAIN Files)>> \in Seq(Texts)
    BY DEF Status, Texts
  <2>3. inbox' \in [Clients -> Seq(Texts)]
    BY <1>5, <2>2, ReplyTyped DEF remote_copy_file
  <2>4. sending' \in {None} \cup [to : Clients, left : Nat \ {0}]
    BY <1>5, <2>1, ServerAssumption DEF remote_copy_file
  <2> QED
    BY <1>5, <2>1, <2>3, <2>4 DEF remote_copy_file, ServerTyping
<1>6. CASE send_chunk
  <2>1. sending \in [to : Clients, left : Nat \ {0}]
    BY <1>6 DEF send_chunk, ServerTyping
  <2>2. Chunk \in Texts
    BY DEF Chunk, Texts
  <2>3. inbox' = [inbox EXCEPT ![sending.to] = Append(inbox[sending.to], Chunk)]
    BY <1>6 DEF send_chunk
  <2>4. inbox' \in [Clients -> Seq(Texts)]
    BY <2>1, <2>2, <2>3, AppendProperties DEF ServerTyping
  <2>5. sending' \in {None} \cup [to : Clients, left : Nat \ {0}]
    BY <1>6, <2>1 DEF send_chunk
  <2> QED
    BY <1>6, <2>4, <2>5 DEF send_chunk, ServerTyping
<1>7. CASE get_remote_path
  <2>1. /\ request \in Requests /\ sender \in Clients /\ packet_queue' \in Seq(Requests)
        /\ faults' = faults
    BY <1>7, HandleTyped DEF get_remote_path
  <2>2. <<PathText(cwd, executed)>> \in Seq(Texts)
    BY ServerAssumption DEF PathText, Texts, Paths, ServerTyping
  <2>3. inbox' \in [Clients -> Seq(Texts)]
    BY <1>7, <2>2, ReplyTyped DEF get_remote_path
  <2> QED
    BY <1>7, <2>1, <2>3 DEF get_remote_path, ServerTyping
<1>8. CASE run_remote_shared_cmd
  <2>1. /\ request \in Requests /\ sender \in Clients /\ packet_queue' \in Seq(Requests)
        /\ faults' = faults
    BY <1>8, HandleTyped DEF run_remote_shared_cmd
  <2> DEFINE cmd == request.cmd
             dir == IF cmd.op = "cd" THEN Resolve(Walk(cwd, cmd.arg)) ELSE cwd
             possible == IF cmd.op = "cd" THEN dir \in Dirs ELSE cmd.arg \in DOMAIN Known
             output == IF cmd.op = "cd" THEN "empty" ELSE Known[cmd.arg]
             header == Header(dir, executed + 1, cmd, sender)
             pair == <<header, Output(output)>>
  <2>2. CASE UNCHANGED <<inbox, users, cwd, serving, sending, executed>>
    BY <2>1, <2>2 DEF ServerTyping
  <2>3. CASE Raise
    BY <2>1, <2>3 DEF Raise, ServerTyping
  <2>4. CASE /\ possible
             /\ cwd' = dir
             /\ UNCHANGED <<users, sending>>
             /\ \/ Broadcast(pair) /\ executed' = executed + 1 /\ UNCHANGED serving
                \/ BroadcastHuge(header) /\ UNCHANGED executed
                \/ serving' = FALSE /\ UNCHANGED <<inbox, executed>>
    <3>1. cmd \in SharedCmds
      BY <2>1, <1>8, HandleTyped DEF run_remote_shared_cmd, Requests
    <3>2. output \in Outputs
      BY <2>4, <3>1, ServerAssumption DEF SharedCmds, Outputs
    <3>7. dir \in Dirs
      BY <2>4 DEF ServerTyping
    <3>3. header \in Texts
      <4>1. dir \in Paths /\ cmd \in Cmds /\ executed + 1 \in Nat
        BY <3>1, <3>7, ServerAssumption DEF Paths, Cmds, ServerTyping
      <4> HIDE DEF dir, cmd
      <4> QED
        BY <2>1, <4>1 DEF Header, Texts
    <3>4. Output(output) \in Texts
      <4> HIDE DEF output
      <4> QED
        BY <3>2 DEF Output, Texts
    <3> HIDE DEF output, dir, header, possible
    <3>5. ASSUME Broadcast(pair)
          PROVE  inbox' \in [Clients -> Seq(Texts)]
      <4>1. \A c \in Clients : Times(users[c], pair) \in Seq(Texts)
        BY <3>3, <3>4, TimesPair DEF ServerTyping
      <4>2. \A c \in Clients : inbox[c] \o Times(users[c], pair) \in Seq(Texts)
        BY <4>1, ConcatProperties DEF ServerTyping
      <4> QED
        BY <3>5, <4>2 DEF Broadcast
    <3>6. ASSUME BroadcastHuge(header)
          PROVE  inbox' \in [Clients -> Seq(Texts)]
      <4>1. \A c \in Clients : Append(inbox[c], header) \in Seq(Texts)
        BY <3>3, AppendProperties DEF ServerTyping
      <4>2. PICK c \in Clients : inbox' = [inbox EXCEPT ![c] = Append(inbox[c], header)]
        BY <3>6 DEF BroadcastHuge
      <4> QED
        BY <4>1, <4>2 DEF ServerTyping
    <3>8. inbox' \in [Clients -> Seq(Texts)]
      BY <2>4, <3>5, <3>6 DEF ServerTyping
    <3>9. serving' \in BOOLEAN /\ executed' \in Nat
      <4>1. CASE executed' = executed + 1 /\ UNCHANGED serving
        BY <4>1 DEF ServerTyping
      <4>2. CASE BroadcastHuge(header) /\ UNCHANGED executed
        BY <4>2 DEF BroadcastHuge, ServerTyping
      <4>3. CASE serving' = FALSE /\ UNCHANGED <<inbox, executed>>
        BY <4>3 DEF ServerTyping
      <4> QED
        BY <2>4, <4>1, <4>2, <4>3
    <3> QED
      BY <2>1, <2>4, <3>7, <3>8, <3>9 DEF ServerTyping
  <2> QED
    BY <1>8, <2>2, <2>3, <2>4 DEF run_remote_shared_cmd
<1> QED
  BY <1>1, <1>2, <1>3, <1>4, <1>5, <1>6, <1>7, <1>8 DEF ServerNext

(* What is left when a datagram is lost.                                   *)
LEMMA RemoveAtTyped ==
    ASSUME NEW S, NEW s \in Seq(S), NEW i \in DOMAIN s
    PROVE  RemoveAt(s, i) \in Seq(S)
<1>1. i \in 1 .. Len(s)
  OBVIOUS
<1>2. SubSeq(s, 1, i - 1) \in Seq(S) /\ SubSeq(s, i + 1, Len(s)) \in Seq(S)
  BY <1>1, SubSeqProperties
<1> QED
  BY <1>2, ConcatProperties DEF RemoveAt

LEMMA EnvironmentTyped ==
    ASSUME ServerTyping, EnvironmentNext
    PROVE  ServerTyping'
<1>1. faults' \in Seq(Faults \ {"database"})
  <2>1. PICK kind \in Faults \ {"database"} : faults' = Append(faults, kind)
    BY DEF EnvironmentNext, Lose, Duplicate, Restart, Fault
  <2> QED
    BY <2>1, AppendProperties DEF ServerTyping
<1>2. CASE Lose
  <2>1. /\ UNCHANGED <<users, cwd, serving, sending, executed>>
        /\ \/ \E i \in DOMAIN packet_queue : packet_queue' = RemoveAt(packet_queue, i) /\ UNCHANGED inbox
           \/ \E c \in Clients : \E i \in DOMAIN inbox[c] :
                inbox' = [inbox EXCEPT ![c] = RemoveAt(inbox[c], i)] /\ UNCHANGED packet_queue
    BY <1>2 DEF Lose
  <2>2. \A i \in DOMAIN packet_queue : RemoveAt(packet_queue, i) \in Seq(Requests)
    BY RemoveAtTyped DEF ServerTyping
  <2>3. \A c \in Clients : \A i \in DOMAIN inbox[c] : RemoveAt(inbox[c], i) \in Seq(Texts)
    BY RemoveAtTyped DEF ServerTyping
  <2>4. packet_queue' \in Seq(Requests)
    <3>1. packet_queue \in Seq(Requests)
      BY DEF ServerTyping
    <3>2. CASE packet_queue' = packet_queue
      BY <3>1, <3>2
    <3>3. CASE packet_queue' # packet_queue
      BY <2>1, <2>2, <3>3, Zenon
    <3> QED
      BY <3>2, <3>3
  <2>5. inbox' \in [Clients -> Seq(Texts)]
    <3>1. inbox \in [Clients -> Seq(Texts)]
      BY DEF ServerTyping
    <3>2. CASE inbox' # inbox
      <4>1. PICK c \in Clients : \E i \in DOMAIN inbox[c] : inbox' = [inbox EXCEPT ![c] = RemoveAt(inbox[c], i)]
        BY <2>1, <3>2
      <4>2. PICK new \in Seq(Texts) : inbox' = [inbox EXCEPT ![c] = new]
        BY <2>3, <4>1
      <4> QED
        BY <3>1, <4>2
    <3> QED
      BY <3>1, <3>2
  <2> QED
    BY <1>1, <2>1, <2>4, <2>5 DEF ServerTyping
<1>3. CASE Duplicate
  <2>1. /\ UNCHANGED <<users, cwd, serving, sending, executed>>
        /\ \/ \E i \in DOMAIN packet_queue : packet_queue' = Append(packet_queue, packet_queue[i]) /\ UNCHANGED inbox
           \/ \E c \in Clients : \E i \in DOMAIN inbox[c] :
                inbox' = [inbox EXCEPT ![c] = Append(inbox[c], inbox[c][i])] /\ UNCHANGED packet_queue
    BY <1>3 DEF Duplicate
  <2>2. \A i \in DOMAIN packet_queue : Append(packet_queue, packet_queue[i]) \in Seq(Requests)
    BY ElementOfSeq, AppendProperties DEF ServerTyping
  <2>3. \A c \in Clients : \A i \in DOMAIN inbox[c] : Append(inbox[c], inbox[c][i]) \in Seq(Texts)
    BY ElementOfSeq, AppendProperties DEF ServerTyping
  <2>4. packet_queue' \in Seq(Requests)
    <3>1. packet_queue \in Seq(Requests)
      BY DEF ServerTyping
    <3>2. CASE packet_queue' = packet_queue
      BY <3>1, <3>2
    <3>3. CASE packet_queue' # packet_queue
      BY <2>1, <2>2, <3>3, Zenon
    <3> QED
      BY <3>2, <3>3
  <2>5. inbox' \in [Clients -> Seq(Texts)]
    <3>1. inbox \in [Clients -> Seq(Texts)]
      BY DEF ServerTyping
    <3>2. CASE inbox' # inbox
      <4>1. PICK c \in Clients : \E i \in DOMAIN inbox[c] : inbox' = [inbox EXCEPT ![c] = Append(inbox[c], inbox[c][i])]
        BY <2>1, <3>2
      <4>2. PICK new \in Seq(Texts) : inbox' = [inbox EXCEPT ![c] = new]
        BY <2>3, <4>1
      <4> QED
        BY <3>1, <4>2
    <3> QED
      BY <3>1, <3>2
  <2> QED
    BY <1>1, <2>1, <2>4, <2>5 DEF ServerTyping
<1>4. CASE Restart
  BY <1>1, <1>4, ServerAssumption DEF Restart, ServerTyping
<1> QED
  BY <1>2, <1>3, <1>4 DEF EnvironmentNext

-------------------------------------------------------------------------------
(* The invariant holds whatever the network and the operator do.           *)

LEMMA InitTyped ==
    ASSUME Init
    PROVE  TypeInv
<1>1. ServerTyping
  BY ServerAssumption DEF Init, ServerInit, ServerTyping
<1>2. NewClient \in ClientType
  BY DEF NewClient, ClientType, Mains, Waits, Receivers, ShownTexts, Local, Paths
<1>3. client \in [Clients -> ClientType] /\ \A c \in Clients : client[c] = NewClient
  BY <1>2 DEF Init
<1>4. ASSUME NEW c \in Clients
      PROVE  Mode(c) /\ Below(c)
  BY <1>3 DEF NewClient, Mode, Below, AtClient, AtShared, AtPrivate
<1> QED
  BY <1>1, <1>3, <1>4 DEF TypeInv, ClientTyping

LEMMA ClientTyped ==
    ASSUME TypeInv, NEW c \in Clients, MainNext(c) \/ ReceiverNext(c)
    PROVE  ClientTyping'
  BY MainTyped, PathReplyTyped, EnterPrivateTyped, RemoteCdTyped, CdReplyTyped, ReceiverTyped DEF MainNext

LEMMA SameClients ==
    ASSUME TypeInv, UNCHANGED client
    PROVE  ClientTyping'
  BY DEF TypeInv, ClientTyping, Mode, Below, AtClient, AtShared, AtPrivate

LEMMA NextTyped ==
    ASSUME TypeInv, [Next]_vars
    PROVE  TypeInv'
<1>1. CASE ServerNext /\ UNCHANGED client
  BY <1>1, ServerTyped, SameClients DEF TypeInv
<1>2. CASE EnvironmentNext /\ UNCHANGED client
  BY <1>2, EnvironmentTyped, SameClients DEF TypeInv
<1>3. CASE \E c \in Clients : MainNext(c) \/ ReceiverNext(c)
  BY <1>3, ClientTyped, ClientServerTyped DEF TypeInv
<1>4. CASE UNCHANGED vars
  <2>1. ServerTyping'
    BY <1>4 DEF vars, serverVars, TypeInv, ServerTyping
  <2> QED
    BY <1>4, <2>1, SameClients DEF vars, TypeInv
<1> QED
  BY <1>1, <1>2, <1>3, <1>4 DEF Next

LEMMA AlwaysTyped == Spec => []TypeInv
<1>1. Init => TypeInv
  BY InitTyped
<1>2. TypeInv /\ [Next]_vars => TypeInv'
  BY NextTyped
<1> QED
  BY <1>1, <1>2, PTL DEF Spec

(* The variables of the remote shell keep their values, whatever the       *)
(* network loses or duplicates and whenever the server is restarted.       *)
THEOREM TypeCorrect == Spec => []TypeOK
<1>1. TypeInv => TypeOK
  <2> SUFFICES ASSUME TypeInv PROVE TypeOK
    OBVIOUS
  <2>1. \A i \in DOMAIN packet_queue : packet_queue[i].from \in Clients
    BY ElementOfSeq DEF TypeInv, ServerTyping, Requests
  <2>2. ASSUME NEW c \in Clients
        PROVE  /\ client[c].main \in Waits \cup {"top", "input", "event_wait", "exited", "crashed"}
               /\ client[c].receiver \in {"none", "first", "second", "shown", "dead", "undecoded"}
               /\ client[c].server \in Bases \cup {None}
               /\ client[c].display_path.kind
                    \in {"local", "path", "header", "output", "word", "status", "chunk"}
    <3>1. client[c] \in ClientType
      BY DEF TypeInv, ClientTyping
    <3> QED
      BY <3>1 DEF ClientType, Mains, Receivers, ShownTexts, Texts
  <2> QED
    BY <2>1, <2>2 DEF TypeOK, TypeInv, ServerTyping
<1> QED
  BY <1>1, AlwaysTyped, PTL

(* Whatever datagram is taken for a reply, a private shell shows the path  *)
(* of the mount followed by names none of which leads upwards, as long as  *)
(* the mount is not "/" and does not end in ".." (client.py:147-161).      *)
THEOREM PrivateStaysBelow == Spec => []PrivateBelowMount
<1>1. TypeInv => PrivateBelowMount
  <2> SUFFICES ASSUME TypeInv, NEW c \in Clients, AtPrivate(c)
               PROVE  LET base == client[c].server
                          path == client[c].display_path.path
                      IN  /\ base # None
                          /\ IsPrefix(base, path)
                          /\ base # << >> /\ Last(base) # ".." =>
                                \A i \in Len(base) + 1 .. Len(path) : path[i] # ".."
    BY DEF PrivateBelowMount
  <2>1. /\ client[c].server \in Bases /\ Normal(client[c].server) /\ client[c].server # None
        /\ IsPrefix(client[c].server, client[c].display_path.path)
        /\ Normal(client[c].display_path.path)
    BY ClientAssumption DEF TypeInv, ClientTyping, Below
  <2> QED
    BY <2>1, NormalBelow
<1> QED
  BY <1>1, AlwaysTyped, PTL

-------------------------------------------------------------------------------
(* Members.  From here on no datagram is lost or duplicated, but the server *)
(* may be restarted.                                                       *)

Asked(c) == {i \in DOMAIN packet_queue : packet_queue[i].from = c}

AskedFor(c, type) == {i \in Asked(c) : packet_queue[i].type = type}

SendingTo(c) == sending # None /\ sending.to = c

(* The three things that may happen to the requests of a client: some are  *)
(* before them or not, one more is sent, the oldest of all is theirs.      *)
Kept(c) ==
    \E k \in {0, 1} :
        /\ \A i \in Asked(c) : i - k \in Asked(c)' /\ packet_queue'[i - k] = packet_queue[i]
        /\ \A i \in Asked(c)' : i + k \in Asked(c) /\ packet_queue'[i] = packet_queue[i + k]

Grew(c, r) ==
    \E n \in Nat :
        /\ n \in Asked(c)' /\ packet_queue'[n] = r
        /\ \A i \in Asked(c) : i < n /\ i \in Asked(c)' /\ packet_queue'[i] = packet_queue[i]
        /\ \A i \in Asked(c)' : i = n \/ i \in Asked(c)

Shrank(c) ==
    /\ 1 \in Asked(c)
    /\ \A i \in Asked(c) : i = 1 \/ (i - 1 \in Asked(c)' /\ packet_queue'[i - 1] = packet_queue[i])
    /\ \A i \in Asked(c)' : i + 1 \in Asked(c) /\ packet_queue'[i] = packet_queue[i + 1]

Gets(c, t) == inbox'[c] = Append(inbox[c], t)

(* The steps as a client sees them.  Something happens elsewhere.          *)
Elsewhere(c) ==
    /\ Kept(c)
    /\ client'[c] = client[c] /\ inbox'[c] = inbox[c] /\ users'[c] = users[c]
    /\ cwd' = cwd /\ executed' = executed /\ (serving' => serving)
    /\ SendingTo(c)' <=> SendingTo(c)

(* The server handles one of its requests.                                 *)
Answered(c) ==
    /\ Shrank(c)
    /\ client'[c] = client[c] /\ cwd' = cwd /\ executed' = executed /\ (serving' => serving)
    /\ ~ SendingTo(c)
    /\ packet_queue[1].type # "copy" => ~ SendingTo(c)'
    /\ packet_queue[1].type \notin {"login", "logout"} => users'[c] = users[c]
    /\ packet_queue[1].type = "login" =>
          /\ \E ok \in BOOLEAN : Gets(c, Status(ok)) /\ (ok => users'[c] = users[c] + 1)
          /\ users'[c] = users[c] \/ users'[c] = users[c] + 1
    /\ packet_queue[1].type = "logout" =>
          /\ inbox'[c] = inbox[c]
          /\ users'[c] = 0 \/ (users'[c] = users[c] /\ ~ serving')
    /\ packet_queue[1].type = "valid" => Gets(c, Status(Resolve(packet_queue[1].path) \in Dirs))
    /\ packet_queue[1].type = "run" => inbox'[c] = inbox[c] \/ \E w \in Outputs : Gets(c, Output(w))
    /\ packet_queue[1].type = "copy" => \E found \in BOOLEAN : Gets(c, Status(found)) /\ (SendingTo(c)' => found)
    /\ packet_queue[1].type = "path" => Gets(c, PathText(cwd, executed))
    /\ packet_queue[1].type = "shared" => inbox'[c] = inbox[c] /\ (users[c] = 0 \/ ~ serving')

(* The server carries out a shared command, its own or another client's.   *)
Broadcasted(c) ==
    /\ Kept(c) \/ (Shrank(c) /\ packet_queue[1].type = "shared")
    /\ client'[c] = client[c] /\ users'[c] = users[c] /\ executed' = executed + 1
    /\ serving /\ serving'
    /\ ~ SendingTo(c) /\ ~ SendingTo(c)'
    /\ users[c] = 0 => inbox'[c] = inbox[c]
    /\ users[c] = 1 =>
          /\ Len(inbox'[c]) = Len(inbox[c]) + 2
          /\ \A i \in 1 .. Len(inbox[c]) : inbox'[c][i] = inbox[c][i]
          /\ inbox'[c][Len(inbox[c]) + 1].kind = "header"
          /\ inbox'[c][Len(inbox[c]) + 1].nth = executed + 1
          /\ inbox'[c][Len(inbox[c]) + 1].path = cwd'
          /\ Kept(c) \/ inbox'[c][Len(inbox[c]) + 1].by = c
          /\ inbox'[c][Len(inbox[c]) + 2].kind = "output"

(* The server stops when it has carried out a shared command, and of the   *)
(* pair the client has got nothing or the header.                          *)
Halted(c) ==
    /\ Kept(c) \/ (Shrank(c) /\ packet_queue[1].type = "shared")
    /\ client'[c] = client[c] /\ users'[c] = users[c] /\ executed' = executed
    /\ serving /\ ~ serving'
    /\ ~ SendingTo(c) /\ ~ SendingTo(c)'
    /\ \/ inbox'[c] = inbox[c]
       \/ /\ users[c] > 0
          /\ \E h \in Texts : h.kind = "header" /\ h.nth = executed + 1 /\ Gets(c, h)

(* The server sends it a chunk of a file.                                  *)
Chunked(c) ==
    /\ Kept(c)
    /\ SendingTo(c) /\ Gets(c, Chunk)
    /\ client'[c] = client[c] /\ users'[c] = users[c]
    /\ cwd' = cwd /\ executed' = executed /\ serving' = serving

Restarted(c) ==
    /\ Asked(c)' = {}
    /\ ~ SendingTo(c)'
    /\ client'[c] = client[c] /\ inbox'[c] = inbox[c] /\ users'[c] = 0 /\ executed' = executed

LEMMA QueueFacts ==
    ASSUME ServerTyping
    PROVE  /\ Len(packet_queue) \in Nat /\ DOMAIN packet_queue = 1 .. Len(packet_queue)
           /\ \A c \in Clients : \A i \in Asked(c) : i \in Nat \ {0} /\ packet_queue[i] \in Requests
  BY ElementOfSeq DEF ServerTyping, Asked

LEMMA SameKept ==
    ASSUME ServerTyping, NEW c \in Clients, packet_queue' = packet_queue
    PROVE  Kept(c)
<1>1. Asked(c)' = Asked(c) /\ \A i \in Asked(c) : i \in Nat
  BY QueueFacts DEF Asked
<1> QED
  BY <1>1 DEF Kept

LEMMA AppendGrows ==
    ASSUME ServerTyping, NEW c \in Clients, NEW r \in Requests, packet_queue' = Append(packet_queue, r)
    PROVE  IF r.from = c THEN Grew(c, r) ELSE Kept(c)
<1> DEFINE n == Len(packet_queue) + 1
<1>1. /\ Len(packet_queue) \in Nat /\ DOMAIN packet_queue = 1 .. Len(packet_queue)
      /\ DOMAIN packet_queue' = 1 .. n
      /\ packet_queue'[n] = r
      /\ \A i \in 1 .. Len(packet_queue) : packet_queue'[i] = packet_queue[i]
  BY QueueFacts, AppendProperties DEF ServerTyping
<1>2. CASE r.from = c
  <2>1. Asked(c) \subseteq 1 .. Len(packet_queue)
    BY <1>1 DEF Asked
  <2>2. Asked(c)' = Asked(c) \cup {n}
    BY <1>1, <1>2 DEF Asked
  <2>3. n \in Nat /\ \A i \in Asked(c) : i < n
    BY <1>1, <2>1
  <2>4. n \in Asked(c)' /\ packet_queue'[n] = r
    BY <1>1, <2>2
  <2>5. \A i \in Asked(c) : i < n /\ i \in Asked(c)' /\ packet_queue'[i] = packet_queue[i]
    BY <1>1, <2>1, <2>2, <2>3
  <2>6. \A i \in Asked(c)' : i = n \/ i \in Asked(c)
    BY <2>2
  <2> HIDE DEF n
  <2>7. Grew(c, r)
    BY <2>3, <2>4, <2>5, <2>6 DEF Grew
  <2> QED
    BY <1>2, <2>7
<1>3. CASE r.from # c
  <2>1. Asked(c)' = Asked(c) /\ \A i \in Asked(c) : i \in Nat /\ packet_queue'[i] = packet_queue[i]
    BY <1>1, <1>3 DEF Asked
  <2>2. ASSUME NEW i \in Asked(c)
        PROVE  /\ i - 0 \in Asked(c)' /\ packet_queue'[i - 0] = packet_queue[i]
               /\ i + 0 \in Asked(c) /\ packet_queue'[i] = packet_queue[i + 0]
    <3>1. i - 0 = i /\ i + 0 = i
      BY <2>1
    <3> QED
      BY <2>1, <3>1
  <2>3. Kept(c)
    BY <2>1, <2>2 DEF Kept
  <2> QED
    BY <1>3, <2>3
<1> QED
  BY <1>2, <1>3

LEMMA TailShrinks ==
    ASSUME ServerTyping, NEW c \in Clients, packet_queue # << >>, packet_queue' = Tail(packet_queue)
    PROVE  /\ Head(packet_queue) = packet_queue[1]
           /\ IF Head(packet_queue).from = c THEN Shrank(c) ELSE Kept(c)
<1>1. /\ Len(packet_queue) \in Nat \ {0} /\ DOMAIN packet_queue = 1 .. Len(packet_queue)
      /\ Head(packet_queue) = packet_queue[1]
      /\ DOMAIN packet_queue' = 1 .. Len(packet_queue) - 1
      /\ \A i \in 1 .. Len(packet_queue) - 1 : packet_queue'[i] = packet_queue[i + 1]
  BY QueueFacts, HeadTailProperties DEF ServerTyping
<1>2. CASE Head(packet_queue).from = c
  BY <1>1, <1>2 DEF Shrank, Asked
<1>3. CASE Head(packet_queue).from # c
  <2>1. \A i \in Asked(c) : i - 1 \in Asked(c)' /\ packet_queue'[i - 1] = packet_queue[i]
    BY <1>1, <1>3 DEF Asked
  <2>2. \A i \in Asked(c)' : i + 1 \in Asked(c) /\ packet_queue'[i] = packet_queue[i + 1]
    BY <1>1, <1>3 DEF Asked
  <2> QED
    BY <1>3, <1>1, <2>1, <2>2 DEF Kept
<1> QED
  BY <1>1, <1>2, <1>3

LEMMA ConcatOne ==
    ASSUME NEW S, NEW s \in Seq(S), NEW t \in S
    PROVE  s \o <<t>> = Append(s, t)
<1>1. <<t>> \in Seq(S) /\ Len(<<t>>) = 1 /\ <<t>>[1] = t
  OBVIOUS
<1>2. s \o <<t>> \in Seq(S) /\ Len(s \o <<t>>) = Len(s) + 1
  BY <1>1, ConcatProperties
<1>3. Append(s, t) \in Seq(S) /\ Len(Append(s, t)) = Len(s) + 1
  BY AppendProperties
<1>4. \A i \in 1 .. Len(s) + 1 : (s \o <<t>>)[i] = Append(s, t)[i]
  BY <1>1, ConcatProperties, AppendProperties
<1> QED
  BY <1>2, <1>3, <1>4, SeqEqual

LEMMA ReplyGets ==
    ASSUME ServerTyping, NEW c \in Clients, sender \in Clients, NEW t \in Texts, Reply(<<t>>)
    PROVE  IF sender = c THEN Gets(c, t) ELSE inbox'[c] = inbox[c]
<1>1. inbox \in [Clients -> Seq(Texts)] /\ inbox' = [inbox EXCEPT ![sender] = inbox[sender] \o <<t>>]
  BY DEF ServerTyping, Reply
<1>2. inbox[sender] \o <<t>> = Append(inbox[sender], t)
  BY <1>1, ConcatOne
<1> QED
  BY <1>1, <1>2 DEF Gets

(* Each handler, as the sender of the request and as another client sees   *)
(* it.                                                                     *)
LEMMA HandleView ==
    ASSUME ServerTyping, NEW c \in Clients, NEW type, Handle(type)
    PROVE  /\ sender \in Clients /\ request = packet_queue[1] /\ packet_queue[1].type = type
           /\ packet_queue[1] \in Requests /\ ~ SendingTo(c) /\ sending = None /\ serving
           /\ IF sender = c THEN Shrank(c) ELSE Kept(c)
<1>1. packet_queue # << >> /\ packet_queue' = Tail(packet_queue)
  BY DEF Handle
<1>2. request = packet_queue[1] /\ request \in Requests /\ sender \in Clients /\ request.type = type
      /\ sending = None /\ serving
  BY <1>1, TailShrinks, HandleTyped DEF request
<1> QED
  BY <1>1, <1>2, TailShrinks DEF sender, request, SendingTo

LEMMA ServerView ==
    ASSUME TypeInv, NEW c \in Clients, ServerNext, UNCHANGED client
    PROVE  Elsewhere(c) \/ Answered(c) \/ Broadcasted(c) \/ Halted(c) \/ Chunked(c)
<1> USE DEF TypeInv
<1> DEFINE r == packet_queue[1]
<1>1. CASE remote_login
  <2>2. /\ sender \in Clients /\ r.type = "login" /\ ~ SendingTo(c)
        /\ IF sender = c THEN Shrank(c) ELSE Kept(c)
    BY <1>1, HandleView DEF remote_login
  <2>1. PICK ok \in BOOLEAN : /\ Reply(<<Status(ok)>>)
                              /\ users' = users \/ users' = Inserted
                              /\ ok => users' = Inserted
    BY <1>1 DEF remote_login
  <2>3. /\ IF sender = c THEN Gets(c, Status(ok)) ELSE inbox'[c] = inbox[c]
        /\ sender = c => Inserted[c] = users[c] + 1
        /\ sender # c => Inserted[c] = users[c]
    <3>1. Status(ok) \in Texts
      BY DEF Status, Texts
    <3>2. sender = c => Inserted[c] = users[c] + 1
      BY <2>2 DEF Inserted, ServerTyping
    <3>3. sender # c => Inserted[c] = users[c]
      BY <2>2 DEF Inserted, ServerTyping
    <3> QED
      BY <2>1, <2>2, <3>1, <3>2, <3>3, ReplyGets
  <2>4. UNCHANGED <<client, cwd, serving, sending, executed>>
    BY <1>1 DEF remote_login
  <2>5. CASE sender = c
    <3>1. /\ \E yes \in BOOLEAN : Gets(c, Status(yes)) /\ (yes => users'[c] = users[c] + 1)
          /\ users'[c] = users[c] \/ users'[c] = users[c] + 1
      BY <2>1, <2>3, <2>5
    <3> QED
      BY <2>2, <2>4, <2>5, <3>1 DEF Answered, SendingTo
  <2>6. CASE sender # c
    <3>1. inbox'[c] = inbox[c] /\ users'[c] = users[c]
      BY <2>1, <2>3, <2>6
    <3> QED
      BY <2>2, <2>4, <2>6, <3>1 DEF Elsewhere, SendingTo
  <2> QED
    BY <2>5, <2>6
<1>2. CASE remote_logout
  <2>2. /\ sender \in Clients /\ r.type = "logout" /\ ~ SendingTo(c)
        /\ IF sender = c THEN Shrank(c) ELSE Kept(c)
    BY <1>2, HandleView DEF remote_logout
  <2>5. Deleted[c] = IF sender = c THEN 0 ELSE users[c]
    BY <2>2 DEF Deleted, ServerTyping
  <2>6. \/ users' = Deleted /\ serving' = serving
        \/ (users' = users \/ users' = Deleted) /\ serving' = FALSE
    BY <1>2 DEF remote_logout
  <2>3. /\ sender = c => users'[c] = 0 \/ (users'[c] = users[c] /\ ~ serving')
        /\ sender # c => users'[c] = users[c]
        /\ serving' => serving
    BY <2>5, <2>6
  <2>4. UNCHANGED <<client, inbox, cwd, sending, executed>>
    BY <1>2 DEF remote_logout
  <2> QED
    BY <2>2, <2>3, <2>4 DEF Elsewhere, Answered, SendingTo
<1>3. CASE valid_remote_path
  <2>1. Status(Resolve(r.path) \in Dirs) \in Texts
    BY DEF Status, Texts
  <2>2. /\ sender \in Clients /\ r.type = "valid" /\ ~ SendingTo(c) /\ request = r
        /\ IF sender = c THEN Shrank(c) ELSE Kept(c)
    BY <1>3, HandleView DEF valid_remote_path
  <2>3. Reply(<<Status(Resolve(r.path) \in Dirs)>>)
    BY <1>3, <2>2 DEF valid_remote_path
  <2>4. IF sender = c THEN Gets(c, Status(Resolve(r.path) \in Dirs)) ELSE inbox'[c] = inbox[c]
    BY <2>1, <2>2, <2>3, ReplyGets
  <2>5. UNCHANGED <<client, users, cwd, serving, sending, executed>>
    BY <1>3 DEF valid_remote_path
  <2> QED
    BY <2>2, <2>4, <2>5 DEF Elsewhere, Answered, SendingTo
<1>4. CASE run_remote_cmd
  <2>2. /\ sender \in Clients /\ r.type = "run" /\ ~ SendingTo(c)
        /\ IF sender = c THEN Shrank(c) ELSE Kept(c)
    BY <1>4, HandleView DEF run_remote_cmd
  <2>3. UNCHANGED <<client, users, cwd, sending, executed>> /\ (serving' => serving)
    BY <1>4 DEF run_remote_cmd, Raise
  <2>4. IF sender = c THEN inbox'[c] = inbox[c] \/ \E w \in Outputs : Gets(c, Output(w)) ELSE inbox'[c] = inbox[c]
    <3>1. CASE Raise
      BY <3>1 DEF Raise
    <3>2. CASE request.cmd \in DOMAIN Known /\ Reply(<<Output(Known[request.cmd])>>)
      <4>1. PICK w \in Outputs : Reply(<<Output(w)>>)
        BY <3>2, ServerAssumption
      <4>2. Output(w) \in Texts
        BY DEF Output, Texts
      <4> QED
        BY <2>2, <4>1, <4>2, ReplyGets
    <3> QED
      BY <1>4, <3>1, <3>2 DEF run_remote_cmd
  <2> QED
    BY <2>2, <2>3, <2>4 DEF Elsewhere, Answered, SendingTo
<1>5. CASE remote_copy_file
  <2> DEFINE found == Resolve(request.path) \in DOMAIN Files
  <2>1. Status(found) \in Texts /\ found \in BOOLEAN
    BY DEF Status, Texts
  <2>2. /\ sender \in Clients /\ r.type = "copy" /\ ~ SendingTo(c) /\ sending = None
        /\ IF sender = c THEN Shrank(c) ELSE Kept(c)
    BY <1>5, HandleView DEF remote_copy_file
  <2>3. Reply(<<Status(found)>>)
    BY <1>5 DEF remote_copy_file
  <2>4. IF sender = c THEN Gets(c, Status(found)) ELSE inbox'[c] = inbox[c]
    BY <2>1, <2>2, <2>3, ReplyGets
  <2>5. UNCHANGED <<client, users, cwd, serving, executed>>
    BY <1>5 DEF remote_copy_file
  <2>6. SendingTo(c)' => found /\ sender = c
    BY <1>5 DEF remote_copy_file, SendingTo
  <2> HIDE DEF found
  <2>7. CASE sender = c
    <3>1. \E f \in BOOLEAN : Gets(c, Status(f)) /\ (SendingTo(c)' => f)
      BY <2>1, <2>4, <2>6, <2>7
    <3> QED
      BY <2>2, <2>5, <2>7, <3>1 DEF Answered
  <2>8. CASE sender # c
    BY <2>2, <2>4, <2>5, <2>6, <2>8 DEF Elsewhere
  <2> QED
    BY <2>7, <2>8
<1>6. CASE send_chunk
  <2>1. sending \in [to : Clients, left : Nat \ {0}] /\ sending # None
    BY <1>6 DEF send_chunk, ServerTyping
  <2>2. packet_queue' = packet_queue /\ UNCHANGED <<client, users, cwd, serving, executed>>
    BY <1>6 DEF send_chunk
  <2>3. Kept(c)
    BY <2>2, SameKept
  <2>4. CASE sending.to = c
    <3>1. Gets(c, Chunk)
      BY <1>6, <2>4 DEF send_chunk, ServerTyping, Gets
    <3> QED
      BY <2>1, <2>2, <2>3, <2>4, <3>1 DEF Chunked, SendingTo
  <2>5. CASE sending.to # c
    <3>1. inbox'[c] = inbox[c]
      BY <1>6, <2>1, <2>5 DEF send_chunk, ServerTyping
    <3>2. SendingTo(c)' <=> SendingTo(c)
      BY <1>6, <2>1, <2>5 DEF send_chunk, SendingTo
    <3> QED
      BY <2>2, <2>3, <3>1, <3>2 DEF Elsewhere
  <2> QED
    BY <2>4, <2>5
<1>7. CASE get_remote_path
  <2>1. PathText(cwd, executed) \in Texts
    BY ServerAssumption DEF PathText, Texts, Paths, ServerTyping
  <2>2. /\ sender \in Clients /\ r.type = "path" /\ ~ SendingTo(c)
        /\ IF sender = c THEN Shrank(c) ELSE Kept(c)
    BY <1>7, HandleView DEF get_remote_path
  <2>3. IF sender = c THEN Gets(c, PathText(cwd, executed)) ELSE inbox'[c] = inbox[c]
    BY <1>7, <2>1, <2>2, ReplyGets DEF get_remote_path
  <2>4. UNCHANGED <<client, users, cwd, serving, sending, executed>>
    BY <1>7 DEF get_remote_path
  <2> QED
    BY <2>2, <2>3, <2>4 DEF Elsewhere, Answered, SendingTo
<1>8. CASE run_remote_shared_cmd
  <2>1. /\ sender \in Clients /\ r.type = "shared" /\ ~ SendingTo(c) /\ r \in Requests /\ request = r
        /\ serving
        /\ IF sender = c THEN Shrank(c) ELSE Kept(c)
    BY <1>8, HandleView DEF run_remote_shared_cmd
  <2> DEFINE cmd == request.cmd
             dir == IF cmd.op = "cd" THEN Resolve(Walk(cwd, cmd.arg)) ELSE cwd
             possible == IF cmd.op = "cd" THEN dir \in Dirs ELSE cmd.arg \in DOMAIN Known
             output == IF cmd.op = "cd" THEN "empty" ELSE Known[cmd.arg]
             h == Header(dir, executed + 1, cmd, sender)
             pair == <<h, Output(output)>>
  <2>2. CASE users[sender] = 0 /\ UNCHANGED <<inbox, users, cwd, serving, sending, executed>>
    BY <2>1, <2>2 DEF Elsewhere, Answered, SendingTo
  <2>3. CASE Raise
    BY <2>1, <2>3 DEF Raise, Elsewhere, Answered, SendingTo
  <2>4. CASE /\ possible
             /\ cwd' = dir
             /\ UNCHANGED <<users, sending>>
             /\ \/ Broadcast(pair) /\ executed' = executed + 1 /\ UNCHANGED serving
                \/ BroadcastHuge(h) /\ UNCHANGED executed
                \/ serving' = FALSE /\ UNCHANGED <<inbox, executed>>
    <3>1. cmd \in SharedCmds
      BY <2>1 DEF Requests
    <3>2. output \in Outputs
      BY <2>4, <3>1, ServerAssumption DEF SharedCmds, Outputs
    <3>13. dir \in Dirs
      BY <2>4 DEF ServerTyping
    <3>3. h \in Texts /\ h.kind = "header" /\ h.nth = executed + 1 /\ h.path = dir /\ h.by = sender
      <4>1. dir \in Paths /\ cmd \in Cmds /\ executed + 1 \in Nat
        BY <3>1, <3>13, ServerAssumption DEF Paths, Cmds, ServerTyping
      <4> HIDE DEF dir, cmd
      <4> QED
        BY <2>1, <4>1 DEF Header, Texts
    <3>4. Output(output) \in Texts /\ Output(output).kind = "output"
      <4> HIDE DEF output
      <4> QED
        BY <3>2 DEF Output, Texts
    <3> DEFINE o == Output(output)
    <3> HIDE DEF output, dir, h, o, possible
    <3>6. inbox[c] \in Seq(Texts) /\ users[c] \in Nat
      BY DEF ServerTyping
    <3>9. sender = c \/ Kept(c)
      BY <2>1
    <3>10. Kept(c) \/ (Shrank(c) /\ packet_queue[1].type = "shared")
      BY <2>1
    <3>11. ~ SendingTo(c)'
      BY <2>1, <2>4 DEF SendingTo
    <3>14. CASE Broadcast(pair) /\ executed' = executed + 1 /\ UNCHANGED serving
      <4>1. inbox'[c] = inbox[c] \o Times(users[c], <<h, o>>)
        BY <3>14 DEF Broadcast, o
      <4>2. users[c] = 0 => inbox'[c] = inbox[c]
        <5>1. SUFFICES ASSUME users[c] = 0 PROVE inbox'[c] = inbox[c]
          OBVIOUS
        <5>2. Times(users[c], <<h, o>>) \in Seq(Texts) /\ Len(Times(users[c], <<h, o>>)) = 0
          BY <3>3, <3>4, <3>6, <5>1, TimesPair DEF o
        <5>3. Times(users[c], <<h, o>>) = << >>
          BY <5>2, EmptySeq
        <5> QED
          BY <3>6, <4>1, <5>3, ConcatEmptySeq
      <4>3. users[c] = 1 =>
              /\ Len(inbox'[c]) = Len(inbox[c]) + 2
              /\ \A i \in 1 .. Len(inbox[c]) : inbox'[c][i] = inbox[c][i]
              /\ inbox'[c][Len(inbox[c]) + 1] = h
              /\ inbox'[c][Len(inbox[c]) + 2] = o
        <5>1. SUFFICES ASSUME users[c] = 1
                       PROVE  /\ Len(inbox'[c]) = Len(inbox[c]) + 2
                              /\ \A i \in 1 .. Len(inbox[c]) : inbox'[c][i] = inbox[c][i]
                              /\ inbox'[c][Len(inbox[c]) + 1] = h
                              /\ inbox'[c][Len(inbox[c]) + 2] = o
          OBVIOUS
        <5> DEFINE t == Times(1, <<h, o>>)
        <5>2. t \in Seq(Texts) /\ Len(t) = 2 * 1 /\ t[2 * 1 - 1] = h /\ t[2 * 1] = o
          BY <3>3, <3>4, TimesPair DEF o
        <5> HIDE DEF t
        <5>3. inbox'[c] = inbox[c] \o t
          BY <4>1, <5>1 DEF t
        <5>4. Len(inbox[c]) \in Nat
          BY <3>6
        <5>5. /\ Len(inbox[c] \o t) = Len(inbox[c]) + 2
              /\ \A i \in 1 .. Len(inbox[c]) + 2 : (inbox[c] \o t)[i] =
                       IF i <= Len(inbox[c]) THEN inbox[c][i] ELSE t[i - Len(inbox[c])]
          BY <3>6, <5>2, ConcatProperties
        <5> QED
          BY <5>2, <5>3, <5>4, <5>5
      <4>4. client'[c] = client[c] /\ users'[c] = users[c] /\ executed' = executed + 1 /\ cwd' = dir
            /\ serving' = serving
        BY <2>4, <3>14
      <4> QED
        BY <2>1, <3>3, <3>4, <3>9, <3>10, <3>11, <4>2, <4>3, <4>4 DEF Broadcasted, o
    <3>15. CASE BroadcastHuge(h) /\ UNCHANGED executed
      <4>1. PICK d \in Clients : users[d] > 0 /\ inbox' = [inbox EXCEPT ![d] = Append(inbox[d], h)]
        BY <3>15 DEF BroadcastHuge
      <4>2. inbox'[c] = inbox[c] \/ (users[c] > 0 /\ Gets(c, h))
        BY <4>1 DEF Gets, ServerTyping
      <4>3. client'[c] = client[c] /\ users'[c] = users[c] /\ executed' = executed /\ ~ serving'
        BY <2>4, <3>15 DEF BroadcastHuge
      <4> QED
        BY <2>1, <3>3, <3>10, <3>11, <4>2, <4>3 DEF Halted
    <3>16. CASE serving' = FALSE /\ UNCHANGED <<inbox, executed>>
      BY <2>1, <2>4, <3>10, <3>11, <3>16 DEF Halted
    <3> QED
      BY <2>4, <3>14, <3>15, <3>16
  <2> QED
    BY <1>8, <2>2, <2>3, <2>4 DEF run_remote_shared_cmd
<1> QED
  BY <1>1, <1>2, <1>3, <1>4, <1>5, <1>6, <1>7, <1>8 DEF ServerNext

(* Its own steps.  Outside a shared shell and not on the way into one.     *)
Outside(c) ==
    /\ client[c].receiver = "none" /\ client'[c].receiver = "none"
    /\ client[c].main \notin {"login_reply", "path_reply", "crashed"}
    /\ client'[c].main \notin {"login_reply", "path_reply", "exited"}
    /\ ~ client'[c].clean

Plain(c) ==
    /\ Outside(c)
    /\ Kept(c) \/ \E r \in Requests : r.type \in {"valid", "run", "copy"} /\ Grew(c, r)
    /\ Takes(c)

(* A timeout on the way into one, or a datagram that cannot be decoded.    *)
Stalls(c) ==
    /\ client[c].receiver = "none" /\ client'[c].receiver = "none"
    /\ client[c].main \in {"login_reply", "path_reply"} /\ client'[c].main = "crashed"
    /\ ~ client'[c].clean
    /\ Kept(c) /\ Takes(c)

(* In a shared shell, the start of the loop and the end of a wait.         *)
Idles(c) ==
    /\ client'[c].receiver = client[c].receiver /\ client[c].receiver # "none"
    /\ client[c].main \in {"top", "event_wait"} /\ client'[c].main \in {"top", "input"}
    /\ client'[c].clean = client[c].clean /\ client'[c].timed = client[c].timed
    /\ client'[c].refused = client[c].refused
    /\ client'[c].display_path = client[c].display_path /\ client'[c].held = client[c].held
    /\ Kept(c) /\ inbox'[c] = inbox[c]

Shares(c) == Exit(c) \/ Join(c) \/ LoginReply(c) \/ PathReply(c) \/ SharedCmd(c)

LEMMA SilentKept ==
    ASSUME ServerTyping, NEW c \in Clients, Silent
    PROVE  Kept(c) /\ inbox'[c] = inbox[c] /\ Takes(c)
  BY SameKept DEF Silent, Takes

LEMMA ReceiveKept ==
    ASSUME ServerTyping, NEW c \in Clients, Receive(c)
    PROVE  /\ Kept(c) /\ Takes(c)
           /\ inbox[c] # << >> /\ inbox'[c] = Tail(inbox[c]) /\ Received(c) = Head(inbox[c])
<1>1. packet_queue' = packet_queue /\ inbox[c] # << >> /\ inbox' = [inbox EXCEPT ![c] = Tail(inbox[c])]
  BY DEF Receive
<1>2. inbox'[c] = Tail(inbox[c])
  BY <1>1 DEF ServerTyping
<1> QED
  BY <1>1, <1>2, SameKept DEF Takes, Received

LEMMA SendGrows ==
    ASSUME ServerTyping, NEW c \in Clients, NEW type \in RequestTypes, NEW path \in Paths, NEW cmd \in Cmds,
           type = "shared" => cmd \in SharedCmds, Send(Request(c, type, path, cmd))
    PROVE  /\ Request(c, type, path, cmd) \in Requests
           /\ Grew(c, Request(c, type, path, cmd))
           /\ inbox'[c] = inbox[c] /\ Takes(c)
<1>1. Request(c, type, path, cmd) \in Requests /\ Request(c, type, path, cmd).from = c
  BY DEF Request, Requests
<1>2. packet_queue' = Append(packet_queue, Request(c, type, path, cmd)) /\ inbox' = inbox
  BY DEF Send
<1>3. Grew(c, Request(c, type, path, cmd))
  BY <1>1, <1>2, AppendGrows
<1> QED
  BY <1>1, <1>2, <1>3 DEF Takes

LEMMA OutsideSteps ==
    ASSUME TypeInv, NEW c \in Clients,
           \/ Top(c) /\ ~ AtShared(c)
           \/ (MainTimeout(c) \/ DecodeError(c)) /\ client[c].main \notin {"login_reply", "path_reply"}
           \/ MountShared(c) \/ LocalCd(c) \/ LocalRun(c) \/ EnterPrivate(c) \/ CpTimeout(c)
           \/ MountReply(c) \/ CdReply(c) \/ RunReply(c) \/ CpReply(c) \/ CpChunk(c)
           \/ MountPrivate(c) \/ RemoteCd(c) \/ RemoteRun(c) \/ RemoteCp(c)
    PROVE  Outside(c)
<1> USE DEF Outside, ClientType, Mode, AtShared, AtClient, AtPrivate
<1>1. client[c] \in ClientType /\ Mode(c)
  BY DEF TypeInv, ClientTyping
<1>2. \A r : Becomes(c, r) => client'[c] = r
  BY DEF Becomes, TypeInv, ClientTyping
<1>3. CASE Top(c) /\ ~ AtShared(c)
  BY <1>1, <1>2, <1>3 DEF Top, Waits
<1>4. CASE MountShared(c)
  BY <1>1, <1>2, <1>4 DEF MountShared, Typed, Then, Waits
<1>5. CASE LocalCd(c)
  BY <1>1, <1>2, <1>5 DEF LocalCd, Typed, Then, Waits
<1>6. CASE LocalRun(c)
  BY <1>1, <1>2, <1>6 DEF LocalRun, Typed, Then, Waits
<1>7. CASE EnterPrivate(c)
  BY <1>1, <1>2, <1>7 DEF EnterPrivate, Typed, Then, Waits
<1>8. CASE CpTimeout(c)
  BY <1>1, <1>2, <1>8 DEF CpTimeout, Waits
<1>9. CASE (MainTimeout(c) \/ DecodeError(c)) /\ client[c].main \notin {"login_reply", "path_reply"}
  BY <1>1, <1>2, <1>9 DEF MainTimeout, DecodeError, Waits
<1>10. CASE MountReply(c)
  BY <1>1, <1>2, <1>10 DEF MountReply, Waits
<1>11. CASE CdReply(c)
  BY <1>1, <1>2, <1>11 DEF CdReply, Waits
<1>12. CASE RunReply(c)
  BY <1>1, <1>2, <1>12 DEF RunReply, Waits
<1>13. CASE CpReply(c)
  BY <1>1, <1>2, <1>13 DEF CpReply, Waits
<1>14. CASE CpChunk(c)
  BY <1>1, <1>2, <1>14 DEF CpChunk, Waits
<1>15. CASE MountPrivate(c)
  BY <1>1, <1>2, <1>15 DEF MountPrivate, Typed, Then, Waits
<1>16. CASE RemoteCd(c)
  BY <1>1, <1>2, <1>16 DEF RemoteCd, Typed, Then, Waits
<1>17. CASE RemoteRun(c)
  BY <1>1, <1>2, <1>17 DEF RemoteRun, Typed, Then, Waits
<1>18. CASE RemoteCp(c)
  BY <1>1, <1>2, <1>18 DEF RemoteCp, Typed, Then, Waits
<1> QED
  BY <1>3, <1>4, <1>5, <1>6, <1>7, <1>8, <1>9, <1>10, <1>11, <1>12, <1>13, <1>14, <1>15, <1>16, <1>17, <1>18

LEMMA MainView ==
    ASSUME TypeInv, NEW c \in Clients, MainNext(c)
    PROVE  Plain(c) \/ Stalls(c) \/ Idles(c) \/ Shares(c)
<1>1. client[c] \in ClientType /\ Mode(c) /\ Below(c) /\ ServerTyping
  BY DEF TypeInv, ClientTyping
<1>2. << >> \in Paths /\ None \in Cmds
  BY DEF Paths, Cmds
<1>3. \A r : Becomes(c, r) => client'[c] = r
  BY DEF Becomes, TypeInv, ClientTyping
<1>4. ASSUME Outside(c), \/ Silent \/ Receive(c)
                        \/ \E type \in {"valid", "run", "copy"}, path \in Paths, cmd \in Cmds :
                              Send(Request(c, type, path, cmd))
      PROVE  Plain(c)
  <2>1. CASE Silent
    BY <1>1, <1>4, <2>1, SilentKept DEF Plain
  <2>2. CASE Receive(c)
    BY <1>1, <1>4, <2>2, ReceiveKept DEF Plain
  <2>3. CASE \E type \in {"valid", "run", "copy"}, path \in Paths, cmd \in Cmds :
               Send(Request(c, type, path, cmd))
    <3>1. PICK type \in {"valid", "run", "copy"}, path \in Paths, cmd \in Cmds :
                 Send(Request(c, type, path, cmd))
      BY <2>3
    <3>2. type \in RequestTypes /\ type # "shared" /\ Request(c, type, path, cmd).type = type
      BY DEF RequestTypes, Request
    <3>3. Request(c, type, path, cmd) \in Requests /\ Grew(c, Request(c, type, path, cmd)) /\ Takes(c)
      BY <1>1, <3>1, <3>2, SendGrows
    <3> QED
      BY <1>4, <3>2, <3>3 DEF Plain
  <2> QED
    BY <1>4, <2>1, <2>2, <2>3
<1>5. CASE \/ Top(c) /\ ~ AtShared(c)
           \/ MountShared(c) \/ LocalCd(c) \/ LocalRun(c) \/ EnterPrivate(c) \/ CpTimeout(c)
           \/ MainTimeout(c) /\ client[c].main \notin {"login_reply", "path_reply"}
  <2>1. Outside(c)
    BY <1>5, OutsideSteps
  <2>2. Silent
    BY <1>5 DEF Top, MountShared, LocalCd, LocalRun, EnterPrivate, CpTimeout, MainTimeout
  <2> QED
    BY <1>4, <2>1, <2>2
<1>6. CASE \/ MountReply(c) \/ CdReply(c) \/ RunReply(c) \/ CpReply(c) \/ CpChunk(c)
           \/ DecodeError(c) /\ client[c].main \notin {"login_reply", "path_reply"}
  <2>1. Outside(c)
    BY <1>6, OutsideSteps
  <2>2. Receive(c)
    BY <1>6 DEF MountReply, CdReply, RunReply, CpReply, CpChunk, DecodeError
  <2> QED
    BY <1>4, <2>1, <2>2
<1>7. CASE MountPrivate(c) \/ RemoteCd(c) \/ RemoteRun(c) \/ RemoteCp(c)
  <2>1. Outside(c)
    BY <1>7, OutsideSteps
  <2>2. CASE MountPrivate(c)
    <3>1. PICK b \in Bases : Send(Request(c, "valid", b, None))
      BY <2>2 DEF MountPrivate
    <3>2. b \in Paths
      BY ClientAssumption DEF Normal, Paths
    <3> QED
      BY <1>2, <1>4, <2>1, <3>1, <3>2
  <2>3. CASE RemoteCd(c)
    <3>1. PICK name \in Names : \/ Send(Request(c, "valid", Walk(client[c].display_path.path, name), None))
                                \/ Silent
      BY <2>3 DEF RemoteCd
    <3>2. Walk(client[c].display_path.path, name) \in Paths
      BY <1>1, <2>3, WalkTyped, ClientAssumption DEF RemoteCd, Below
    <3> QED
      BY <1>2, <1>4, <2>1, <3>1, <3>2
  <2>4. CASE RemoteRun(c)
    <3>1. PICK p \in Programs : Send(Request(c, "run", client[c].display_path.path, p))
      BY <2>4 DEF RemoteRun
    <3>2. client[c].display_path.path \in Paths /\ p \in Cmds
      BY <1>1, <2>4 DEF RemoteRun, Below, Cmds
    <3> QED
      BY <1>4, <2>1, <3>1, <3>2
  <2>5. CASE RemoteCp(c)
    <3>1. PICK f \in CopyNames : Send(Request(c, "copy", Walk(client[c].display_path.path, f), None))
      BY <2>5 DEF RemoteCp
    <3>2. client[c].display_path.path \in Paths
      BY <1>1, <2>5 DEF RemoteCp, Below
    <3>3. Walk(client[c].display_path.path, f) \in Paths
      BY <3>2, WalkTyped, ClientAssumption
    <3> QED
      BY <1>2, <1>4, <2>1, <3>1, <3>3
  <2> QED
    BY <1>7, <2>2, <2>3, <2>4, <2>5
<1>8. CASE Top(c) /\ AtShared(c)
  <2>1. Kept(c) /\ inbox'[c] = inbox[c]
    BY <1>1, <1>8, SilentKept DEF Top
  <2> QED
    BY <1>1, <1>3, <1>8, <2>1 DEF Top, Idles, ClientType, Mode
<1>9. CASE EventWait(c)
  <2>1. Kept(c) /\ inbox'[c] = inbox[c]
    BY <1>1, <1>9, SilentKept DEF EventWait
  <2> QED
    BY <1>1, <1>3, <1>9, <2>1 DEF EventWait, Idles, ClientType, Mode
<1>10. CASE (MainTimeout(c) \/ DecodeError(c)) /\ client[c].main \in {"login_reply", "path_reply"}
  <2>1. Kept(c) /\ Takes(c)
    BY <1>1, <1>10, SilentKept, ReceiveKept DEF MainTimeout, DecodeError
  <2> QED
    BY <1>1, <1>3, <1>10, <2>1 DEF MainTimeout, DecodeError, Stalls, ClientType, Mode, AtShared, AtClient
<1> QED
  BY <1>5, <1>6, <1>7, <1>8, <1>9, <1>10 DEF MainNext, Shares

(* Under a restart at worst, every step is one of these.                   *)
StepView(c) ==
    \/ Elsewhere(c) \/ Answered(c) \/ Broadcasted(c) \/ Halted(c) \/ Chunked(c)
    \/ Restart /\ Restarted(c)
    \/ /\ MainNext(c) \/ ReceiverNext(c)
       /\ users'[c] = users[c] /\ cwd' = cwd /\ executed' = executed /\ serving' = serving
       /\ SendingTo(c)' <=> SendingTo(c)

LEMMA ReliableStays ==
    ASSUME TypeInv, [Next]_vars, Reliable'
    PROVE  Reliable /\ ~ Lose /\ ~ Duplicate
<1>1. ASSUME NEW kind, faults' = Append(faults, kind)
      PROVE  Reliable /\ kind = "restart"
  <2>1. /\ faults \in Seq(Faults \cup {kind}) /\ kind \in Faults \cup {kind}
    BY SeqMonotonic DEF TypeInv, ServerTyping
  <2>2. /\ Len(faults) \in Nat /\ DOMAIN faults = 1 .. Len(faults)
        /\ DOMAIN faults' = 1 .. Len(faults) + 1
        /\ faults'[Len(faults) + 1] = kind
        /\ \A i \in 1 .. Len(faults) : faults'[i] = faults[i]
    BY <1>1, <2>1, AppendProperties
  <2> QED
    BY <2>2 DEF Reliable
<1>2. CASE faults' = faults
  <2>1. Reliable
    BY <1>2 DEF Reliable
  <2>2. \A kind : ~ Fault(kind)
    <3>1. Len(faults) \in Nat
      BY DEF TypeInv, ServerTyping
    <3>2. ASSUME NEW kind, Fault(kind) PROVE FALSE
      <4>1. faults' = Append(faults, kind) /\ kind \in Faults
        BY <3>2 DEF Fault
      <4>2. Len(faults') = Len(faults) + 1
        BY <4>1, AppendProperties DEF TypeInv, ServerTyping
      <4> QED
        BY <1>2, <3>1, <4>2
    <3> QED
      BY <3>2
  <2> QED
    BY <2>1, <2>2 DEF Lose, Duplicate
<1>3. CASE faults' # faults
  <2>1. EnvironmentNext
    BY <1>3 DEF Next, vars, ServerNext, MainNext, ReceiverNext, Handle, remote_login, remote_logout, valid_remote_path,
                run_remote_cmd, remote_copy_file, send_chunk, get_remote_path, run_remote_shared_cmd
  <2>2. PICK kind : faults' = Append(faults, kind)
    BY <2>1 DEF EnvironmentNext, Lose, Duplicate, Restart, Fault
  <2>3. Reliable
    BY <1>1, <2>2
  <2>4. ~ Lose
    BY <1>1 DEF Lose, Fault
  <2>5. ~ Duplicate
    BY <1>1 DEF Duplicate, Fault
  <2> QED
    BY <2>3, <2>4, <2>5
<1> QED
  BY <1>2, <1>3

LEMMA ViewOfStep ==
    ASSUME TypeInv, [Next]_vars, Reliable', NEW c \in Clients
    PROVE  Reliable /\ StepView(c)
<1>1. Reliable /\ ~ Lose /\ ~ Duplicate
  BY ReliableStays
<1>2. CASE ServerNext /\ UNCHANGED client
  BY <1>1, <1>2, ServerView DEF StepView
<1>3. CASE EnvironmentNext /\ UNCHANGED client
  <2>1. Restart /\ UNCHANGED client
    BY <1>1, <1>3 DEF EnvironmentNext
  <2>2. Restarted(c)
    BY <2>1 DEF Restart, Restarted, Asked, SendingTo
  <2> QED
    BY <1>1, <2>1, <2>2 DEF StepView
<1>4. ASSUME NEW d \in Clients, MainNext(d) \/ ReceiverNext(d)
      PROVE  StepView(c)
  <2>1. UNCHANGED <<users, cwd, serving, sending, executed, faults>>
    BY <1>4 DEF MainNext, ReceiverNext
  <2>2. CASE d = c
    BY <1>4, <2>1, <2>2 DEF StepView, SendingTo
  <2>3. CASE d # c
    <3>1. Sends(d) /\ Takes(d)
      BY <1>4, ClientQueues
    <3>2. Kept(c)
      <4>1. CASE packet_queue' = packet_queue
        BY <4>1, SameKept DEF TypeInv
      <4>2. CASE \E r \in Requests : r.from = d /\ packet_queue' = Append(packet_queue, r)
        BY <2>3, <4>2, AppendGrows DEF TypeInv
      <4> QED
        BY <3>1, <4>1, <4>2 DEF Sends
    <3>3. inbox'[c] = inbox[c]
      BY <2>3, <3>1 DEF Takes, TypeInv, ServerTyping
    <3>4. client'[c] = client[c]
      <4>1. \A r : Becomes(d, r) => client'[c] = client[c]
        BY <2>3 DEF Becomes, TypeInv, ClientTyping
      <4>2. \E r : Becomes(d, r)
        BY <1>4 DEF MainNext, ReceiverNext, Top, Exit, MountShared, MountPrivate, MountReply, LocalCd, LocalRun, Join,
                    LoginReply, PathReply, EnterPrivate, RemoteCd, CdReply, RemoteRun, RunReply, RemoteCp, CpReply,
                    CpChunk, CpTimeout, MainTimeout, DecodeError, SharedCmd, EventWait, ReceiveHeader,
                    ReceiveOutput, Update, ReceiverTimeout
      <4> QED
        BY <4>1, <4>2
    <3> QED
      BY <2>1, <3>2, <3>3, <3>4 DEF StepView, Elsewhere, SendingTo
  <2> QED
    BY <2>2, <2>3
<1>5. CASE UNCHANGED vars
  <2>1. Kept(c)
    BY <1>5, SameKept DEF vars, serverVars, TypeInv
  <2> QED
    BY <1>1, <1>5, <2>1 DEF vars, serverVars, StepView, Elsewhere, SendingTo
<1> QED
  BY <1>1, <1>2, <1>3, <1>4, <1>5 DEF Next

(* The steps into a shared shell, and those in it and out of it.           *)
LEMMA RequestParts ==
    /\ << >> \in Paths /\ None \in Cmds /\ SharedCmds \subseteq Cmds
    /\ {"login", "logout", "path", "shared"} \subseteq RequestTypes
  BY DEF Paths, Cmds, RequestTypes

LEMMA JoinView ==
    ASSUME TypeInv, NEW c \in Clients, Join(c)
    PROVE  /\ client[c].main = "input" /\ client[c].receiver = "none"
           /\ client'[c].main = "login_reply" /\ client'[c].receiver = "none" /\ ~ client'[c].clean
           /\ inbox'[c] = inbox[c]
           /\ \E r \in Requests : r.type = "login" /\ Grew(c, r)
<1>1. client[c] \in ClientType /\ Mode(c) /\ ServerTyping
  BY DEF TypeInv, ClientTyping
<1>2. client'[c] = Then(c, "login_reply")
  BY DEF Join, Becomes, TypeInv, ClientTyping
<1>3. Request(c, "login", << >>, None) \in Requests /\ Grew(c, Request(c, "login", << >>, None)) /\ inbox'[c] = inbox[c]
  <2>1. Send(Request(c, "login", << >>, None))
    BY DEF Join
  <2> QED
    BY <1>1, <2>1, SendGrows, RequestParts
<1>4. Request(c, "login", << >>, None).type = "login"
  BY DEF Request
<1>5. /\ client[c].main = "input" /\ client[c].receiver = "none"
      /\ client'[c].main = "login_reply" /\ client'[c].receiver = "none" /\ ~ client'[c].clean
  BY <1>1, <1>2 DEF Join, Typed, Then, ClientType, Mode, AtShared, AtClient
<1> QED
  BY <1>3, <1>4, <1>5

LEMMA LoginReplyView ==
    ASSUME TypeInv, NEW c \in Clients, LoginReply(c)
    PROVE  /\ client[c].main = "login_reply" /\ client[c].receiver = "none"
           /\ client'[c].main = "path_reply" /\ client'[c].receiver = "none" /\ ~ client'[c].clean
           /\ client'[c].refused = ~ IsYes(Head(inbox[c]))
           /\ inbox[c] # << >> /\ inbox'[c] = Tail(inbox[c])
           /\ \E r \in Requests : r.type = "path" /\ Grew(c, r)
<1>1. client[c] \in ClientType /\ Mode(c) /\ ServerTyping
  BY DEF TypeInv, ClientTyping
<1> DEFINE no == ~ IsYes(Head(inbox[c]))
<1>2. client'[c] = [client[c] EXCEPT !.main = "path_reply", !.refused = no]
  BY DEF LoginReply, Becomes, Received, TypeInv, ClientTyping
<1>3. Request(c, "path", << >>, None) \in Requests /\ Request(c, "path", << >>, None).from = c
      /\ Request(c, "path", << >>, None).type = "path"
  BY DEF Request, Requests, RequestTypes, Paths, Cmds
<1>4. Grew(c, Request(c, "path", << >>, None))
  BY <1>1, <1>3, AppendGrows DEF LoginReply
<1>5. inbox[c] # << >> /\ inbox'[c] = Tail(inbox[c])
  BY <1>1 DEF LoginReply, Decodes, ServerTyping
<1> HIDE DEF no
<1>6. /\ client[c].main = "login_reply" /\ client[c].receiver = "none"
      /\ client'[c].main = "path_reply" /\ client'[c].receiver = "none" /\ ~ client'[c].clean
  BY <1>1, <1>2 DEF LoginReply, ClientType, Mode, AtShared, AtClient
<1>7. client'[c].refused = no
  BY <1>1, <1>2 DEF ClientType
<1> QED
  BY <1>3, <1>4, <1>5, <1>6, <1>7 DEF no

LEMMA PathReplyView ==
    ASSUME TypeInv, NEW c \in Clients, PathReply(c)
    PROVE  /\ client[c].main = "path_reply" /\ client[c].receiver = "none"
           /\ client'[c].main = "top" /\ client'[c].receiver = "first"
           /\ client'[c].display_path = Head(inbox[c]) /\ client'[c].clean = (Head(inbox[c]).kind = "path")
           /\ client'[c].refused = client[c].refused
           /\ inbox[c] # << >> /\ inbox'[c] = Tail(inbox[c])
           /\ Kept(c)
<1>1. client[c] \in ClientType /\ Mode(c) /\ ServerTyping
  BY DEF TypeInv, ClientTyping
<1> DEFINE t == Received(c)
<1>2. Kept(c) /\ inbox[c] # << >> /\ inbox'[c] = Tail(inbox[c]) /\ t = Head(inbox[c])
  BY <1>1, ReceiveKept DEF PathReply
<1>3. client'[c] = [client[c] EXCEPT !.display_path = t, !.clean = (t.kind = "path"), !.is_client_shell = FALSE,
                                     !.receiver = "first", !.main = "top"]
  BY DEF PathReply, Becomes, TypeInv, ClientTyping
<1> HIDE DEF t
<1>4. client[c].main = "path_reply" /\ client[c].receiver = "none"
  BY <1>1 DEF PathReply, Mode, AtShared, AtClient
<1>5. /\ client'[c].main = "top" /\ client'[c].receiver = "first"
      /\ client'[c].display_path = t /\ client'[c].clean = (t.kind = "path")
      /\ client'[c].refused = client[c].refused
  BY <1>1, <1>3 DEF ClientType
<1> QED
  BY <1>2, <1>4, <1>5

(* What the receive loop works with is left alone.                         *)
SameLoop(c) ==
    /\ client'[c].receiver = client[c].receiver /\ client'[c].clean = client[c].clean
    /\ client'[c].display_path = client[c].display_path /\ client'[c].held = client[c].held
    /\ client'[c].timed = client[c].timed /\ client'[c].refused = client[c].refused
    /\ inbox'[c] = inbox[c]

LEMMA ExitView ==
    ASSUME TypeInv, NEW c \in Clients, Exit(c)
    PROVE  /\ client[c].main = "input" /\ SameLoop(c)
           /\ \/ client'[c].main = "exited" /\ \E r \in Requests : r.type = "logout" /\ Grew(c, r)
              \/ client'[c].main = "exited" /\ client[c].receiver = "none" /\ Kept(c)
              \/ client'[c].main = "crashed" /\ Kept(c)
<1>1. client[c] \in ClientType /\ Mode(c) /\ ServerTyping
  BY DEF TypeInv, ClientTyping
<1>2. \A r : Becomes(c, r) => client'[c] = r
  BY DEF Becomes, TypeInv, ClientTyping
<1>3. client[c].main = "input"
  BY DEF Exit, Typed
<1>4. CASE Send(Request(c, "logout", << >>, None)) /\ Becomes(c, Then(c, "exited"))
  <2>1. /\ Request(c, "logout", << >>, None) \in Requests /\ Grew(c, Request(c, "logout", << >>, None))
        /\ inbox'[c] = inbox[c]
    BY <1>1, <1>4, SendGrows, RequestParts
  <2>2. Request(c, "logout", << >>, None).type = "logout"
    BY DEF Request
  <2>3. SameLoop(c) /\ client'[c].main = "exited"
    BY <1>1, <1>2, <1>4, <2>1 DEF SameLoop, Then, ClientType
  <2> QED
    BY <1>3, <2>1, <2>2, <2>3
<1>5. CASE Silent /\ Becomes(c, Then(c, "crashed"))
  <2>1. Kept(c) /\ inbox'[c] = inbox[c]
    BY <1>1, <1>5, SilentKept
  <2> QED
    BY <1>1, <1>2, <1>3, <1>5, <2>1 DEF SameLoop, Then, ClientType
<1>6. CASE ~ client[c].is_shared_shell /\ Silent /\ Becomes(c, Then(c, "exited"))
  <2>1. Kept(c) /\ inbox'[c] = inbox[c]
    BY <1>1, <1>6, SilentKept
  <2>2. client[c].receiver = "none"
    BY <1>1, <1>6 DEF Mode, AtShared
  <2> QED
    BY <1>1, <1>2, <1>3, <1>6, <2>1, <2>2 DEF SameLoop, Then, ClientType
<1> QED
  BY <1>4, <1>5, <1>6 DEF Exit

LEMMA SharedCmdView ==
    ASSUME TypeInv, NEW c \in Clients, SharedCmd(c)
    PROVE  /\ client[c].main = "input" /\ client[c].receiver # "none"
           /\ client'[c].main = "event_wait" /\ SameLoop(c)
           /\ \E r \in Requests : r.type = "shared" /\ Grew(c, r)
<1>1. client[c] \in ClientType /\ Mode(c) /\ ServerTyping
  BY DEF TypeInv, ClientTyping
<1>2. client'[c] = [Then(c, "event_wait") EXCEPT !.send_shared_cmd = TRUE]
  BY DEF SharedCmd, Becomes, TypeInv, ClientTyping
<1>3. PICK cmd \in SharedCommands : Typed(c, cmd.op) /\ Send(Request(c, "shared", << >>, cmd))
  BY DEF SharedCmd
<1>4. cmd \in SharedCmds
  BY DEF SharedCommands, SharedCmds
<1>5. /\ Request(c, "shared", << >>, cmd) \in Requests /\ Grew(c, Request(c, "shared", << >>, cmd))
      /\ inbox'[c] = inbox[c]
  BY <1>1, <1>3, <1>4, SendGrows, RequestParts
<1>6. Request(c, "shared", << >>, cmd).type = "shared"
  BY DEF Request
<1>7. client[c].main = "input" /\ client[c].receiver # "none"
  BY <1>1, <1>3 DEF SharedCmd, Typed, Mode
<1>8. client'[c].main = "event_wait" /\ SameLoop(c)
  BY <1>1, <1>2, <1>5 DEF SameLoop, Then, ClientType
<1> QED
  BY <1>5, <1>6, <1>7, <1>8

LEMMA ReceiverView ==
    ASSUME TypeInv, NEW c \in Clients, ReceiverNext(c)
    PROVE  /\ client[c].receiver # "none" /\ client'[c].receiver # "none"
           /\ client'[c].main = client[c].main /\ client'[c].clean = client[c].clean
           /\ client'[c].timed = client[c].timed /\ client'[c].refused = client[c].refused
           /\ Kept(c) /\ Takes(c)
<1>1. client[c] \in ClientType /\ ServerTyping
  BY DEF TypeInv, ClientTyping
<1>2. \A r : Becomes(c, r) => client'[c] = r
  BY DEF Becomes, TypeInv, ClientTyping
<1>3. Kept(c) /\ Takes(c)
  BY <1>1, SilentKept, ReceiveKept DEF ReceiverNext, ReceiveHeader, ReceiveOutput, Update, ReceiverTimeout
<1> DEFINE t == Received(c)
           w == FirstWord(client[c].held)
<1>4. CASE ReceiveHeader(c)
  <2>1. \/ client'[c] = [client[c] EXCEPT !.held = t, !.receiver = "second"]
        \/ \E end \in {"dead", "undecoded"} : client'[c] = [client[c] EXCEPT !.receiver = end]
    BY <1>2, <1>4 DEF ReceiveHeader
  <2> HIDE DEF t
  <2> QED
    BY <1>1, <1>3, <1>4, <2>1 DEF ReceiveHeader, ClientType
<1>5. CASE ReceiveOutput(c)
  BY <1>1, <1>2, <1>3, <1>5 DEF ReceiveOutput, ClientType
<1>6. CASE Update(c)
  <2>1. client'[c] = [client[c] EXCEPT !.display_path = w, !.send_shared_cmd = FALSE, !.event = TRUE,
                                       !.held = None, !.receiver = "first"]
    BY <1>2, <1>6 DEF Update
  <2> HIDE DEF w
  <2> QED
    BY <1>1, <1>3, <1>6, <2>1 DEF Update, ClientType
<1>7. CASE ReceiverTimeout(c)
  BY <1>1, <1>2, <1>3, <1>7 DEF ReceiverTimeout, ClientType
<1> QED
  BY <1>4, <1>5, <1>6, <1>7 DEF ReceiverNext

LEMMA AskedNext ==
    ASSUME TypeInv', NEW c \in Clients
    PROVE  \A i \in Asked(c)' : i \in Nat \ {0} /\ packet_queue'[i] \in Requests
<1>1. packet_queue' \in Seq(Requests)
  BY DEF TypeInv, ServerTyping
<1> QED
  BY <1>1, ElementOfSeq DEF Asked

-------------------------------------------------------------------------------
(* Rows of the users table. *)

(* The client has not begun to join a shared shell: it joins once only.    *)
Fresh(c) ==
    /\ client[c].receiver = "none"
    /\ client[c].main \notin {"login_reply", "path_reply", "crashed"}

(* A client has at most one row, or one login on its way; once it has      *)
(* exited a logout is behind, unless one has stopped the server.           *)
Rows(c) ==
    /\ Fresh(c) => users[c] = 0 /\ AskedFor(c, "login") = {}
    /\ users[c] <= 1
    /\ users[c] > 0 => AskedFor(c, "login") = {}
    /\ \A i, j \in AskedFor(c, "login") : i = j
    /\ client[c].main = "exited" =>
          /\ \A i \in AskedFor(c, "login") : \E j \in AskedFor(c, "logout") : i < j
          /\ users[c] > 0 /\ serving => AskedFor(c, "logout") # {}

RowsInv == Reliable => \A c \in Clients : Rows(c)

(* The requests of these types stay as they are, but for the places.       *)
Undisturbed(c, types) ==
    \E k \in {0, 1} : \A t \in types :
        /\ \A i \in AskedFor(c, t) : i - k \in AskedFor(c, t)'
        /\ \A i \in AskedFor(c, t)' : i + k \in AskedFor(c, t)

LEMMA RequestsUndisturbed ==
    ASSUME TypeInv, TypeInv', NEW c \in Clients, NEW types,
           \/ Kept(c)
           \/ \E r : r.type \notin types /\ Grew(c, r)
           \/ Shrank(c) /\ packet_queue[1].type \notin types
    PROVE  Undisturbed(c, types)
<1>1. \A i \in Asked(c) : i \in Nat
  BY QueueFacts DEF TypeInv
<1>2. \A i \in Asked(c)' : i \in Nat
  BY AskedNext
<1>3. CASE Kept(c)
  <2>1. PICK k \in {0, 1} :
          /\ \A i \in Asked(c) : i - k \in Asked(c)' /\ packet_queue'[i - k] = packet_queue[i]
          /\ \A i \in Asked(c)' : i + k \in Asked(c) /\ packet_queue'[i] = packet_queue[i + k]
    BY <1>3 DEF Kept
  <2>2. \A t : /\ \A i \in AskedFor(c, t) : i - k \in AskedFor(c, t)'
               /\ \A i \in AskedFor(c, t)' : i + k \in AskedFor(c, t)
    BY <2>1 DEF AskedFor
  <2> QED
    BY <2>2 DEF Undisturbed
<1>4. CASE \E r : r.type \notin types /\ Grew(c, r)
  <2>1. \A t \in types : AskedFor(c, t)' = AskedFor(c, t)
    BY <1>4 DEF Grew, AskedFor
  <2>2. \A t \in types : \A i \in AskedFor(c, t) : i - 0 = i /\ i + 0 = i
    BY <1>1 DEF AskedFor
  <2>3. \A t \in types : /\ \A i \in AskedFor(c, t) : i - 0 \in AskedFor(c, t)'
                         /\ \A i \in AskedFor(c, t)' : i + 0 \in AskedFor(c, t)
    BY <2>1, <2>2
  <2> QED
    BY <2>3 DEF Undisturbed
<1>5. CASE Shrank(c) /\ packet_queue[1].type \notin types
  <2>1. \A t \in types : \A i \in AskedFor(c, t) : i # 1
    BY <1>5 DEF AskedFor
  <2>2. \A t \in types : /\ \A i \in AskedFor(c, t) : i - 1 \in AskedFor(c, t)'
                         /\ \A i \in AskedFor(c, t)' : i + 1 \in AskedFor(c, t)
    BY <1>5, <2>1 DEF Shrank, AskedFor
  <2> QED
    BY <2>2 DEF Undisturbed
<1> QED
  BY <1>3, <1>4, <1>5

LEMMA RowsKept ==
    ASSUME TypeInv, TypeInv', NEW c \in Clients, Rows(c), Undisturbed(c, {"login", "logout"}),
           users'[c] = 0 \/ (users'[c] = users[c] /\ (serving' => serving)),
           Fresh(c)' => Fresh(c), client'[c].main = "exited" => client[c].main = "exited"
    PROVE  Rows(c)'
<1>1. \A i \in Asked(c) : i \in Nat
  BY QueueFacts DEF TypeInv
<1>2. \A i \in Asked(c)' : i \in Nat
  BY AskedNext
<1>3. users[c] \in Nat
  BY DEF TypeInv, ServerTyping
<1>4. PICK k \in {0, 1} : \A t \in {"login", "logout"} :
               /\ \A i \in AskedFor(c, t) : i - k \in AskedFor(c, t)'
               /\ \A i \in AskedFor(c, t)' : i + k \in AskedFor(c, t)
  BY DEF Undisturbed
<1>5. \A t \in {"login", "logout"} : /\ AskedFor(c, t) = {} => AskedFor(c, t)' = {}
                                     /\ AskedFor(c, t) # {} => AskedFor(c, t)' # {}
  BY <1>4
<1>6. \A i, j \in AskedFor(c, "login")' : i = j
  <2>1. ASSUME NEW i \in AskedFor(c, "login")', NEW j \in AskedFor(c, "login")' PROVE i = j
    <3>1. i + k = j + k
      BY <1>4 DEF Rows
    <3> QED
      BY <3>1, <1>2 DEF AskedFor
  <2> QED
    BY <2>1
<1>7. client'[c].main = "exited" =>
        \A i \in AskedFor(c, "login")' : \E j \in AskedFor(c, "logout")' : i < j
  <2>1. ASSUME client[c].main = "exited", NEW i \in AskedFor(c, "login")'
        PROVE  \E j \in AskedFor(c, "logout")' : i < j
    <3>1. PICK j \in AskedFor(c, "logout") : i + k < j
      BY <1>4, <2>1 DEF Rows
    <3>2. j - k \in AskedFor(c, "logout")'
      BY <1>4, <3>1
    <3>3. i < j - k
      BY <1>1, <1>2, <3>1 DEF AskedFor
    <3> QED
      BY <3>2, <3>3
  <2> QED
    BY <2>1
<1> QED
  BY <1>3, <1>5, <1>6, <1>7 DEF Rows

LEMMA RowsAnswered ==
    ASSUME TypeInv, TypeInv', NEW c \in Clients, Rows(c), Answered(c)
    PROVE  Rows(c)'
<1>1. \A i \in Asked(c) : i \in Nat \ {0}
  BY QueueFacts DEF TypeInv
<1>2. \A i \in Asked(c)' : i \in Nat \ {0}
  BY AskedNext
<1>3. users[c] \in Nat
  BY DEF TypeInv, ServerTyping
<1>4. client'[c] = client[c] /\ Shrank(c)
  BY DEF Answered
<1>5. \A t : \A i \in AskedFor(c, t)' : i + 1 \in AskedFor(c, t)
  BY <1>4 DEF Shrank, AskedFor
<1>6. \A t : \A i \in AskedFor(c, t) : i = 1 \/ i - 1 \in AskedFor(c, t)'
  BY <1>4 DEF Shrank, AskedFor
<1>7. CASE packet_queue[1].type \notin {"login", "logout"}
  <2>1. Undisturbed(c, {"login", "logout"})
    BY <1>4, <1>7, RequestsUndisturbed
  <2>2. users'[c] = users[c] /\ (serving' => serving)
    BY <1>7 DEF Answered
  <2> QED
    BY <1>4, <2>1, <2>2, RowsKept DEF Fresh
<1>8. CASE packet_queue[1].type = "login"
  <2>1. 1 \in AskedFor(c, "login") /\ users[c] = 0 /\ users'[c] \in {0, 1} /\ ~ Fresh(c)
    <3>1. 1 \in AskedFor(c, "login")
      BY <1>4, <1>8 DEF Shrank, AskedFor
    <3>2. users[c] = 0 /\ ~ Fresh(c)
      BY <1>3, <3>1 DEF Rows
    <3>3. users'[c] = users[c] \/ users'[c] = users[c] + 1
      BY <1>8 DEF Answered
    <3> QED
      BY <3>1, <3>2, <3>3
  <2>2. AskedFor(c, "login")' = {}
    <3>1. ASSUME NEW i \in AskedFor(c, "login")' PROVE FALSE
      <4>1. i + 1 = 1
        BY <1>5, <2>1 DEF Rows
      <4> QED
        BY <1>2, <4>1 DEF AskedFor
    <3> QED
      BY <3>1
  <2>3. client[c].main = "exited" => AskedFor(c, "logout")' # {}
    BY <1>6, <2>1 DEF Rows
  <2> QED
    BY <1>4, <2>1, <2>2, <2>3 DEF Rows, Fresh
<1>9. CASE packet_queue[1].type = "logout"
  <2>1. users'[c] = 0 \/ (users'[c] = users[c] /\ ~ serving')
    BY <1>9 DEF Answered
  <2>6. users[c] > 0 => AskedFor(c, "login")' = {}
    BY <1>5 DEF Rows
  <2>2. 1 \notin AskedFor(c, "login")
    BY <1>9 DEF AskedFor
  <2>3. Fresh(c) => AskedFor(c, "login")' = {}
    BY <1>5 DEF Rows
  <2>4. ASSUME NEW i \in AskedFor(c, "login")', NEW j \in AskedFor(c, "login")' PROVE i = j
    <3>1. i + 1 = j + 1
      BY <1>5 DEF Rows
    <3> QED
      BY <3>1, <1>2 DEF AskedFor
  <2>5. ASSUME client[c].main = "exited", NEW i \in AskedFor(c, "login")'
        PROVE  \E j \in AskedFor(c, "logout")' : i < j
    <3>1. PICK j \in AskedFor(c, "logout") : i + 1 < j
      BY <1>5, <2>5 DEF Rows
    <3>2. j # 1
      BY <1>2, <3>1 DEF AskedFor
    <3>3. j - 1 \in AskedFor(c, "logout")'
      BY <1>6, <3>1, <3>2
    <3>4. i < j - 1
      BY <1>1, <1>2, <3>1 DEF AskedFor
    <3> QED
      BY <3>3, <3>4
  <2> QED
    BY <1>3, <1>4, <2>1, <2>3, <2>4, <2>5, <2>6 DEF Rows, Fresh
<1> QED
  BY <1>7, <1>8, <1>9

LEMMA RowsOwn ==
    ASSUME TypeInv, TypeInv', NEW c \in Clients, Rows(c), MainNext(c) \/ ReceiverNext(c)
    PROVE  Rows(c)'
<1>1. users'[c] = users[c] /\ users[c] \in Nat /\ serving' = serving
  BY DEF MainNext, ReceiverNext, TypeInv, ServerTyping
<1>2. \A i \in Asked(c) : i \in Nat \ {0}
  BY QueueFacts DEF TypeInv
<1>3. CASE Plain(c)
  BY <1>1, <1>3, RequestsUndisturbed, RowsKept DEF Plain, Outside, Fresh
<1>4. CASE Stalls(c) \/ Idles(c)
  BY <1>1, <1>4, RequestsUndisturbed, RowsKept DEF Stalls, Idles, Fresh
<1>5. CASE Join(c)
  <2>1. PICK r \in Requests : r.type = "login" /\ Grew(c, r)
    BY <1>5, JoinView
  <2>2. Fresh(c) /\ ~ Fresh(c)' /\ client'[c].main = "login_reply"
    BY <1>5, JoinView DEF Fresh
  <2>3. users[c] = 0 /\ AskedFor(c, "login") = {}
    BY <2>2 DEF Rows
  <2>4. \A i, j \in AskedFor(c, "login")' : i = j
    BY <2>1, <2>3 DEF Grew, AskedFor
  <2> QED
    BY <1>1, <2>2, <2>3, <2>4 DEF Rows
<1>6. CASE LoginReply(c) \/ SharedCmd(c)
  <2>1. Undisturbed(c, {"login", "logout"})
    <3>1. \E r : r.type \notin {"login", "logout"} /\ Grew(c, r)
      BY <1>6, LoginReplyView, SharedCmdView
    <3> QED
      BY <3>1, RequestsUndisturbed
  <2>2. ~ Fresh(c)' /\ client'[c].main # "exited"
    BY <1>6, LoginReplyView, SharedCmdView DEF Fresh, SameLoop
  <2> QED
    BY <1>1, <2>1, <2>2, RowsKept
<1>7. CASE PathReply(c) \/ ReceiverNext(c)
  <2>1. Kept(c)
    BY <1>7, PathReplyView, ReceiverView
  <2>2. Undisturbed(c, {"login", "logout"})
    BY <2>1, RequestsUndisturbed
  <2>3. ~ Fresh(c)' /\ (client'[c].main = "exited" => client[c].main = "exited")
    BY <1>7, PathReplyView, ReceiverView DEF Fresh
  <2> QED
    BY <1>1, <2>2, <2>3, RowsKept
<1>8. CASE Exit(c)
  <2>1. client[c].main = "input" /\ client'[c].receiver = client[c].receiver
    BY <1>8, ExitView DEF SameLoop
  <2>2. CASE client'[c].main = "exited" /\ \E r \in Requests : r.type = "logout" /\ Grew(c, r)
    <3>1. PICK r \in Requests : r.type = "logout" /\ Grew(c, r)
      BY <2>2
    <3>2. AskedFor(c, "login")' = AskedFor(c, "login")
      BY <3>1 DEF Grew, AskedFor
    <3>3. PICK n \in AskedFor(c, "logout")' : \A i \in Asked(c) : i < n
      BY <3>1 DEF Grew, AskedFor
    <3>4. Fresh(c)' => Fresh(c)
      BY <2>1 DEF Fresh
    <3> QED
      BY <1>1, <3>2, <3>3, <3>4 DEF Rows, AskedFor
  <2>3. CASE client'[c].main = "exited" /\ client[c].receiver = "none" /\ Kept(c)
    <3>1. Fresh(c)
      BY <2>1, <2>3 DEF Fresh
    <3>2. users[c] = 0 /\ AskedFor(c, "login") = {}
      BY <3>1 DEF Rows
    <3>3. AskedFor(c, "login")' = {}
      BY <2>3, <3>2, RequestsUndisturbed DEF Undisturbed
    <3> QED
      BY <1>1, <3>2, <3>3 DEF Rows
  <2>4. CASE client'[c].main = "crashed" /\ Kept(c)
    BY <1>1, <2>4, RequestsUndisturbed, RowsKept DEF Fresh
  <2> QED
    BY <1>8, <2>2, <2>3, <2>4, ExitView
<1> QED
  BY <1>3, <1>4, <1>5, <1>6, <1>7, <1>8, MainView DEF Shares

LEMMA RowsStep ==
    ASSUME TypeInv, TypeInv', NEW c \in Clients, Rows(c), StepView(c)
    PROVE  Rows(c)'
<1>1. CASE Elsewhere(c)
  BY <1>1, RequestsUndisturbed, RowsKept DEF Elsewhere, Fresh
<1>2. CASE Broadcasted(c)
  BY <1>2, RequestsUndisturbed, RowsKept DEF Broadcasted, Fresh
<1>5. CASE Halted(c)
  BY <1>5, RequestsUndisturbed, RowsKept DEF Halted, Fresh
<1>3. CASE Chunked(c)
  BY <1>3, RequestsUndisturbed, RowsKept DEF Chunked, Fresh
<1>4. CASE Restarted(c)
  BY <1>4 DEF Restarted, AskedFor, Rows
<1> QED
  BY <1>1, <1>2, <1>3, <1>4, <1>5, RowsAnswered, RowsOwn DEF StepView

LEMMA AlwaysRows == Spec => [](TypeInv /\ RowsInv)
<1>1. Init => TypeInv /\ RowsInv
  <2> SUFFICES ASSUME Init PROVE TypeInv /\ RowsInv
    OBVIOUS
  <2>1. \A c \in Clients : client[c].main # "exited" /\ users[c] = 0 /\ Asked(c) = {}
    BY DEF Init, ServerInit, NewClient, Asked
  <2> QED
    BY <2>1, InitTyped DEF RowsInv, Rows, AskedFor
<1>2. TypeInv /\ RowsInv /\ [Next]_vars => (TypeInv /\ RowsInv)'
  <2> SUFFICES ASSUME TypeInv, RowsInv, [Next]_vars PROVE TypeInv' /\ RowsInv'
    OBVIOUS
  <2>1. TypeInv'
    BY NextTyped
  <2>2. ASSUME Reliable', NEW c \in Clients PROVE Rows(c)'
    BY <2>1, <2>2, ViewOfStep, RowsStep DEF RowsInv
  <2> QED
    BY <2>1, <2>2 DEF RowsInv
<1> QED
  BY <1>1, <1>2, PTL DEF Spec

(* When at worst the server is restarted and the database fails, what      *)
(* happened is reliable.                                                   *)
LEMMA OnlyRestarts ==
    ASSUME Faults \subseteq {"restart", "database"}, TypeInv
    PROVE  Reliable
<1>1. \A i \in DOMAIN faults : faults[i] \in Faults \ {"database"}
  BY ElementOfSeq DEF TypeInv, ServerTyping
<1> QED
  BY <1>1 DEF Reliable

(* Whoever has exited and whose requests are handled gets nothing more, on *)
(* a network that loses and duplicates nothing (server.py:84-86).  A       *)
(* logout that the database refuses keeps the row, but stops the server.   *)
THEOREM NothingToTheDeparted ==
    ASSUME Faults \subseteq {"restart", "database"}
    PROVE  Spec => []DepartedForgotten
<1>1. TypeInv /\ RowsInv => DepartedForgotten
  <2> SUFFICES ASSUME TypeInv, RowsInv, NEW c \in Clients, client[c].main = "exited", serving,
                      \A i \in DOMAIN packet_queue : packet_queue[i].from # c
               PROVE  users[c] = 0
    BY DEF DepartedForgotten
  <2>1. Rows(c)
    BY OnlyRestarts DEF RowsInv
  <2>2. AskedFor(c, "logout") = {}
    BY DEF AskedFor, Asked
  <2> QED
    BY <2>1, <2>2 DEF Rows, TypeInv, ServerTyping
<1> QED
  BY <1>1, AlwaysRows, PTL

-------------------------------------------------------------------------------
(* Pairs.  From its place k on, a box holds the pairs of the commands that *)
(* came after the text t, and if it is that of a member that is served (it *)
(* has a row) up to the last one, which left the server in dir.  When the  *)
(* server has stopped, the first half of a pair may be behind them.        *)

PairsFrom(box, k, t, m) ==
    \A j \in 1 .. m : /\ box[k + 2 * j - 1].kind = "header"
                      /\ box[k + 2 * j - 1].nth = t.nth + j
                      /\ box[k + 2 * j].kind = "output"

HalfPair(box, k, t, m) ==
    /\ Len(box) = k + 2 * m + 1
    /\ box[k + 2 * m + 1].kind = "header"
    /\ box[k + 2 * m + 1].nth = t.nth + m + 1

LastPath(box, k, t, m) == IF m = 0 THEN t.path ELSE box[k + 2 * m - 1].path

Follows(box, k, t, row, dir, count) ==
    \E m \in Nat :
        /\ PairsFrom(box, k, t, m)
        /\ Len(box) = k + 2 * m \/ (row = 0 /\ HalfPair(box, k, t, m))
        /\ row > 0 => t.nth + m = count /\ LastPath(box, k, t, m) = dir

Served(c) == IF serving THEN users[c] ELSE 0

Following(c, k, t) == Follows(inbox[c], k, t, Served(c), cwd, executed)

LEMMA FollowsLess ==
    ASSUME NEW box, NEW k, NEW t, NEW row, NEW dir, NEW count, NEW row2 \in {0, row}, NEW dir2, NEW count2,
           Follows(box, k, t, row, dir, count), row2 = 0 \/ (dir2 = dir /\ count2 = count)
    PROVE  Follows(box, k, t, row2, dir2, count2)
<1>1. PICK m \in Nat : /\ PairsFrom(box, k, t, m)
                       /\ Len(box) = k + 2 * m \/ (row = 0 /\ HalfPair(box, k, t, m))
                       /\ row > 0 => t.nth + m = count /\ LastPath(box, k, t, m) = dir
  BY DEF Follows
<1>2. row2 > 0 => t.nth + m = count2 /\ LastPath(box, k, t, m) = dir2
  <2>1. CASE row2 = 0
    BY <2>1
  <2>2. CASE row2 # 0
    BY <1>1, <2>2
  <2> QED
    BY <2>1, <2>2
<1> QED
  BY <1>1, <1>2 DEF Follows

LEMMA FollowsMore ==
    ASSUME NEW box \in Seq(Texts), NEW k \in Nat, NEW t, t.nth \in Nat, NEW dir, NEW count \in Nat,
           Follows(box, k, t, 1, dir, count),
           NEW box2 \in Seq(Texts), Len(box2) = Len(box) + 2, \A i \in 1 .. Len(box) : box2[i] = box[i],
           box2[Len(box) + 1].kind = "header", box2[Len(box) + 1].nth = count + 1,
           box2[Len(box) + 2].kind = "output"
    PROVE  Follows(box2, k, t, 1, box2[Len(box) + 1].path, count + 1)
<1>1. PICK m \in Nat : PairsFrom(box, k, t, m) /\ Len(box) = k + 2 * m /\ t.nth + m = count
  <2>1. PICK m \in Nat : /\ PairsFrom(box, k, t, m)
                         /\ Len(box) = k + 2 * m \/ (1 = 0 /\ HalfPair(box, k, t, m))
                         /\ 1 > 0 => t.nth + m = count /\ LastPath(box, k, t, m) = dir
    BY DEF Follows
  <2> QED
    BY <2>1
<1>2. Len(box) = k + 2 * m
  BY <1>1
<1>3. Len(box2) = k + 2 * (m + 1) /\ m + 1 \in Nat /\ t.nth + (m + 1) = count + 1
  BY <1>1, <1>2
<1>4. ASSUME NEW j \in 1 .. (m + 1)
      PROVE  /\ box2[k + 2 * j - 1].kind = "header"
             /\ box2[k + 2 * j - 1].nth = t.nth + j
             /\ box2[k + 2 * j].kind = "output"
  <2>1. CASE j = m + 1
    <3>1. k + 2 * j - 1 = Len(box) + 1
      BY <1>2, <2>1
    <3>2. k + 2 * j = Len(box) + 2
      BY <1>2, <2>1
    <3>3. count + 1 = t.nth + j
      BY <1>1, <2>1
    <3> QED
      BY <3>1, <3>2, <3>3
  <2>2. CASE j \in 1 .. m
    <3>1. k + 2 * j - 1 \in 1 .. Len(box) /\ k + 2 * j \in 1 .. Len(box)
      <4>1. j \in Nat /\ 1 <= j /\ j <= m
        BY <2>2
      <4>2. k + 2 * j - 1 \in 1 .. k + 2 * m /\ k + 2 * j \in 1 .. k + 2 * m
        BY <4>1
      <4> QED
        BY <1>2, <4>2
    <3> QED
      BY <1>1, <2>2, <3>1 DEF PairsFrom
  <2> QED
    BY <2>1, <2>2
<1>5. PairsFrom(box2, k, t, m + 1)
  BY <1>4 DEF PairsFrom
<1>6. LastPath(box2, k, t, m + 1) = box2[Len(box) + 1].path
  <2>1. k + 2 * (m + 1) - 1 = Len(box) + 1 /\ m + 1 # 0
    BY <1>2
  <2> QED
    BY <2>1 DEF LastPath
<1> QED
  BY <1>3, <1>5, <1>6 DEF Follows

LEMMA FollowsHalf ==
    ASSUME NEW box \in Seq(Texts), NEW k \in Nat, NEW t, t.nth \in Nat, NEW dir, NEW count \in Nat,
           Follows(box, k, t, 1, dir, count),
           NEW h \in Texts, h.kind = "header", h.nth = count + 1, NEW dir2, NEW count2
    PROVE  Follows(Append(box, h), k, t, 0, dir2, count2)
<1> DEFINE box2 == Append(box, h)
<1>1. PICK m \in Nat : PairsFrom(box, k, t, m) /\ Len(box) = k + 2 * m /\ t.nth + m = count
  <2>1. PICK m \in Nat : /\ PairsFrom(box, k, t, m)
                         /\ Len(box) = k + 2 * m \/ (1 = 0 /\ HalfPair(box, k, t, m))
                         /\ 1 > 0 => t.nth + m = count /\ LastPath(box, k, t, m) = dir
    BY DEF Follows
  <2> QED
    BY <2>1
<1>2. /\ Len(box2) = Len(box) + 1 /\ box2[Len(box) + 1] = h
      /\ \A i \in 1 .. Len(box) : box2[i] = box[i]
  BY AppendProperties
<1> HIDE DEF box2
<1>3. ASSUME NEW j \in 1 .. m
      PROVE  /\ box2[k + 2 * j - 1].kind = "header"
             /\ box2[k + 2 * j - 1].nth = t.nth + j
             /\ box2[k + 2 * j].kind = "output"
  <2>1. k + 2 * j - 1 \in 1 .. k + 2 * m /\ k + 2 * j \in 1 .. k + 2 * m
    OBVIOUS
  <2>2. k + 2 * j - 1 \in 1 .. Len(box) /\ k + 2 * j \in 1 .. Len(box)
    BY <1>1, <2>1
  <2> QED
    BY <1>1, <1>2, <2>2 DEF PairsFrom
<1>4. PairsFrom(box2, k, t, m)
  BY <1>3 DEF PairsFrom
<1>5. HalfPair(box2, k, t, m)
  <2>1. k + 2 * m + 1 = Len(box) + 1
    BY <1>1
  <2> QED
    BY <1>1, <1>2, <2>1 DEF HalfPair
<1>6. Follows(box2, k, t, 0, dir2, count2)
  BY <1>4, <1>5 DEF Follows
<1> QED
  BY <1>6 DEF box2

LEMMA FollowsTail ==
    ASSUME NEW box \in Seq(Texts), NEW k \in Nat \ {0}, NEW t, NEW row, NEW dir, NEW count,
           Follows(box, k, t, row, dir, count)
    PROVE  Follows(Tail(box), k - 1, t, row, dir, count)
<1>1. PICK m \in Nat : /\ PairsFrom(box, k, t, m)
                       /\ Len(box) = k + 2 * m \/ (row = 0 /\ HalfPair(box, k, t, m))
                       /\ row > 0 => t.nth + m = count /\ LastPath(box, k, t, m) = dir
  BY DEF Follows
<1>2. Len(box) \in {k + 2 * m, k + 2 * m + 1}
  BY <1>1 DEF HalfPair
<1>3. Len(box) \in Nat \ {0} /\ box # << >>
  BY <1>2
<1>4. Len(Tail(box)) = Len(box) - 1 /\ \A i \in 1 .. Len(box) - 1 : Tail(box)[i] = box[i + 1]
  BY <1>3, HeadTailProperties
<1>5. ASSUME NEW j \in 1 .. m
      PROVE  Tail(box)[(k - 1) + 2 * j - 1] = box[k + 2 * j - 1] /\ Tail(box)[(k - 1) + 2 * j] = box[k + 2 * j]
  <2>1. /\ (k - 1) + 2 * j - 1 \in 1 .. Len(box) - 1 /\ (k - 1) + 2 * j \in 1 .. Len(box) - 1
        /\ ((k - 1) + 2 * j - 1) + 1 = k + 2 * j - 1 /\ ((k - 1) + 2 * j) + 1 = k + 2 * j
    BY <1>2
  <2> QED
    BY <1>4, <2>1
<1>6. PairsFrom(Tail(box), k - 1, t, m)
  BY <1>1, <1>5 DEF PairsFrom
<1>7. LastPath(Tail(box), k - 1, t, m) = LastPath(box, k, t, m)
  <2>1. m # 0 => m \in 1 .. m
    OBVIOUS
  <2> QED
    BY <1>5, <2>1 DEF LastPath
<1>8. Len(box) = k + 2 * m => Len(Tail(box)) = (k - 1) + 2 * m
  BY <1>4
<1>9. HalfPair(box, k, t, m) => HalfPair(Tail(box), k - 1, t, m)
  <2> SUFFICES ASSUME HalfPair(box, k, t, m)
               PROVE  HalfPair(Tail(box), k - 1, t, m)
    OBVIOUS
  <2>1. Len(box) = k + 2 * m + 1
    BY DEF HalfPair
  <2>2. /\ (k - 1) + 2 * m + 1 \in 1 .. Len(box) - 1 /\ ((k - 1) + 2 * m + 1) + 1 = k + 2 * m + 1
        /\ Len(box) - 1 = (k - 1) + 2 * m + 1
    BY <2>1
  <2> QED
    BY <1>4, <2>2 DEF HalfPair
<1> QED
  BY <1>1, <1>6, <1>7, <1>8, <1>9 DEF Follows

LEMMA FollowsHead ==
    ASSUME NEW box \in Seq(Texts), NEW t, t.nth \in Nat, NEW row, NEW dir, NEW count,
           Follows(box, 0, t, row, dir, count), box # << >>
    PROVE  /\ box[1].kind = "header" /\ box[1].nth = t.nth + 1
           /\ \/ /\ Tail(box) # << >> /\ Tail(box)[1].kind = "output"
                 /\ Follows(Tail(box), 1, box[1], row, dir, count)
              \/ Tail(box) = << >> /\ row = 0
<1>1. PICK m \in Nat : /\ PairsFrom(box, 0, t, m)
                       /\ Len(box) = 0 + 2 * m \/ (row = 0 /\ HalfPair(box, 0, t, m))
                       /\ row > 0 => t.nth + m = count /\ LastPath(box, 0, t, m) = dir
  BY DEF Follows
<1>2. Len(box) \in Nat \ {0}
  BY EmptySeq
<1>3. Len(box) = 2 * m \/ (row = 0 /\ Len(box) = 2 * m + 1 /\ HalfPair(box, 0, t, m))
  BY <1>1 DEF HalfPair
<1>4. CASE m = 0
  <2>1. row = 0 /\ Len(box) = 1 /\ HalfPair(box, 0, t, 0)
    BY <1>2, <1>3, <1>4
  <2>2. Len(Tail(box)) = 0 /\ Tail(box) \in Seq(Texts)
    BY <2>1, HeadTailProperties
  <2>3. 0 + 2 * 0 + 1 = 1 /\ t.nth + 0 + 1 = t.nth + 1
    OBVIOUS
  <2>4. Tail(box) = << >>
    BY <2>2, EmptySeq
  <2> QED
    BY <2>1, <2>3, <2>4 DEF HalfPair
<1> SUFFICES ASSUME m # 0
             PROVE  /\ box[1].kind = "header" /\ box[1].nth = t.nth + 1
                    /\ Tail(box) # << >> /\ Tail(box)[1].kind = "output"
                    /\ Follows(Tail(box), 1, box[1], row, dir, count)
  BY <1>4
<1>5. PICK n \in Nat : m = n + 1
  <2>1. m - 1 \in Nat /\ m = (m - 1) + 1
    OBVIOUS
  <2> QED
    BY <2>1
<1>6. ASSUME NEW j \in 1 .. m
      PROVE  box[2 * j - 1].kind = "header" /\ box[2 * j - 1].nth = t.nth + j /\ box[2 * j].kind = "output"
  <2>1. 0 + 2 * j - 1 = 2 * j - 1 /\ 0 + 2 * j = 2 * j
    OBVIOUS
  <2>2. /\ box[0 + 2 * j - 1].kind = "header"
        /\ box[0 + 2 * j - 1].nth = t.nth + j
        /\ box[0 + 2 * j].kind = "output"
    BY <1>1 DEF PairsFrom
  <2> QED
    BY <2>1, <2>2
<1>7. box[1].kind = "header" /\ box[1].nth = t.nth + 1 /\ box[2].kind = "output"
  <2>1. 1 \in 1 .. m /\ 2 * 1 - 1 = 1 /\ 2 * 1 = 2
    BY <1>5
  <2> QED
    BY <1>6, <2>1
<1>8. /\ Len(Tail(box)) = Len(box) - 1 /\ Tail(box) \in Seq(Texts)
       /\ \A i \in 1 .. Len(box) - 1 : Tail(box)[i] = box[i + 1]
  BY <1>2, HeadTailProperties
<1>9. /\ Len(Tail(box)) \in Nat \ {0} /\ Len(Tail(box)) >= 1 + 2 * n
      /\ \A i \in 1 .. 1 + 2 * n : Tail(box)[i] = box[i + 1]
  <2>1. Len(box) - 1 \in Nat \ {0} /\ Len(box) - 1 >= 1 + 2 * n
    <3>1. Len(box) = 2 * m \/ Len(box) = 2 * m + 1
      BY <1>3
    <3>2. 2 * m = 2 * n + 2
      BY <1>5
    <3>3. Len(box) - 1 = 1 + 2 * n \/ Len(box) - 1 = 2 + 2 * n
      BY <3>1, <3>2
    <3>4. 1 + 2 * n \in Nat /\ 1 + 2 * n >= 1 /\ 2 + 2 * n = (1 + 2 * n) + 1
      OBVIOUS
    <3> DEFINE q == 1 + 2 * n
    <3> HIDE DEF q
    <3>5. q \in Nat /\ q >= 1
      BY <3>4 DEF q
    <3>6. Len(box) - 1 = q \/ Len(box) - 1 = q + 1
      BY <3>3, <3>4 DEF q
    <3>7. q + 1 \in Nat /\ q + 1 >= q /\ q >= q /\ q + 1 # 0 /\ q # 0
      BY <3>5
    <3>8. Len(box) - 1 \in Nat \ {0} /\ Len(box) - 1 >= q
      BY <3>5, <3>6, <3>7
    <3> QED
      BY <3>8 DEF q
  <2>2. \A i \in 1 .. 1 + 2 * n : i \in 1 .. Len(box) - 1
    <3> DEFINE q == 1 + 2 * n
    <3>1. q \in Nat /\ Len(box) - 1 >= q /\ Len(box) - 1 \in Nat
      BY <2>1
    <3> HIDE DEF q
    <3>2. \A i \in 1 .. q : i \in 1 .. Len(box) - 1
      BY <3>1
    <3> QED
      BY <3>2 DEF q
  <2>3. \A i \in 1 .. 1 + 2 * n : Tail(box)[i] = box[i + 1]
    BY <1>8, <2>2
  <2> QED
    BY <1>8, <2>1, <2>3
<1>10. Tail(box) # << >> /\ Tail(box)[1] = box[2]
  <2>1. Len(Tail(box)) # 0 /\ 1 \in 1 .. 1 + 2 * n /\ 1 + 1 = 2
    BY <1>9
  <2> QED
    BY <1>9, <1>8, <2>1, EmptySeq
<1>11. ASSUME NEW j \in 1 .. n
      PROVE  /\ Tail(box)[1 + 2 * j - 1].kind = "header"
             /\ Tail(box)[1 + 2 * j - 1].nth = box[1].nth + j
             /\ Tail(box)[1 + 2 * j].kind = "output"
  <2>1. j + 1 \in 1 .. m
    BY <1>5
  <2>2. 1 + 2 * j - 1 \in 1 .. 1 + 2 * n /\ 1 + 2 * j \in 1 .. 1 + 2 * n
    OBVIOUS
  <2>3. (1 + 2 * j - 1) + 1 = 2 * (j + 1) - 1 /\ (1 + 2 * j) + 1 = 2 * (j + 1)
    OBVIOUS
  <2>4. t.nth + (j + 1) = (t.nth + 1) + j
    OBVIOUS
  <2> QED
    BY <1>6, <1>7, <1>9, <2>1, <2>2, <2>3, <2>4
<1>12. PairsFrom(Tail(box), 1, box[1], n)
  BY <1>11 DEF PairsFrom
<1>13. LastPath(Tail(box), 1, box[1], n) = LastPath(box, 0, t, m)
  <2>1. LastPath(box, 0, t, m) = box[2 * m - 1].path
    <3>1. m # 0 /\ 0 + 2 * m - 1 = 2 * m - 1
      BY <1>5
    <3> QED
      BY <3>1 DEF LastPath
  <2>2. CASE n = 0
    <3>1. 2 * m - 1 = 1
      BY <1>5, <2>2
    <3> QED
      BY <2>1, <2>2, <3>1 DEF LastPath
  <2>3. CASE n # 0
    <3>1. 1 + 2 * n - 1 \in 1 .. 1 + 2 * n /\ (1 + 2 * n - 1) + 1 = 2 * m - 1
      BY <1>5, <2>3
    <3> QED
      BY <1>9, <2>1, <2>3, <3>1 DEF LastPath
  <2> QED
    BY <2>2, <2>3
<1>14. t.nth + m = count => box[1].nth + n = count
  BY <1>5, <1>7
<1>15. Len(box) = 2 * m => Len(Tail(box)) = 1 + 2 * n
  BY <1>5, <1>8
<1>16. Len(box) = 2 * m + 1 /\ HalfPair(box, 0, t, m) => HalfPair(Tail(box), 1, box[1], n)
  <2> SUFFICES ASSUME Len(box) = 2 * m + 1, HalfPair(box, 0, t, m)
               PROVE  HalfPair(Tail(box), 1, box[1], n)
    OBVIOUS
  <2>1. Len(Tail(box)) = 1 + 2 * n + 1 /\ 1 + 2 * n + 1 \in 1 .. Len(box) - 1
    BY <1>5, <1>8
  <2>2. (1 + 2 * n + 1) + 1 = 0 + 2 * m + 1 /\ t.nth + m + 1 = (t.nth + 1) + n + 1
    BY <1>5
  <2> QED
    BY <1>7, <1>8, <2>1, <2>2 DEF HalfPair
<1>17. Len(Tail(box)) = 1 + 2 * n \/ (row = 0 /\ HalfPair(Tail(box), 1, box[1], n))
  BY <1>3, <1>15, <1>16
<1> QED
  BY <1>1, <1>7, <1>10, <1>12, <1>13, <1>14, <1>17 DEF Follows

LEMMA FollowsNothing ==
    ASSUME NEW t, t.nth \in Nat, NEW row, row > 0, NEW dir, NEW count, Follows(<< >>, 0, t, row, dir, count)
    PROVE  t.nth = count /\ t.path = dir
<1>1. PICK m \in Nat : /\ Len(<< >>) = 0 + 2 * m \/ (row = 0 /\ HalfPair(<< >>, 0, t, m))
                       /\ row > 0 => t.nth + m = count /\ LastPath(<< >>, 0, t, m) = dir
  BY DEF Follows
<1>2. m = 0
  BY <1>1 DEF HalfPair
<1> QED
  BY <1>1, <1>2 DEF LastPath

LEMMA FollowsNew ==
    ASSUME NEW box \in Seq(Texts), NEW t \in Texts, t.nth \in Nat, NEW row
    PROVE  /\ Append(box, t)[Len(box) + 1] = t
           /\ Follows(Append(box, t), Len(box) + 1, t, row, t.path, t.nth)
<1>1. Len(Append(box, t)) = Len(box) + 1 /\ Len(box) \in Nat /\ Append(box, t)[Len(box) + 1] = t
  BY AppendProperties
<1>2. Len(Append(box, t)) = (Len(box) + 1) + 2 * 0 /\ t.nth + 0 = t.nth /\ \A j \in 1 .. 0 : FALSE
  BY <1>1
<1>3. PairsFrom(Append(box, t), Len(box) + 1, t, 0) /\ LastPath(Append(box, t), Len(box) + 1, t, 0) = t.path
  BY <1>2 DEF PairsFrom, LastPath
<1> QED
  BY <1>1, <1>2, <1>3 DEF Follows

(* The client asks for the path once, after its login, and what follows    *)
(* the path in its inbox are the pairs.                                    *)
NoPath(c) == AskedFor(c, "path") = {} /\ \A i \in DOMAIN inbox[c] : inbox[c][i].kind # "path"

PathAsked(c) ==
    /\ NoPath(c) \/ client[c].main \in {"path_reply", "crashed"} \/ client[c].receiver # "none"
    /\ client[c].main = "path_reply" =>
          /\ \A i \in AskedFor(c, "path") : /\ \A j \in Asked(c) : j <= i
                                            /\ \A k \in DOMAIN inbox[c] : inbox[c][k].kind # "path"
          /\ \A i \in DOMAIN inbox[c] : inbox[c][i].kind = "path" =>
                /\ Asked(c) = {}
                /\ ~ SendingTo(c)
                /\ Following(c, i, inbox[c][i])

(* The receive loop of a client whose path reply was one.                  *)
InStep(c) ==
    client[c].clean =>
        /\ client[c].display_path.kind = "path"
        /\ \A i \in Asked(c) : packet_queue[i].type \in {"shared", "logout"}
        /\ ~ SendingTo(c)
        /\ client[c].receiver = "dead" => client[c].timed
        /\ client[c].receiver = "first" => Following(c, 0, client[c].display_path)
        /\ client[c].receiver \in {"second", "shown"} =>
              /\ client[c].held.kind = "header"
              /\ client[c].held.nth = client[c].display_path.nth + 1
        /\ client[c].receiver = "second" =>
              \/ /\ inbox[c] # << >>
                 /\ inbox[c][1].kind = "output"
                 /\ Following(c, 1, client[c].held)
              \/ inbox[c] = << >> /\ Served(c) = 0
        /\ client[c].receiver = "shown" => Following(c, 0, client[c].held)

LEMMA BoxFacts ==
    ASSUME TypeInv, TypeInv', NEW c \in Clients
    PROVE  /\ inbox[c] \in Seq(Texts) /\ Len(inbox[c]) \in Nat /\ DOMAIN inbox[c] = 1 .. Len(inbox[c])
           /\ inbox'[c] \in Seq(Texts) /\ Len(inbox'[c]) \in Nat /\ DOMAIN inbox'[c] = 1 .. Len(inbox'[c])
           /\ \A i \in DOMAIN inbox[c] : inbox[c][i] \in Texts
           /\ \A i \in DOMAIN inbox'[c] : inbox'[c][i] \in Texts
           /\ users[c] \in Nat /\ users'[c] \in Nat /\ executed \in Nat
<1>1. inbox[c] \in Seq(Texts) /\ inbox'[c] \in Seq(Texts)
  BY DEF TypeInv, ServerTyping
<1>2. users[c] \in Nat /\ users'[c] \in Nat /\ executed \in Nat
  BY DEF TypeInv, ServerTyping
<1> QED
  BY <1>1, <1>2, ElementOfSeq

(* A client that is no longer served is promised less.                     *)
LEMMA FollowingLess ==
    ASSUME NEW c \in Clients, inbox'[c] = inbox[c], users'[c] \in {0, users[c]}, serving' => serving,
           users'[c] = 0 \/ (cwd' = cwd /\ executed' = executed)
    PROVE  /\ \A k, t : Following(c, k, t) => Follows(inbox'[c], k, t, Served(c)', cwd', executed')
           /\ Served(c) = 0 => Served(c)' = 0
<1>1. Served(c)' \in {0, Served(c)} /\ (Served(c)' = 0 \/ (cwd' = cwd /\ executed' = executed))
  BY DEF Served
<1>2. ASSUME NEW k, NEW t, Following(c, k, t)
      PROVE  Follows(inbox'[c], k, t, Served(c)', cwd', executed')
  BY <1>1, <1>2, FollowsLess DEF Following
<1> QED
  BY <1>1, <1>2

LEMMA PathTexts ==
    ASSUME NEW t \in Texts, t.kind \in {"path", "header"}
    PROVE  t.nth \in Nat /\ t.path \in Paths
  BY DEF Texts

LEMMA GetsFacts ==
    ASSUME TypeInv, NEW c \in Clients, NEW t \in Texts, Gets(c, t)
    PROVE  /\ inbox[c] \in Seq(Texts) /\ Len(inbox[c]) \in Nat
           /\ DOMAIN inbox[c] = 1 .. Len(inbox[c]) /\ DOMAIN inbox'[c] = 1 .. Len(inbox[c]) + 1
           /\ inbox'[c][Len(inbox[c]) + 1] = t
           /\ \A i \in DOMAIN inbox[c] : inbox'[c][i] = inbox[c][i]
  BY AppendProperties DEF Gets, TypeInv, ServerTyping

(* Taking the oldest datagram.                                             *)
LEMMA TailFacts ==
    ASSUME TypeInv, NEW c \in Clients, inbox[c] # << >>, inbox'[c] = Tail(inbox[c])
    PROVE  /\ inbox[c] \in Seq(Texts) /\ Len(inbox[c]) \in Nat \ {0} /\ DOMAIN inbox[c] = 1 .. Len(inbox[c])
           /\ Head(inbox[c]) = inbox[c][1] /\ inbox[c][1] \in Texts
           /\ DOMAIN inbox'[c] = 1 .. Len(inbox[c]) - 1
           /\ \A i \in DOMAIN inbox'[c] : i + 1 \in DOMAIN inbox[c] /\ inbox'[c][i] = inbox[c][i + 1]
<1>1. inbox[c] \in Seq(Texts)
  BY DEF TypeInv, ServerTyping
<1>2. Len(inbox[c]) \in Nat \ {0} /\ DOMAIN inbox[c] = 1 .. Len(inbox[c])
  BY <1>1, EmptySeq
<1>3. /\ Len(Tail(inbox[c])) = Len(inbox[c]) - 1 /\ Tail(inbox[c]) \in Seq(Texts)
      /\ \A i \in 1 .. Len(Tail(inbox[c])) : Tail(inbox[c])[i] = inbox[c][i + 1]
  BY <1>1, HeadTailProperties
<1>4. DOMAIN inbox'[c] = 1 .. Len(inbox[c]) - 1
  BY <1>3
<1>5. Head(inbox[c]) = inbox[c][1] /\ inbox[c][1] \in Texts
  BY <1>1, <1>2
<1> QED
  BY <1>1, <1>2, <1>3, <1>4, <1>5

LEMMA PathUndisturbed ==
    ASSUME TypeInv, TypeInv', NEW c \in Clients, Undisturbed(c, {"path"})
    PROVE  AskedFor(c, "path") = {} => AskedFor(c, "path")' = {}
  BY DEF Undisturbed

(* Nothing new for the client to receive but pairs, and nothing of its own *)
(* request for the path: all is as it was.                                 *)
LEMMA PathKept ==
    ASSUME TypeInv, TypeInv', NEW c \in Clients, PathAsked(c), Kept(c),
           client'[c].main = client[c].main, client'[c].receiver = client[c].receiver,
           SendingTo(c)' => SendingTo(c),
           \A i \in DOMAIN inbox'[c] : inbox'[c][i].kind = "path" =>
               i \in DOMAIN inbox[c] /\ inbox'[c][i] = inbox[c][i],
           \A i \in DOMAIN inbox'[c] :
               /\ inbox'[c][i].kind = "path" /\ ~ SendingTo(c)
               /\ Following(c, i, inbox[c][i])
               => Follows(inbox'[c], i, inbox'[c][i], Served(c)', cwd', executed')
    PROVE  PathAsked(c)'
<1>1. \A i \in Asked(c) : i \in Nat
  BY QueueFacts DEF TypeInv
<1>2. \A i \in Asked(c)' : i \in Nat
  BY AskedNext
<1>3. PICK k \in {0, 1} :
        /\ \A i \in Asked(c) : i - k \in Asked(c)' /\ packet_queue'[i - k] = packet_queue[i]
        /\ \A i \in Asked(c)' : i + k \in Asked(c) /\ packet_queue'[i] = packet_queue[i + k]
  BY DEF Kept
<1>4. \A i \in AskedFor(c, "path")' : i + k \in AskedFor(c, "path")
  BY <1>3 DEF AskedFor
<1>5. NoPath(c) => NoPath(c)'
  BY <1>4 DEF NoPath
<1>6. ASSUME client'[c].main = "path_reply", NEW i \in AskedFor(c, "path")'
      PROVE  /\ \A j \in Asked(c)' : j <= i
             /\ \A j \in DOMAIN inbox'[c] : inbox'[c][j].kind # "path"
  <2>1. \A j \in Asked(c)' : j + k <= i + k
    BY <1>3, <1>4, <1>6 DEF PathAsked
  <2>2. \A j \in Asked(c)' : j <= i
    BY <1>2, <2>1 DEF AskedFor
  <2> QED
    BY <1>4, <1>6, <2>2 DEF PathAsked
<1>7. ASSUME client'[c].main = "path_reply", NEW i \in DOMAIN inbox'[c], inbox'[c][i].kind = "path"
      PROVE  /\ Asked(c)' = {}
             /\ ~ SendingTo(c)'
             /\ Follows(inbox'[c], i, inbox'[c][i], Served(c)', cwd', executed')
  <2>1. Asked(c) = {} /\ ~ SendingTo(c) /\ Following(c, i, inbox[c][i])
    BY <1>7 DEF PathAsked
  <2>2. Asked(c)' = {}
    BY <1>3, <2>1
  <2> QED
    BY <1>7, <2>1, <2>2
<1> QED
  BY <1>5, <1>6, <1>7 DEF PathAsked, Following

(* A broadcast puts a pair behind those that a member has not received     *)
(* yet, or half of one when the server stops on it.                        *)
LEMMA PairsGoOn ==
    ASSUME TypeInv, TypeInv', NEW c \in Clients, Rows(c), Broadcasted(c)
    PROVE  /\ \A k \in Nat : \A t : t.nth \in Nat /\ Following(c, k, t)
                => Follows(inbox'[c], k, t, Served(c)', cwd', executed')
           /\ \A i \in DOMAIN inbox[c] : i \in DOMAIN inbox'[c] /\ inbox'[c][i] = inbox[c][i]
           /\ \A i \in DOMAIN inbox'[c] : i \in DOMAIN inbox[c] \/ inbox'[c][i].kind \in {"header", "output"}
           /\ Served(c) = 0 => inbox'[c] = inbox[c] /\ Served(c)' = 0
<1>1. /\ users[c] \in {0, 1} /\ users'[c] = users[c] /\ executed' = executed + 1
      /\ Served(c) = users[c] /\ Served(c)' = users'[c]
  BY DEF Rows, Broadcasted, TypeInv, ServerTyping, Served
<1>2. CASE users[c] = 0
  <2>1. inbox'[c] = inbox[c]
    BY <1>2 DEF Broadcasted
  <2> QED
    BY <1>1, <1>2, <2>1, FollowsLess DEF Following
<1>3. CASE users[c] = 1
  <2>1. /\ Len(inbox'[c]) = Len(inbox[c]) + 2
        /\ \A i \in 1 .. Len(inbox[c]) : inbox'[c][i] = inbox[c][i]
        /\ inbox'[c][Len(inbox[c]) + 1].kind = "header"
        /\ inbox'[c][Len(inbox[c]) + 1].nth = executed + 1
        /\ inbox'[c][Len(inbox[c]) + 1].path = cwd'
        /\ inbox'[c][Len(inbox[c]) + 2].kind = "output"
    BY <1>3 DEF Broadcasted
  <2>2. \A k \in Nat : \A t : t.nth \in Nat /\ Following(c, k, t)
                => Follows(inbox'[c], k, t, Served(c)', cwd', executed')
    <3>1. ASSUME NEW k \in Nat, NEW t, t.nth \in Nat, Following(c, k, t)
          PROVE  Follows(inbox'[c], k, t, Served(c)', cwd', executed')
      <4>1. Follows(inbox[c], k, t, 1, cwd, executed)
        BY <1>1, <1>3, <3>1 DEF Following
      <4>2. Follows(inbox'[c], k, t, 1, inbox'[c][Len(inbox[c]) + 1].path, executed + 1)
        BY <2>1, <3>1, <4>1, BoxFacts, FollowsMore
      <4> QED
        BY <1>1, <1>3, <2>1, <4>2
    <3> QED
      BY <3>1
  <2>3. /\ Len(inbox[c]) \in Nat /\ DOMAIN inbox[c] = 1 .. Len(inbox[c])
        /\ DOMAIN inbox'[c] = 1 .. Len(inbox[c]) + 2
    BY <2>1, BoxFacts
  <2>4. \A i \in DOMAIN inbox'[c] : i \in DOMAIN inbox[c] \/ i = Len(inbox[c]) + 1 \/ i = Len(inbox[c]) + 2
    BY <2>3
  <2> QED
    BY <1>1, <1>3, <2>1, <2>2, <2>3, <2>4
<1> QED
  BY <1>1, <1>2, <1>3

LEMMA HalvesGoOn ==
    ASSUME TypeInv, TypeInv', NEW c \in Clients, Rows(c), Halted(c)
    PROVE  /\ \A k \in Nat : \A t : t.nth \in Nat /\ Following(c, k, t)
                => Follows(inbox'[c], k, t, Served(c)', cwd', executed')
           /\ \A i \in DOMAIN inbox[c] : i \in DOMAIN inbox'[c] /\ inbox'[c][i] = inbox[c][i]
           /\ \A i \in DOMAIN inbox'[c] : i \in DOMAIN inbox[c] \/ inbox'[c][i].kind \in {"header", "output"}
           /\ Served(c) = 0 => inbox'[c] = inbox[c] /\ Served(c)' = 0
<1>1. /\ users[c] \in {0, 1} /\ users'[c] = users[c] /\ executed' = executed
      /\ Served(c) = users[c] /\ Served(c)' = 0
  BY DEF Rows, Halted, TypeInv, ServerTyping, Served
<1>2. CASE inbox'[c] = inbox[c]
  <2>1. \A k \in Nat : \A t : t.nth \in Nat /\ Following(c, k, t)
                => Follows(inbox'[c], k, t, Served(c)', cwd', executed')
    BY <1>1, <1>2, FollowsLess DEF Following
  <2> QED
    BY <1>1, <1>2, <2>1
<1>3. CASE inbox'[c] # inbox[c]
  <2>1. PICK h \in Texts : h.kind = "header" /\ h.nth = executed + 1 /\ Gets(c, h)
    BY <1>3 DEF Halted
  <2>2. users[c] = 1
    BY <1>1, <1>3 DEF Halted
  <2>3. ASSUME NEW k \in Nat, NEW t, t.nth \in Nat, Following(c, k, t)
        PROVE  Follows(inbox'[c], k, t, Served(c)', cwd', executed')
    <3>1. Follows(inbox[c], k, t, 1, cwd, executed)
      BY <1>1, <2>2, <2>3 DEF Following
    <3>2. Follows(Append(inbox[c], h), k, t, 0, cwd', executed')
      BY <2>1, <2>3, <3>1, BoxFacts, FollowsHalf
    <3> QED
      BY <1>1, <2>1, <3>2 DEF Gets
  <2>4. /\ Len(inbox[c]) \in Nat
        /\ DOMAIN inbox[c] = 1 .. Len(inbox[c]) /\ DOMAIN inbox'[c] = 1 .. Len(inbox[c]) + 1
        /\ inbox'[c][Len(inbox[c]) + 1] = h
        /\ \A i \in DOMAIN inbox[c] : inbox'[c][i] = inbox[c][i]
    BY <2>1, GetsFacts
  <2>5. \A i \in DOMAIN inbox'[c] : i \in DOMAIN inbox[c] \/ i = Len(inbox[c]) + 1
    BY <2>4
  <2>6. \A i \in DOMAIN inbox[c] : i \in DOMAIN inbox'[c]
    BY <2>4
  <2> QED
    BY <1>1, <2>1, <2>2, <2>3, <2>4, <2>5, <2>6
<1> QED
  BY <1>2, <1>3

LEMMA PathAnswered ==
    ASSUME TypeInv, TypeInv', NEW c \in Clients, PathAsked(c), Answered(c)
    PROVE  PathAsked(c)'
<1>1. client'[c] = client[c] /\ Shrank(c) /\ cwd' = cwd /\ executed' = executed
  BY DEF Answered
<1>2. \A i \in Asked(c) : i \in Nat \ {0} /\ packet_queue[i] \in Requests
  BY QueueFacts DEF TypeInv
<1>3. \A i \in Asked(c)' : i \in Nat \ {0} /\ i + 1 \in Asked(c) /\ packet_queue'[i] = packet_queue[i + 1]
  BY <1>1, AskedNext DEF Shrank
<1>4. \A i \in AskedFor(c, "path")' : i + 1 \in AskedFor(c, "path")
  BY <1>3 DEF AskedFor
<1>5. 1 \in Asked(c) /\ packet_queue[1].type \in RequestTypes
  BY <1>1, <1>2 DEF Shrank, Requests
<1> DEFINE n == Len(inbox[c]) + 1
<1>6. CASE packet_queue[1].type = "path"
  <2>1. 1 \in AskedFor(c, "path")
    BY <1>5, <1>6 DEF AskedFor
  <2>2. client[c].main \in {"path_reply", "crashed"} \/ client[c].receiver # "none"
    BY <2>1 DEF PathAsked, NoPath
  <2> DEFINE t == PathText(cwd, executed)
  <2>3. t \in Texts /\ t.path = cwd /\ t.nth = executed /\ executed \in Nat
    BY ServerAssumption DEF PathText, Texts, Paths, TypeInv, ServerTyping
  <2>4. Gets(c, t) /\ users'[c] = users[c] /\ ~ SendingTo(c)'
    BY <1>6 DEF Answered
  <2> HIDE DEF t
  <2>5. /\ inbox[c] \in Seq(Texts) /\ Len(inbox[c]) \in Nat
        /\ DOMAIN inbox[c] = 1 .. Len(inbox[c]) /\ DOMAIN inbox'[c] = 1 .. n
        /\ inbox'[c][n] = t
        /\ \A i \in DOMAIN inbox[c] : inbox'[c][i] = inbox[c][i]
    BY <2>3, <2>4, GetsFacts
  <2>6. ASSUME client[c].main = "path_reply"
        PROVE  /\ Asked(c)' = {}
               /\ \A i \in DOMAIN inbox'[c] : inbox'[c][i].kind = "path" =>
                      Follows(inbox'[c], i, inbox'[c][i], Served(c)', cwd', executed')
    <3>1. \A j \in Asked(c) : j <= 1
      BY <2>1, <2>6 DEF PathAsked
    <3>2. Asked(c)' = {}
      <4>1. ASSUME NEW i \in Asked(c)' PROVE FALSE
        <5>1. i + 1 <= 1 /\ i \in Nat \ {0}
          BY <1>3, <3>1
        <5> QED
          BY <5>1
      <4> QED
        BY <4>1
    <3>3. \A i \in DOMAIN inbox'[c] : inbox'[c][i].kind = "path" => i = n
      BY <2>1, <2>5, <2>6 DEF PathAsked
    <3>4. Follows(inbox'[c], n, t, Served(c)', t.path, t.nth)
      BY <2>3, <2>4, <2>5, FollowsNew DEF Gets
    <3> QED
      BY <1>1, <2>3, <2>4, <2>5, <3>2, <3>3, <3>4
  <2> QED
    BY <1>1, <2>2, <2>4, <2>6 DEF PathAsked, AskedFor, Following
<1>7. CASE packet_queue[1].type # "path"
  <2>1. \A i \in DOMAIN inbox'[c] : inbox'[c][i].kind = "path" => i \in DOMAIN inbox[c] /\ inbox'[c][i] = inbox[c][i]
    <3>1. CASE inbox'[c] = inbox[c]
      BY <3>1
    <3>2. CASE inbox'[c] # inbox[c]
      <4>1. PICK t \in Texts : Gets(c, t) /\ t.kind # "path"
        <5>1. \A ok \in BOOLEAN : Status(ok) \in Texts /\ Status(ok).kind # "path"
          BY DEF Status, Texts
        <5>2. \A w \in Outputs : Output(w) \in Texts /\ Output(w).kind # "path"
          BY DEF Output, Texts
        <5> QED
          <6>1. CASE packet_queue[1].type \in {"login", "valid", "copy"}
            <7>1. \E ok \in BOOLEAN : Gets(c, Status(ok))
              <8> DEFINE found == Resolve(packet_queue[1].path) \in Dirs
              <8>1. found \in BOOLEAN
                OBVIOUS
              <8>2. packet_queue[1].type = "valid" => Gets(c, Status(found))
                BY DEF Answered
              <8> HIDE DEF found
              <8> QED
                BY <1>1, <6>1, <8>1, <8>2 DEF Answered
            <7> QED
              BY <5>1, <7>1
          <6>2. CASE packet_queue[1].type = "run"
            BY <3>2, <5>2, <6>2 DEF Answered
          <6>3. packet_queue[1].type \notin {"shared", "logout"}
            BY <3>2 DEF Answered
          <6> QED
            BY <1>5, <1>7, <6>1, <6>2, <6>3 DEF RequestTypes
      <4>2. /\ Len(inbox[c]) \in Nat
            /\ DOMAIN inbox[c] = 1 .. Len(inbox[c]) /\ DOMAIN inbox'[c] = 1 .. n
            /\ inbox'[c][n] = t
            /\ \A i \in DOMAIN inbox[c] : inbox'[c][i] = inbox[c][i]
        BY <4>1, GetsFacts
      <4> QED
        BY <4>1, <4>2
    <3> QED
      BY <3>1, <3>2
  <2>2. NoPath(c) => NoPath(c)'
    BY <1>4, <2>1 DEF NoPath
  <2>3. ASSUME client[c].main = "path_reply", NEW i \in AskedFor(c, "path")'
        PROVE  /\ \A j \in Asked(c)' : j <= i
               /\ \A k \in DOMAIN inbox'[c] : inbox'[c][k].kind # "path"
    <3>1. \A j \in Asked(c)' : j + 1 <= i + 1
      BY <1>3, <1>4, <2>3 DEF PathAsked
    <3>2. \A j \in Asked(c)' : j <= i
      BY <1>3, <3>1 DEF AskedFor
    <3> QED
      BY <1>4, <2>1, <2>3, <3>2 DEF PathAsked
  <2>4. ASSUME client[c].main = "path_reply", NEW i \in DOMAIN inbox'[c], inbox'[c][i].kind = "path"
        PROVE  FALSE
    BY <1>5, <2>1, <2>4 DEF PathAsked
  <2> QED
    BY <1>1, <2>2, <2>3, <2>4 DEF PathAsked
<1> QED
  BY <1>6, <1>7

LEMMA PathOwn ==
    ASSUME TypeInv, TypeInv', NEW c \in Clients, PathAsked(c), MainNext(c) \/ ReceiverNext(c)
    PROVE  PathAsked(c)'
<1>1. ASSUME NoPath(c), Undisturbed(c, {"path"}), Takes(c) \/ inbox'[c] = inbox[c]
      PROVE  NoPath(c)'
  <2>1. inbox'[c] = inbox[c] \/ (inbox[c] # << >> /\ inbox'[c] = Tail(inbox[c]))
    BY <1>1 DEF Takes, TypeInv, ServerTyping
  <2>2. \A i \in DOMAIN inbox'[c] : inbox'[c][i].kind # "path"
    BY <1>1, <2>1, TailFacts DEF NoPath
  <2> QED
    BY <1>1, <2>2, PathUndisturbed DEF NoPath
<1>2. CASE Plain(c)
  <2>1. NoPath(c)
    BY <1>2 DEF Plain, Outside, PathAsked
  <2>2. Undisturbed(c, {"path"})
    BY <1>2, RequestsUndisturbed DEF Plain
  <2> QED
    BY <1>1, <1>2, <2>1, <2>2 DEF Plain, Outside, PathAsked
<1>3. CASE Stalls(c) \/ Idles(c)
  BY <1>3 DEF Stalls, Idles, PathAsked
<1>4. CASE Join(c)
  <2>1. PICK r \in Requests : r.type = "login" /\ Grew(c, r)
    BY <1>4, JoinView
  <2>2. NoPath(c)
    BY <1>4, JoinView DEF PathAsked
  <2>3. Undisturbed(c, {"path"})
    BY <2>1, RequestsUndisturbed
  <2>4. NoPath(c)'
    BY <1>1, <1>4, <2>2, <2>3, JoinView
  <2> QED
    BY <1>4, <2>4, JoinView DEF PathAsked
<1>5. CASE LoginReply(c)
  <2>1. PICK r \in Requests : r.type = "path" /\ Grew(c, r)
    BY <1>5, LoginReplyView
  <2>2. NoPath(c)
    BY <1>5, LoginReplyView DEF PathAsked
  <2>3. \A i \in DOMAIN inbox'[c] : inbox'[c][i].kind # "path"
    BY <1>5, <2>2, LoginReplyView, TailFacts DEF NoPath
  <2>4. \A i \in AskedFor(c, "path")' : \A j \in Asked(c)' : j <= i
    <3>1. PICK n \in Nat : /\ \A i \in Asked(c) : i < n /\ packet_queue'[i] = packet_queue[i]
                           /\ \A i \in Asked(c)' : i = n \/ i \in Asked(c)
      BY <2>1 DEF Grew
    <3>2. \A i \in AskedFor(c, "path")' : i = n
      BY <2>2, <3>1 DEF NoPath, AskedFor
    <3>3. \A i \in Asked(c) : i \in Nat
      BY QueueFacts DEF TypeInv
    <3> QED
      BY <3>1, <3>2, <3>3
  <2> QED
    BY <1>5, <2>3, <2>4, LoginReplyView DEF PathAsked
<1>6. CASE PathReply(c)
  BY <1>6, PathReplyView DEF PathAsked
<1>7. CASE Exit(c)
  <2>1. client[c].main = "input" /\ client'[c].main \in {"exited", "crashed"}
        /\ client'[c].receiver = client[c].receiver /\ inbox'[c] = inbox[c]
    BY <1>7, ExitView DEF SameLoop
  <2>2. Kept(c) \/ \E r : r.type = "logout" /\ Grew(c, r)
    BY <1>7, ExitView
  <2>3. Undisturbed(c, {"path"})
    BY <2>2, RequestsUndisturbed
  <2> QED
    BY <1>1, <2>1, <2>3 DEF PathAsked
<1>8. CASE SharedCmd(c)
  BY <1>8, SharedCmdView DEF PathAsked, SameLoop
<1>9. CASE ReceiverNext(c)
  <2>1. client[c].main # "path_reply"
    BY <1>9, ReceiverView DEF TypeInv, ClientTyping, Mode, AtShared, AtClient
  <2> QED
    BY <1>9, <2>1, ReceiverView DEF PathAsked
<1> QED
  BY <1>2, <1>3, <1>4, <1>5, <1>6, <1>7, <1>8, <1>9, MainView DEF Shares

LEMMA PathStep ==
    ASSUME TypeInv, TypeInv', NEW c \in Clients, Rows(c), PathAsked(c), StepView(c)
    PROVE  PathAsked(c)'
<1>1. CASE Elsewhere(c)
  <2>1. \A k, t : Following(c, k, t) => Follows(inbox'[c], k, t, Served(c)', cwd', executed')
    BY <1>1, FollowingLess DEF Elsewhere
  <2> QED
    BY <1>1, <2>1, PathKept DEF Elsewhere
<1>2. CASE Chunked(c)
  <2>1. Chunk \in Texts /\ Chunk.kind # "path"
    BY DEF Chunk, Texts
  <2>2. \A i \in DOMAIN inbox'[c] : inbox'[c][i].kind = "path" => i \in DOMAIN inbox[c] /\ inbox'[c][i] = inbox[c][i]
    <3>1. /\ Len(inbox[c]) \in Nat
          /\ DOMAIN inbox[c] = 1 .. Len(inbox[c]) /\ DOMAIN inbox'[c] = 1 .. Len(inbox[c]) + 1
          /\ inbox'[c][Len(inbox[c]) + 1] = Chunk
          /\ \A i \in DOMAIN inbox[c] : inbox'[c][i] = inbox[c][i]
      BY <1>2, <2>1, GetsFacts DEF Chunked
    <3> QED
      BY <2>1, <3>1
  <2> QED
    BY <1>2, <2>2, PathKept DEF Chunked
<1>3. CASE Broadcasted(c) \/ Halted(c)
  <2>1. client'[c] = client[c] /\ ~ SendingTo(c)' /\ ~ SendingTo(c)
    BY <1>3 DEF Broadcasted, Halted
  <2>2. \A i \in DOMAIN inbox'[c] : inbox'[c][i].kind = "path" => i \in DOMAIN inbox[c] /\ inbox'[c][i] = inbox[c][i]
    BY <1>3, PairsGoOn, HalvesGoOn
  <2>3. CASE Kept(c)
    <3>1. ASSUME NEW i \in DOMAIN inbox'[c], inbox'[c][i].kind = "path", Following(c, i, inbox[c][i])
          PROVE  Follows(inbox'[c], i, inbox'[c][i], Served(c)', cwd', executed')
      <4>1. inbox'[c][i] = inbox[c][i] /\ inbox'[c][i].nth \in Nat /\ i \in Nat
        BY <2>2, <3>1, BoxFacts, PathTexts
      <4> QED
        BY <1>3, <3>1, <4>1, PairsGoOn, HalvesGoOn
    <3> QED
      BY <2>1, <2>2, <2>3, <3>1, PathKept
  <2>4. CASE Shrank(c) /\ packet_queue[1].type = "shared"
    <3>1. \A i \in Asked(c)' : i \in Nat \ {0} /\ i + 1 \in Asked(c) /\ packet_queue'[i] = packet_queue[i + 1]
      BY <2>4, AskedNext DEF Shrank
    <3>2. \A i \in AskedFor(c, "path")' : i + 1 \in AskedFor(c, "path")
      BY <3>1 DEF AskedFor
    <3>3. NoPath(c) => NoPath(c)'
      BY <2>2, <3>2 DEF NoPath
    <3>4. ASSUME client[c].main = "path_reply", NEW i \in AskedFor(c, "path")'
          PROVE  /\ \A j \in Asked(c)' : j <= i
                 /\ \A k \in DOMAIN inbox'[c] : inbox'[c][k].kind # "path"
      <4>1. \A j \in Asked(c)' : j + 1 <= i + 1
        BY <3>1, <3>2, <3>4 DEF PathAsked
      <4>2. \A j \in Asked(c)' : j <= i
        BY <3>1, <4>1 DEF AskedFor
      <4> QED
        BY <2>2, <3>2, <3>4, <4>2 DEF PathAsked
    <3>5. ASSUME client[c].main = "path_reply", NEW i \in DOMAIN inbox'[c], inbox'[c][i].kind = "path"
          PROVE  FALSE
      BY <2>2, <2>4, <3>5 DEF PathAsked, Shrank
    <3> QED
      BY <2>1, <3>3, <3>4, <3>5 DEF PathAsked
  <2> QED
    BY <1>3, <2>3, <2>4 DEF Broadcasted, Halted
<1>4. CASE Restarted(c)
  <2>1. /\ Asked(c)' = {} /\ ~ SendingTo(c)' /\ client'[c] = client[c] /\ inbox'[c] = inbox[c]
        /\ users'[c] = 0
    BY <1>4 DEF Restarted
  <2>2. AskedFor(c, "path")' = {}
    BY <2>1 DEF AskedFor
  <2>3. \A i, t : Following(c, i, t) => Follows(inbox'[c], i, t, Served(c)', cwd', executed')
    <3>1. Served(c)' = 0
      BY <2>1 DEF Served
    <3> QED
      BY <2>1, <3>1, FollowsLess DEF Following
  <2> QED
    BY <2>1, <2>2, <2>3 DEF PathAsked, NoPath, Following
<1> QED
  BY <1>1, <1>2, <1>3, <1>4, PathAnswered, PathOwn DEF StepView

LEMMA LoopTexts ==
    ASSUME TypeInv, NEW c \in Clients, InStep(c), client[c].clean
    PROVE  /\ client[c].display_path.nth \in Nat
           /\ client[c].receiver \in {"second", "shown"} => client[c].held.nth \in Nat
<1>1. client[c] \in ClientType /\ Mode(c)
  BY DEF TypeInv, ClientTyping
<1>2. client[c].display_path \in Texts /\ client[c].display_path.kind = "path"
  BY <1>1 DEF InStep, ClientType, ShownTexts
<1>3. client[c].receiver \in {"second", "shown"} => client[c].held \in Texts /\ client[c].held.kind = "header"
  BY <1>1 DEF InStep, Mode
<1> QED
  BY <1>2, <1>3, PathTexts

(* Something is handled: whatever was to follow still follows.             *)
LEMMA InStepServed ==
    ASSUME TypeInv, TypeInv', NEW c \in Clients, InStep(c), client'[c] = client[c],
           \A i \in Asked(c)' : \E j \in Asked(c) : packet_queue'[i] = packet_queue[j],
           client[c].clean => ~ SendingTo(c)',
           \A k \in {0, 1} : \A t : t.nth \in Nat /\ Following(c, k, t)
               => Follows(inbox'[c], k, t, Served(c)', cwd', executed'),
           inbox[c] # << >> => inbox'[c] # << >> /\ inbox'[c][1] = inbox[c][1],
           Served(c) = 0 => Served(c)' = 0 /\ (inbox[c] = << >> => inbox'[c] = << >>)
    PROVE  InStep(c)'
<1> SUFFICES ASSUME client[c].clean
             PROVE  InStep(c)'
  BY DEF InStep
<1>1. \A i \in Asked(c)' : packet_queue'[i].type \in {"shared", "logout"}
  BY DEF InStep
<1>2. client[c].receiver = "first" => Follows(inbox'[c], 0, client[c].display_path, Served(c)', cwd', executed')
  BY LoopTexts DEF InStep
<1>3. client[c].receiver = "second" =>
        \/ /\ inbox'[c] # << >>
           /\ inbox'[c][1].kind = "output"
           /\ Follows(inbox'[c], 1, client[c].held, Served(c)', cwd', executed')
        \/ inbox'[c] = << >> /\ Served(c)' = 0
  BY LoopTexts DEF InStep
<1>4. client[c].receiver = "shown" => Follows(inbox'[c], 0, client[c].held, Served(c)', cwd', executed')
  BY LoopTexts DEF InStep
<1> QED
  BY <1>1, <1>2, <1>3, <1>4 DEF InStep, Following

LEMMA InStepServer ==
    ASSUME TypeInv, TypeInv', NEW c \in Clients, Rows(c), InStep(c),
           Elsewhere(c) \/ Answered(c) \/ Broadcasted(c) \/ Halted(c) \/ Chunked(c) \/ Restarted(c)
    PROVE  InStep(c)'
<1>1. ASSUME Kept(c) \/ Shrank(c)
      PROVE  \A i \in Asked(c)' : \E j \in Asked(c) : packet_queue'[i] = packet_queue[j]
  BY <1>1 DEF Kept, Shrank
<1>2. CASE Elsewhere(c)
  <2>1. /\ \A k, t : Following(c, k, t) => Follows(inbox'[c], k, t, Served(c)', cwd', executed')
        /\ Served(c) = 0 => Served(c)' = 0
    BY <1>2, FollowingLess DEF Elsewhere
  <2> QED
    BY <1>1, <1>2, <2>1, InStepServed DEF Elsewhere, InStep
<1>3. CASE Answered(c)
  <2>1. /\ Shrank(c) /\ client'[c] = client[c] /\ cwd' = cwd /\ executed' = executed /\ 1 \in Asked(c)
        /\ ~ SendingTo(c)
    BY <1>3 DEF Answered, Shrank
  <2> SUFFICES ASSUME client[c].clean
               PROVE  InStep(c)'
    BY <2>1 DEF InStep
  <2>2. packet_queue[1].type \in {"shared", "logout"}
    BY <2>1 DEF InStep
  <2>3. inbox'[c] = inbox[c] /\ ~ SendingTo(c)' /\ users'[c] \in {0, users[c]} /\ (serving' => serving)
    BY <1>3, <2>2 DEF Answered
  <2>4. /\ \A k, t : Following(c, k, t) => Follows(inbox'[c], k, t, Served(c)', cwd', executed')
        /\ Served(c) = 0 => Served(c)' = 0
    BY <2>1, <2>3, FollowingLess
  <2> QED
    BY <1>1, <2>1, <2>3, <2>4, InStepServed
<1>4. CASE Broadcasted(c) \/ Halted(c)
  <2>1. client'[c] = client[c] /\ ~ SendingTo(c)'
    BY <1>4 DEF Broadcasted, Halted
  <2>2. \A i \in Asked(c)' : \E j \in Asked(c) : packet_queue'[i] = packet_queue[j]
    BY <1>1, <1>4 DEF Broadcasted, Halted
  <2>3. /\ \A k \in {0, 1} : \A t : t.nth \in Nat /\ Following(c, k, t)
               => Follows(inbox'[c], k, t, Served(c)', cwd', executed')
        /\ Served(c) = 0 => inbox'[c] = inbox[c] /\ Served(c)' = 0
    BY <1>4, PairsGoOn, HalvesGoOn
  <2>4. inbox[c] # << >> => inbox'[c] # << >> /\ inbox'[c][1] = inbox[c][1]
    <3>1. inbox[c] # << >> => 1 \in DOMAIN inbox[c]
      BY BoxFacts, EmptySeq
    <3>2. inbox[c] # << >> => 1 \in DOMAIN inbox'[c] /\ inbox'[c][1] = inbox[c][1]
      BY <1>4, <3>1, PairsGoOn, HalvesGoOn
    <3> QED
      BY <3>2
  <2> QED
    BY <2>1, <2>2, <2>3, <2>4, InStepServed
<1>5. CASE Chunked(c)
  BY <1>5 DEF Chunked, InStep
<1>6. CASE Restarted(c)
  <2>1. /\ Asked(c)' = {} /\ ~ SendingTo(c)' /\ client'[c] = client[c] /\ inbox'[c] = inbox[c]
        /\ users'[c] = 0
    BY <1>6 DEF Restarted
  <2>2. Served(c)' = 0
    BY <2>1 DEF Served
  <2>3. \A k, t : Following(c, k, t) => Follows(inbox'[c], k, t, Served(c)', cwd', executed')
    BY <2>1, <2>2, FollowsLess DEF Following
  <2> QED
    BY <2>1, <2>2, <2>3, InStepServed
<1> QED
  BY <1>2, <1>3, <1>4, <1>5, <1>6

(* Its main thread leaves the receive loop alone, but for starting it.     *)
LEMMA InStepSame ==
    ASSUME TypeInv, TypeInv', NEW c \in Clients, InStep(c), SameLoop(c),
           Kept(c) \/ \E r \in Requests : r.type \in {"shared", "logout"} /\ Grew(c, r),
           users'[c] = users[c], cwd' = cwd, executed' = executed, serving' = serving,
           SendingTo(c)' <=> SendingTo(c)
    PROVE  InStep(c)'
<1> SUFFICES ASSUME client[c].clean
             PROVE  InStep(c)'
  BY DEF InStep, SameLoop
<1>1. Served(c)' = Served(c)
  BY DEF Served
<1>2. \A i \in Asked(c) : packet_queue[i].type \in {"shared", "logout"}
  BY DEF InStep
<1>3. CASE Kept(c)
  <2>1. \A i \in Asked(c)' : packet_queue'[i].type \in {"shared", "logout"}
    BY <1>2, <1>3 DEF Kept
  <2> QED
    BY <1>1, <2>1 DEF InStep, SameLoop, Following
<1>4. CASE \E r \in Requests : r.type \in {"shared", "logout"} /\ Grew(c, r)
  <2>1. \A i \in Asked(c)' : packet_queue'[i].type \in {"shared", "logout"}
    BY <1>2, <1>4 DEF Grew
  <2> QED
    BY <1>1, <2>1 DEF InStep, SameLoop, Following
<1> QED
  BY <1>3, <1>4

LEMMA InStepMain ==
    ASSUME TypeInv, TypeInv', NEW c \in Clients, PathAsked(c), InStep(c), MainNext(c),
           users'[c] = users[c], cwd' = cwd, executed' = executed, serving' = serving,
           SendingTo(c)' <=> SendingTo(c)
    PROVE  InStep(c)'
<1>1. CASE Plain(c) \/ Stalls(c) \/ Join(c) \/ LoginReply(c)
  <2>1. ~ client'[c].clean
    BY <1>1, JoinView, LoginReplyView DEF Plain, Outside, Stalls
  <2> QED
    BY <2>1 DEF InStep
<1>2. CASE Idles(c)
  <2>1. SameLoop(c) /\ Kept(c)
    BY <1>2 DEF Idles, SameLoop
  <2> QED
    BY <2>1, InStepSame
<1>3. CASE Exit(c)
  <2>1. SameLoop(c) /\ (Kept(c) \/ \E r \in Requests : r.type \in {"shared", "logout"} /\ Grew(c, r))
    BY <1>3, ExitView
  <2> QED
    BY <2>1, InStepSame
<1>4. CASE SharedCmd(c)
  <2>1. SameLoop(c) /\ \E r \in Requests : r.type \in {"shared", "logout"} /\ Grew(c, r)
    BY <1>4, SharedCmdView
  <2> QED
    BY <2>1, InStepSame
<1>5. CASE PathReply(c)
  <2>1. /\ client[c].main = "path_reply" /\ Kept(c) /\ client'[c].receiver = "first"
        /\ inbox[c] # << >> /\ inbox'[c] = Tail(inbox[c])
        /\ client'[c].display_path = inbox[c][1]
        /\ client'[c].clean = (inbox[c][1].kind = "path")
    BY <1>5, PathReplyView, TailFacts
  <2> SUFFICES ASSUME inbox[c][1].kind = "path"
               PROVE  InStep(c)'
    BY <2>1 DEF InStep
  <2>2. 1 \in DOMAIN inbox[c]
    BY <2>1, TailFacts
  <2>3. Asked(c) = {} /\ ~ SendingTo(c) /\ Following(c, 1, inbox[c][1])
    BY <2>1, <2>2 DEF PathAsked
  <2>4. Asked(c)' = {}
    BY <2>1, <2>3 DEF Kept
  <2>5. Follows(Tail(inbox[c]), 0, inbox[c][1], Served(c), cwd, executed)
    <3>1. Follows(Tail(inbox[c]), 1 - 1, inbox[c][1], Served(c), cwd, executed)
      BY <2>3, BoxFacts, FollowsTail DEF Following
    <3>2. 1 - 1 = 0
      OBVIOUS
    <3> QED
      BY <3>1, <3>2
  <2>6. Served(c)' = Served(c)
    BY DEF Served
  <2> QED
    BY <2>1, <2>3, <2>4, <2>5, <2>6 DEF InStep, Following
<1> QED
  BY <1>1, <1>2, <1>3, <1>4, <1>5, MainView DEF Shares

LEMMA FollowsSame ==
    ASSUME NEW box, NEW k, NEW t, NEW u, u.nth = t.nth, u.path = t.path, NEW row, NEW dir, NEW count,
           Follows(box, k, t, row, dir, count)
    PROVE  Follows(box, k, u, row, dir, count)
  BY DEF Follows, PairsFrom, HalfPair, LastPath

LEMMA InStepReceiver ==
    ASSUME TypeInv, TypeInv', NEW c \in Clients, InStep(c), ReceiverNext(c),
           users'[c] = users[c], cwd' = cwd, executed' = executed, serving' = serving,
           SendingTo(c)' <=> SendingTo(c)
    PROVE  InStep(c)'
<1> SUFFICES ASSUME client[c].clean, client'[c].clean
             PROVE  InStep(c)'
  BY ReceiverView DEF InStep
<1>1. client[c] \in ClientType /\ Mode(c) /\ ServerTyping
  BY DEF TypeInv, ClientTyping
<1>2. \A r : Becomes(c, r) => client'[c] = r
  BY DEF Becomes, TypeInv, ClientTyping
<1>3. /\ \A i \in Asked(c)' : packet_queue'[i].type \in {"shared", "logout"}
      /\ ~ SendingTo(c)'
  BY ReceiverView DEF InStep, Kept
<1>4. client'[c].timed = client[c].timed /\ Served(c)' = Served(c)
  BY ReceiverView DEF Served
<1>5. ASSUME client'[c] = [client[c] EXCEPT !.receiver = "undecoded"]
      PROVE  InStep(c)'
  <2>1. client'[c].receiver = "undecoded" /\ client'[c].display_path = client[c].display_path
    BY <1>1, <1>5 DEF ClientType
  <2> QED
    BY <1>3, <2>1 DEF InStep
<1>6. CASE ReceiveHeader(c)
  <2> DEFINE t == inbox[c][1]
  <2>1. client[c].receiver = "first" /\ inbox[c] # << >> /\ inbox'[c] = Tail(inbox[c]) /\ Received(c) = t
    <3>1. client[c].receiver = "first" /\ inbox[c] # << >> /\ inbox'[c] = Tail(inbox[c])
      BY <1>1, <1>6 DEF ReceiveHeader, Receive, ServerTyping
    <3> QED
      BY <3>1, TailFacts DEF Received
  <2>2. /\ t.kind = "header" /\ t.nth = client[c].display_path.nth + 1
        /\ \/ /\ Tail(inbox[c]) # << >> /\ Tail(inbox[c])[1].kind = "output"
              /\ Follows(Tail(inbox[c]), 1, t, Served(c), cwd, executed)
           \/ Tail(inbox[c]) = << >> /\ Served(c) = 0
    BY <2>1, BoxFacts, LoopTexts, FollowsHead DEF InStep, Following
  <2>3. \/ client'[c] = [client[c] EXCEPT !.held = t, !.receiver = "second"]
        \/ client'[c] = [client[c] EXCEPT !.receiver = "undecoded"]
    <3>1. ~ HasOneWord(t)
      BY <2>2 DEF HasOneWord, HasSecondWord
    <3> QED
      BY <1>2, <1>6, <2>1, <3>1 DEF ReceiveHeader
  <2> HIDE DEF t
  <2>4. CASE client'[c] = [client[c] EXCEPT !.held = t, !.receiver = "second"]
    <3>1. /\ client'[c].receiver = "second" /\ client'[c].held = t
          /\ client'[c].display_path = client[c].display_path
      BY <1>1, <2>4 DEF ClientType
    <3> QED
      BY <1>3, <1>4, <2>1, <2>2, <3>1 DEF InStep, Following
  <2> QED
    BY <1>5, <2>3, <2>4
<1>7. CASE ReceiveOutput(c)
  <2>1. client[c].receiver = "second" /\ inbox[c] # << >> /\ inbox'[c] = Tail(inbox[c])
    BY <1>1, <1>7 DEF ReceiveOutput, Receive, ServerTyping
  <2>2. CASE client'[c] = [client[c] EXCEPT !.mine = client[c].send_shared_cmd, !.receiver = "shown"]
    <3>1. /\ client'[c].receiver = "shown" /\ client'[c].held = client[c].held
          /\ client'[c].display_path = client[c].display_path
      BY <1>1, <2>2 DEF ClientType
    <3>2. Follows(Tail(inbox[c]), 1 - 1, client[c].held, Served(c), cwd, executed)
      BY <2>1, BoxFacts, FollowsTail DEF InStep, Following
    <3>3. Follows(Tail(inbox[c]), 0, client[c].held, Served(c), cwd, executed)
      <4>1. 1 - 1 = 0
        OBVIOUS
      <4> QED
        BY <3>2, <4>1
    <3> QED
      BY <1>3, <1>4, <2>1, <3>1, <3>3 DEF InStep, Following
  <2> QED
    BY <1>2, <1>7, <1>5, <2>2 DEF ReceiveOutput
<1>8. CASE Update(c)
  <2> DEFINE w == PathText(client[c].held.path, client[c].held.nth)
  <2>1. client[c].receiver = "shown" /\ client[c].held.kind = "header" /\ inbox'[c] = inbox[c]
    BY <1>8 DEF Update, Silent, InStep
  <2>2. w.kind = "path" /\ w.nth = client[c].held.nth /\ w.path = client[c].held.path
    BY DEF PathText
  <2>3. client'[c] = [client[c] EXCEPT !.display_path = w, !.send_shared_cmd = FALSE, !.event = TRUE,
                                       !.held = None, !.receiver = "first"]
    BY <1>2, <1>8, <2>1 DEF Update, FirstWord
  <2> HIDE DEF w
  <2>4. client'[c].receiver = "first" /\ client'[c].display_path = w
    BY <1>1, <2>3 DEF ClientType
  <2>5. Follows(inbox[c], 0, w, Served(c), cwd, executed)
    BY <2>1, <2>2, FollowsSame DEF InStep, Following
  <2> QED
    BY <1>3, <1>4, <2>1, <2>2, <2>4, <2>5 DEF InStep, Following
<1>9. CASE ReceiverTimeout(c)
  <2>1. /\ client[c].timed /\ client'[c].receiver = "dead"
        /\ client'[c].display_path = client[c].display_path
    BY <1>1, <1>2, <1>9 DEF ReceiverTimeout, ClientType
  <2> QED
    BY <1>3, <1>4, <2>1 DEF InStep
<1> QED
  BY <1>6, <1>7, <1>8, <1>9 DEF ReceiverNext

PathInv == Reliable => \A c \in Clients : PathAsked(c) /\ InStep(c)

LEMMA AlwaysInStep == Spec => [](TypeInv /\ RowsInv /\ PathInv)
<1>1. Init => PathInv
  <2> SUFFICES ASSUME Init, NEW c \in Clients
               PROVE  PathAsked(c) /\ InStep(c)
    BY DEF PathInv
  <2>1. Asked(c) = {} /\ inbox[c] = << >>
    BY DEF Init, ServerInit, Asked
  <2>2. client[c].main = "top" /\ ~ client[c].clean
    BY DEF Init, NewClient
  <2>3. DOMAIN inbox[c] = {}
    BY <2>1
  <2> QED
    BY <2>1, <2>2, <2>3 DEF PathAsked, NoPath, InStep, AskedFor
<1>2. TypeInv /\ TypeInv' /\ RowsInv /\ PathInv /\ [Next]_vars => PathInv'
  <2> SUFFICES ASSUME TypeInv, TypeInv', RowsInv, PathInv, [Next]_vars, Reliable',
                      NEW c \in Clients
               PROVE  PathAsked(c)' /\ InStep(c)'
    BY DEF PathInv
  <2>1. Reliable /\ StepView(c)
    BY ViewOfStep
  <2>2. Rows(c) /\ PathAsked(c) /\ InStep(c)
    BY <2>1 DEF RowsInv, PathInv
  <2>3. PathAsked(c)'
    BY <2>1, <2>2, PathStep
  <2>4. InStep(c)'
    BY <2>1, <2>2, InStepServer, InStepMain, InStepReceiver DEF StepView
  <2> QED
    BY <2>3, <2>4
<1> QED
  BY <1>1, <1>2, AlwaysRows, PTL DEF Spec

(* When the network is reliable and at worst the server is restarted and   *)
(* its database fails, the receive loop of a member never gets out of      *)
(* step.  It is ended by a text it cannot decode or by a timeout and by    *)
(* nothing else, even where the server stops between the two halves of a   *)
(* pair (server.py:149-153, client.py:54-61).                              *)
THEOREM PairsStayAligned ==
    ASSUME Faults \subseteq {"restart", "database"}
    PROVE  Spec => []PairsAligned
<1>1. TypeInv /\ PathInv => PairsAligned
  BY OnlyRestarts DEF PathInv, InStep, PairsAligned
<1> QED
  BY <1>1, AlwaysInStep, PTL

(* Then the prompt of a member to whom everything was shown is the one the *)
(* server would give, as long as it serves (client.py:74,                  *)
(* server.py:139-142).                                                     *)
THEOREM PromptsSettle ==
    ASSUME Faults \subseteq {"restart", "database"}
    PROVE  Spec => []SettledAgreement
<1>1. TypeInv /\ PathInv => SettledAgreement
  <2> SUFFICES ASSUME TypeInv, PathInv, NEW c \in Clients,
                      Member(c), serving, inbox[c] = << >>, client[c].receiver = "first"
               PROVE  client[c].display_path = PathText(cwd, executed)
    BY DEF SettledAgreement
  <2> DEFINE t == client[c].display_path
  <2>1. InStep(c)
    BY OnlyRestarts DEF PathInv
  <2>2. t.nth \in Nat /\ t.kind = "path" /\ Follows(<< >>, 0, t, users[c], cwd, executed)
    BY <2>1, LoopTexts DEF Member, InStep, Following, Served
  <2>3. t.nth = executed /\ t.path = cwd
    BY <2>2, FollowsNothing DEF Member
  <2>4. t \in [kind : {"path"}, path : Paths, nth : Nat]
    <3>1. t \in ShownTexts
      BY DEF TypeInv, ClientTyping, ClientType
    <3> HIDE DEF t
    <3> QED
      BY <2>2, <3>1 DEF ShownTexts, Texts
  <2> HIDE DEF t
  <2>5. t = PathText(cwd, executed)
    BY <2>2, <2>3, <2>4 DEF PathText
  <2> QED
    BY <2>5 DEF t
<1> QED
  BY <1>1, AlwaysInStep, PTL

(* Then a member is shown the shared commands in their order, each once    *)
(* and none left out: the receive loop is through with one only by moving  *)
(* the prompt on by one, and nothing else moves it (client.py:54-76).      *)
THEOREM CommandsShown ==
    ASSUME Faults \subseteq {"restart", "database"}
    PROVE  Spec => EveryCommandShown
<1>1. TypeInv /\ PathInv /\ Reliable' /\ [Next]_vars =>
        \A c \in Clients :
            (/\ client[c].clean
             /\ \/ client[c].receiver = "shown" /\ client'[c].receiver # "shown"
                \/ client'[c].display_path # client[c].display_path) =>
                client'[c].display_path.nth = client[c].display_path.nth + 1
  <2> SUFFICES ASSUME TypeInv, PathInv, Reliable', [Next]_vars, NEW c \in Clients, client[c].clean,
                      \/ client[c].receiver = "shown" /\ client'[c].receiver # "shown"
                      \/ client'[c].display_path # client[c].display_path
               PROVE  client'[c].display_path.nth = client[c].display_path.nth + 1
    OBVIOUS
  <2>1. Reliable /\ StepView(c)
    BY ViewOfStep
  <2>2. InStep(c) /\ client[c] \in ClientType /\ Mode(c)
    BY <2>1 DEF PathInv, TypeInv, ClientTyping
  <2>3. client[c].receiver # "none"
    BY <2>2 DEF Mode
  <2>4. MainNext(c) \/ ReceiverNext(c)
    BY <2>1 DEF StepView, Elsewhere, Answered, Broadcasted, Halted, Chunked, Restarted
  <2>5. ~ MainNext(c)
    <3>1. ~ Plain(c) /\ ~ Stalls(c) /\ ~ Join(c) /\ ~ LoginReply(c) /\ ~ PathReply(c)
      BY <2>3, JoinView, LoginReplyView, PathReplyView DEF Plain, Outside, Stalls
    <3>2. ~ Idles(c) /\ ~ Exit(c) /\ ~ SharedCmd(c)
      BY ExitView, SharedCmdView DEF Idles, SameLoop
    <3> QED
      BY <3>1, <3>2, MainView DEF Shares
  <2>6. \A r : Becomes(c, r) => client'[c] = r
    BY DEF Becomes, TypeInv, ClientTyping
  <2>7. Update(c)
    <3>1. ~ ReceiveOutput(c) /\ ~ ReceiverTimeout(c)
      BY <2>2, <2>6 DEF ReceiveOutput, ReceiverTimeout, ClientType
    <3>2. ~ ReceiveHeader(c)
      <4> DEFINE t == Received(c)
      <4>1. ReceiveHeader(c) =>
              /\ client[c].receiver = "first"
              /\ \/ client'[c] = [client[c] EXCEPT !.held = t, !.receiver = "second"]
                 \/ \E end \in {"dead", "undecoded"} : client'[c] = [client[c] EXCEPT !.receiver = end]
        BY <2>6 DEF ReceiveHeader
      <4> HIDE DEF t
      <4> QED
        BY <2>2, <4>1 DEF ClientType
    <3> QED
      BY <2>4, <2>5, <3>1, <3>2 DEF ReceiverNext
  <2> DEFINE w == PathText(client[c].held.path, client[c].held.nth)
  <2>8. /\ client[c].held.kind = "header" /\ w.nth = client[c].held.nth
        /\ client[c].held.nth = client[c].display_path.nth + 1
    BY <2>2, <2>7 DEF Update, InStep, PathText
  <2>9. client'[c] = [client[c] EXCEPT !.display_path = w, !.send_shared_cmd = FALSE, !.event = TRUE,
                                       !.held = None, !.receiver = "first"]
    BY <2>6, <2>7, <2>8 DEF Update, FirstWord
  <2> HIDE DEF w
  <2>10. client'[c].display_path = w
    BY <2>2, <2>9 DEF ClientType
  <2> QED
    BY <2>8, <2>10
<1>2. TypeInv => Reliable
  BY OnlyRestarts
<1> QED
  BY <1>1, <1>2, AlwaysInStep, PTL DEF Spec, EveryCommandShown

-------------------------------------------------------------------------------
(* Replies.  Before it joins a shared shell a client asks for one thing at *)
(* a time, and as long as it waits without a timeout it reads the reply    *)
(* before it asks again.                                                   *)

Expected(c) ==
    CASE client[c].main \in {"mount_reply", "cd_reply"} -> "valid"
      [] client[c].main = "run_reply" -> "run"
      [] client[c].main = "cp_reply" -> "copy"
      [] client[c].main = "exited" -> "logout"
      [] OTHER -> "nothing"

Subject(c) == IF client[c].main = "mount_reply" THEN client[c].server ELSE client[c].wanted

Asking(c) ==
    /\ \E i \in Asked(c) :
         /\ Asked(c) = {i}
         /\ packet_queue[i].type = Expected(c)
         /\ packet_queue[i].type = "valid" => packet_queue[i].path = Subject(c)
    /\ inbox[c] = << >>
    /\ ~ SendingTo(c)

(* The ith datagram in the inbox is the one to be received ith.            *)
Fits(c, i, text) ==
    /\ client[c].main \in {"mount_reply", "cd_reply", "run_reply", "cp_reply", "first_chunk"}
    /\ client[c].main \in {"mount_reply", "cd_reply"} =>
          i = 1 /\ text.kind = "status" /\ (IsYes(text) => Resolve(Subject(c)) \in Dirs)
    /\ client[c].main = "run_reply" => i = 1 /\ text.kind = "output"
    /\ client[c].main = "cp_reply" =>
          \/ i = 1 /\ text.kind = "status"
          \/ i > 1 /\ text.kind = "chunk" /\ IsYes(inbox[c][1])
    /\ client[c].main = "first_chunk" => text.kind = "chunk"

Told(c) ==
    /\ Asked(c) = {}
    /\ \A i \in DOMAIN inbox[c] : Fits(c, i, inbox[c][i])
    /\ SendingTo(c) => \/ client[c].main = "first_chunk"
                       \/ client[c].main = "cp_reply" /\ inbox[c] # << >> /\ IsYes(inbox[c][1])

Exchange(c) == Fresh(c) /\ ~ client[c].timed => Asking(c) \/ Told(c)

(* The directory mounted and the one shown are directories of the server.  *)
DirKnown(c) ==
    /\ client[c].main = "next_chunk" => client[c].timed
    /\ ~ client[c].timed =>
          /\ /\ ~ client[c].is_shared_shell /\ client[c].server # None
             /\ client[c].main \notin {"mount_reply", "crashed"}
             => Resolve(client[c].server) \in Dirs
          /\ AtPrivate(c) => Resolve(client[c].display_path.path) \in Dirs

ExchangeInv == Reliable => \A c \in Clients : Exchange(c) /\ DirKnown(c)

LEMMA AtRest ==
    ASSUME TypeInv, NEW c \in Clients, Exchange(c), Fresh(c), ~ client[c].timed,
           client[c].main \in {"top", "input"}
    PROVE  Asked(c) = {} /\ inbox[c] = << >> /\ ~ SendingTo(c)
<1>1. Expected(c) = "nothing"
  BY DEF Expected
<1>2. ~ Asking(c)
  <2>1. \A i \in Asked(c) : packet_queue[i].type # "nothing"
    BY QueueFacts DEF TypeInv, Requests, RequestTypes
  <2> QED
    BY <1>1, <2>1 DEF Asking
<1>3. Told(c)
  BY <1>2 DEF Exchange
<1>4. DOMAIN inbox[c] = {}
  BY <1>3 DEF Told, Fits
<1>5. inbox[c] = << >>
  <2>1. inbox[c] \in Seq(Texts)
    BY DEF TypeInv, ServerTyping
  <2>2. Len(inbox[c]) \in Nat /\ DOMAIN inbox[c] = 1 .. Len(inbox[c])
    BY <2>1
  <2>3. Len(inbox[c]) = 0
    <3>1. 1 \notin 1 .. Len(inbox[c])
      BY <1>4, <2>2
    <3> QED
      BY <2>2, <3>1
  <2> QED
    BY <2>1, <2>3, EmptySeq
<1> QED
  BY <1>3, <1>5 DEF Told

LEMMA Rests ==
    ASSUME NEW c \in Clients, Asked(c)' = {}, inbox'[c] = << >>, ~ SendingTo(c)'
    PROVE  Exchange(c)'
<1>1. DOMAIN inbox'[c] = {}
  OBVIOUS
<1>2. Told(c)'
  BY <1>1 DEF Told
<1> QED
  BY <1>2 DEF Exchange

LEMMA Asks ==
    ASSUME NEW c \in Clients, NEW r, Grew(c, r), Asked(c) = {}, inbox'[c] = << >>, ~ SendingTo(c)',
           r.type = Expected(c)', r.type = "valid" => r.path = Subject(c)'
    PROVE  Exchange(c)'
<1>1. PICK n \in Nat : n \in Asked(c)' /\ packet_queue'[n] = r /\ \A i \in Asked(c)' : i = n
  BY DEF Grew
<1>2. Asked(c)' = {n}
  BY <1>1
<1>3. Asking(c)'
  BY <1>1, <1>2 DEF Asking
<1> QED
  BY <1>3 DEF Exchange

LEMMA YesMeansOk ==
    /\ \A b \in BOOLEAN : Status(b) \in Texts /\ Status(b).kind = "status" /\ (IsYes(Status(b)) => b)
    /\ IsYes(Status(TRUE))
<1>1. ASSUME NEW b \in BOOLEAN
      PROVE  Status(b) \in Texts /\ Status(b).kind = "status" /\ (IsYes(Status(b)) => b)
  <2>1. Status(b) \in Texts /\ Status(b).kind = "status"
    BY DEF Status, Texts
  <2>2. Status(b).ok = b /\ Status(TRUE).ok = TRUE
    BY Zenon DEF Status
  <2>3. IsYes(Status(b)) => b
    BY <2>2, Zenon DEF IsYes
  <2> QED
    BY <2>1, <2>3
<1> QED
  BY <1>1 DEF IsYes

(* The reply to the one request is given.                                  *)
LEMMA ExchangeServed ==
    ASSUME TypeInv, TypeInv', NEW c \in Clients, Rows(c), Exchange(c),
           Elsewhere(c) \/ Answered(c) \/ Broadcasted(c) \/ Halted(c) \/ Chunked(c) \/ Restarted(c)
    PROVE  Exchange(c)'
<1>1. client'[c] = client[c]
  BY DEF Elsewhere, Answered, Broadcasted, Halted, Chunked, Restarted
<1> SUFFICES ASSUME Fresh(c), ~ client[c].timed, Asking(c) \/ Told(c)
             PROVE  Exchange(c)'
  BY <1>1 DEF Exchange, Fresh
<1>2. users[c] = 0
  BY DEF Rows
<1>3. CASE Kept(c) /\ inbox'[c] = inbox[c] /\ (SendingTo(c)' => SendingTo(c))
  <2>1. CASE Asking(c)
    <3>1. PICK i \in Asked(c) : /\ Asked(c) = {i}
                                /\ packet_queue[i].type = Expected(c)
                                /\ packet_queue[i].type = "valid" => packet_queue[i].path = Subject(c)
      BY <2>1 DEF Asking
    <3>2. PICK k \in {0, 1} :
            /\ \A j \in Asked(c) : j - k \in Asked(c)' /\ packet_queue'[j - k] = packet_queue[j]
            /\ \A j \in Asked(c)' : j + k \in Asked(c) /\ packet_queue'[j] = packet_queue[j + k]
      BY <1>3 DEF Kept
    <3>3. \A j \in Asked(c)' : j = i - k
      <4>1. \A j \in Asked(c)' : j \in Nat /\ j + k = i
        BY <3>1, <3>2, AskedNext
      <4> QED
        BY <4>1
    <3>4. i - k \in Asked(c)' /\ Asked(c)' = {i - k} /\ packet_queue'[i - k] = packet_queue[i]
      BY <3>1, <3>2, <3>3
    <3>5. Asking(c)'
      BY <1>1, <1>3, <2>1, <3>1, <3>4 DEF Asking, Expected, Subject
    <3> QED
      BY <3>5 DEF Exchange
  <2>2. CASE Told(c)
    <3>1. Asked(c)' = {}
      BY <1>3, <2>2 DEF Told, Kept
    <3>2. Told(c)'
      BY <1>1, <1>3, <2>2, <3>1 DEF Told, Fits, Subject
    <3> QED
      BY <3>2 DEF Exchange
  <2> QED
    BY <2>1, <2>2
<1>4. CASE Answered(c)
  <2>1. Asking(c)
    BY <1>4 DEF Told, Answered, Shrank
  <2>2. /\ Asked(c) = {1} /\ packet_queue[1].type = Expected(c)
        /\ packet_queue[1].type = "valid" => packet_queue[1].path = Subject(c)
    BY <1>4, <2>1 DEF Asking, Answered, Shrank
  <2>3. Asked(c)' = {}
    <3>1. \A i \in Asked(c)' : i \in Nat \ {0} /\ i + 1 = 1
      BY <1>4, <2>2, AskedNext DEF Answered, Shrank
    <3>2. \A i \in Asked(c)' : FALSE
      BY <3>1
    <3> QED
      BY <3>2
  <2>4. inbox[c] = << >>
    BY <2>1 DEF Asking
  <2>5. ASSUME NEW t, Gets(c, t)
        PROVE  DOMAIN inbox'[c] = {1} /\ inbox'[c][1] = t /\ inbox'[c] # << >>
    <3>1. inbox'[c] = <<t>>
      BY <2>4, <2>5 DEF Gets
    <3> QED
      BY <3>1
  <2>6. CASE packet_queue[1].type = "valid"
    <3> DEFINE found == Resolve(Subject(c)) \in Dirs
    <3>1. Gets(c, Status(found)) /\ ~ SendingTo(c)'
      BY <1>4, <2>2, <2>6 DEF Answered
    <3>2. found \in BOOLEAN
      OBVIOUS
    <3>3. client[c].main \in {"mount_reply", "cd_reply"}
      BY <2>2, <2>6 DEF Expected
    <3> HIDE DEF found
    <3>4. Status(found).kind = "status" /\ (IsYes(Status(found)) => found)
      BY <3>2, YesMeansOk
    <3> DEFINE t == Status(found)
    <3>5. DOMAIN inbox'[c] = {1} /\ inbox'[c][1] = t /\ t.kind = "status" /\ (IsYes(t) => found)
      BY <2>5, <3>1, <3>4
    <3> HIDE DEF t
    <3>6. Fits(c, 1, inbox[c][1])'
      BY <1>1, <3>3, <3>5 DEF Fits, Subject, found, IsYes
    <3>7. Told(c)'
      BY <2>3, <3>1, <3>5, <3>6 DEF Told
    <3> QED
      BY <3>7 DEF Exchange
  <2>7. CASE packet_queue[1].type = "run"
    <3>1. client[c].main = "run_reply" /\ ~ SendingTo(c)'
      BY <1>4, <2>2, <2>7 DEF Expected, Answered
    <3>2. CASE inbox'[c] = inbox[c]
      BY <2>3, <2>4, <3>1, <3>2, Rests
    <3>3. CASE \E w \in Outputs : Gets(c, Output(w))
      <4>1. PICK w \in Outputs : Gets(c, Output(w))
        BY <3>3
      <4>2. DOMAIN inbox'[c] = {1} /\ inbox'[c][1].kind = "output"
        BY <2>5, <4>1 DEF Output
      <4>3. Fits(c, 1, inbox[c][1])'
        BY <1>1, <3>1, <4>2 DEF Fits
      <4>4. Told(c)'
        BY <2>3, <3>1, <4>2, <4>3 DEF Told
      <4> QED
        BY <4>4 DEF Exchange
    <3> QED
      BY <1>4, <2>7, <3>2, <3>3 DEF Answered
  <2>8. CASE packet_queue[1].type = "copy"
    <3>1. client[c].main = "cp_reply"
      BY <2>2, <2>8 DEF Expected
    <3>2. PICK found \in BOOLEAN : Gets(c, Status(found)) /\ (SendingTo(c)' => found)
      BY <1>4, <2>8 DEF Answered
    <3>3. DOMAIN inbox'[c] = {1} /\ inbox'[c][1] = Status(found) /\ Status(found).kind = "status" /\ inbox'[c] # << >>
      BY <2>5, <3>2, YesMeansOk
    <3>4. SendingTo(c)' => IsYes(inbox'[c][1])
      <4>1. found => Status(found) = Status(TRUE)
        BY <3>2, Zenon
      <4> QED
        BY <3>2, <3>3, <4>1 DEF IsYes
    <3>5. Fits(c, 1, inbox[c][1])'
      BY <1>1, <3>1, <3>3 DEF Fits
    <3>6. Told(c)'
      BY <1>1, <2>3, <3>1, <3>3, <3>4, <3>5 DEF Told
    <3> QED
      BY <3>6 DEF Exchange
  <2>9. CASE packet_queue[1].type = "logout"
    BY <1>4, <2>3, <2>4, <2>9, Rests DEF Answered
  <2> QED
    BY <2>2, <2>6, <2>7, <2>8, <2>9, QueueFacts DEF Expected, TypeInv, Requests, RequestTypes
<1>5. CASE (Broadcasted(c) \/ Halted(c)) /\ ~ Kept(c)
  <2>1. 1 \in Asked(c) /\ packet_queue[1].type = "shared"
    BY <1>5 DEF Broadcasted, Halted, Shrank
  <2> QED
    BY <2>1 DEF Asking, Told, Expected
<1>6. CASE Chunked(c)
  <2>1. Told(c) /\ Kept(c) /\ SendingTo(c) /\ Gets(c, Chunk)
    BY <1>6 DEF Chunked, Asking
  <2>2. Asked(c)' = {}
    BY <2>1 DEF Told, Kept
  <2>3. Chunk \in Texts /\ Chunk.kind = "chunk"
    BY DEF Chunk, Texts
  <2> DEFINE n == Len(inbox[c]) + 1
  <2>4. /\ Len(inbox[c]) \in Nat
        /\ DOMAIN inbox[c] = 1 .. Len(inbox[c]) /\ DOMAIN inbox'[c] = 1 .. n
        /\ inbox'[c][n].kind = "chunk"
        /\ \A i \in DOMAIN inbox[c] : inbox'[c][i] = inbox[c][i]
    BY <2>1, <2>3, GetsFacts
  <2>5. inbox'[c] # << >>
    <3>1. 1 \in DOMAIN inbox'[c]
      BY <2>4
    <3> QED
      BY <3>1
  <2>6. CASE client[c].main = "first_chunk"
    <3>1. \A i \in DOMAIN inbox'[c] : inbox'[c][i].kind = "chunk"
      BY <2>1, <2>4, <2>6 DEF Told, Fits
    <3>2. Told(c)'
      BY <1>1, <2>2, <2>6, <3>1 DEF Told, Fits
    <3> QED
      BY <3>2 DEF Exchange
  <2>7. CASE client[c].main = "cp_reply"
    <3>1. inbox[c] # << >> /\ IsYes(inbox[c][1])
      BY <2>1, <2>7 DEF Told
    <3>2. 1 \in DOMAIN inbox[c] /\ n > 1
      BY <2>4, <3>1, BoxFacts, EmptySeq
    <3>3. inbox'[c][1] = inbox[c][1]
      BY <2>4, <3>2
    <3>4. \A i \in DOMAIN inbox'[c] : \/ i = 1 /\ inbox'[c][i].kind = "status"
                                      \/ i > 1 /\ inbox'[c][i].kind = "chunk"
      BY <2>1, <2>4, <2>7, <3>2 DEF Told, Fits
    <3>5. Told(c)'
      BY <1>1, <2>2, <2>5, <2>7, <3>1, <3>3, <3>4 DEF Told, Fits, IsYes
    <3> QED
      BY <3>5 DEF Exchange
  <2> QED
    BY <2>1, <2>6, <2>7 DEF Told
<1>7. CASE Restarted(c)
  <2>1. Asked(c)' = {} /\ ~ SendingTo(c)' /\ inbox'[c] = inbox[c]
    BY <1>7 DEF Restarted
  <2>2. CASE Asking(c)
    BY <2>1, <2>2, Rests DEF Asking
  <2>3. CASE Told(c)
    <3>1. Told(c)'
      BY <1>1, <2>1, <2>3 DEF Told, Fits, Subject
    <3> QED
      BY <3>1 DEF Exchange
  <2> QED
    BY <2>2, <2>3
<1> QED
  BY <1>2, <1>3, <1>4, <1>5, <1>6, <1>7 DEF Elsewhere, Broadcasted, Halted

(* A timeout on the socket, and nothing more is claimed.                   *)
LEMMA TimedEnough ==
    ASSUME NEW c \in Clients, client'[c].timed
    PROVE  Exchange(c)' /\ DirKnown(c)'
  BY DEF Exchange, DirKnown

LEMMA DirKnownSame ==
    ASSUME NEW c \in Clients, DirKnown(c),
           client'[c].timed => client[c].timed, client[c].timed => client'[c].timed,
           client'[c].main # "next_chunk",
           \/ client'[c].is_shared_shell \/ client'[c].main \in {"mount_reply", "crashed"}
           \/ /\ client'[c].server = client[c].server /\ ~ client[c].is_shared_shell
              /\ client[c].main \notin {"mount_reply", "crashed"},
           AtPrivate(c)' => AtPrivate(c) /\ client'[c].display_path = client[c].display_path
    PROVE  DirKnown(c)'
<1>1. CASE client[c].timed
  BY <1>1, TimedEnough
<1>2. CASE ~ client[c].timed
  <2>1. /\ ~ client'[c].is_shared_shell /\ client'[c].server # None
        /\ client'[c].main \notin {"mount_reply", "crashed"}
        => Resolve(client'[c].server) \in Dirs
    BY <1>2 DEF DirKnown
  <2>2. AtPrivate(c)' => Resolve(client'[c].display_path.path) \in Dirs
    BY <1>2 DEF DirKnown
  <2> QED
    BY <1>2, <2>1, <2>2 DEF DirKnown
<1> QED
  BY <1>1, <1>2

LEMMA ExchangeSilent ==
    ASSUME TypeInv, NEW c \in Clients, Exchange(c), Silent, SendingTo(c)' <=> SendingTo(c),
           client[c].main \in {"top", "input"}, client'[c].receiver = client[c].receiver,
           client[c].timed => client'[c].timed
    PROVE  Exchange(c)'
<1> SUFFICES ASSUME Fresh(c)', ~ client'[c].timed
             PROVE  Exchange(c)'
  BY DEF Exchange
<1>1. Fresh(c) /\ ~ client[c].timed
  BY DEF Fresh
<1>2. Asked(c) = {} /\ inbox[c] = << >> /\ ~ SendingTo(c)
  BY <1>1, AtRest
<1>3. Kept(c) /\ inbox'[c] = inbox[c]
  BY SilentKept DEF TypeInv
<1>4. Asked(c)' = {}
  BY <1>2, <1>3 DEF Kept
<1> QED
  BY <1>2, <1>3, <1>4, Rests

LEMMA ExchangeAsk ==
    ASSUME TypeInv, NEW c \in Clients, Exchange(c), SendingTo(c)' <=> SendingTo(c),
           NEW type \in RequestTypes, NEW path \in Paths, NEW cmd \in Cmds, type # "shared",
           Send(Request(c, type, path, cmd)),
           client[c].main = "input", client'[c].receiver = client[c].receiver,
           client[c].timed => client'[c].timed,
           Expected(c)' = type, type = "valid" => Subject(c)' = path
    PROVE  Exchange(c)'
<1> SUFFICES ASSUME Fresh(c)', ~ client'[c].timed
             PROVE  Exchange(c)'
  BY DEF Exchange
<1>1. Fresh(c) /\ ~ client[c].timed
  BY DEF Fresh
<1>2. Asked(c) = {} /\ inbox[c] = << >> /\ ~ SendingTo(c)
  BY <1>1, AtRest
<1> DEFINE r == Request(c, type, path, cmd)
<1>3. Grew(c, r) /\ inbox'[c] = inbox[c]
  BY SendGrows DEF TypeInv
<1>4. r.type = type /\ r.path = path
  BY DEF Request
<1> HIDE DEF r
<1> QED
  BY <1>2, <1>3, <1>4, Asks

(* The one datagram there was is taken.                                    *)
LEMMA ReplyTaken ==
    ASSUME TypeInv, TypeInv', NEW c \in Clients, Exchange(c), ~ client[c].timed,
           client[c].main \in {"mount_reply", "cd_reply", "run_reply"},
           Receive(c), SendingTo(c)' <=> SendingTo(c)
    PROVE  Fits(c, 1, Received(c)) /\ Exchange(c)'
<1>1. Fresh(c)
  BY DEF Fresh, TypeInv, ClientTyping, Mode, AtShared, AtPrivate, AtClient
<1>2. Kept(c) /\ inbox[c] # << >> /\ inbox'[c] = Tail(inbox[c]) /\ Received(c) = Head(inbox[c])
  BY ReceiveKept DEF TypeInv
<1>3. Told(c)
  BY <1>1, <1>2 DEF Exchange, Asking
<1>4. Received(c) = inbox[c][1] /\ 1 \in DOMAIN inbox[c]
  BY <1>2, TailFacts
<1>5. Fits(c, 1, Received(c))
  BY <1>3, <1>4 DEF Told
<1>6. \A i \in DOMAIN inbox[c] : i = 1
  BY <1>3 DEF Told, Fits
<1>7. inbox'[c] = << >>
  <2>1. Len(inbox[c]) \in Nat \ {0} /\ DOMAIN inbox[c] = 1 .. Len(inbox[c])
    BY <1>2, TailFacts
  <2>2. Len(inbox[c]) \in 1 .. Len(inbox[c])
    BY <2>1
  <2>3. Len(inbox[c]) = 1
    BY <1>6, <2>1, <2>2
  <2>4. Len(inbox'[c]) = 0
    BY <1>2, <2>3, BoxFacts, HeadTailProperties
  <2> QED
    BY <2>4, BoxFacts, EmptySeq
<1>8. Asked(c)' = {} /\ ~ SendingTo(c)'
  BY <1>2, <1>3 DEF Told, Kept
<1> QED
  BY <1>5, <1>7, <1>8, Rests

(* Everything a client does before it joins, step by step.                 *)
LEMMA OwnFields ==
    ASSUME TypeInv, NEW c \in Clients
    PROVE  /\ client[c] \in ClientType /\ Mode(c) /\ Below(c)
           /\ \A r : Becomes(c, r) => client'[c] = r
  BY DEF Becomes, TypeInv, ClientTyping

LEMMA ExchangeAtHome ==
    ASSUME TypeInv, TypeInv', NEW c \in Clients, Exchange(c), DirKnown(c),
           SendingTo(c)' <=> SendingTo(c),
           Top(c) \/ Exit(c) \/ MountShared(c) \/ LocalCd(c) \/ LocalRun(c) \/ EnterPrivate(c)
    PROVE  Exchange(c)' /\ DirKnown(c)'
<1>1. client[c] \in ClientType /\ Mode(c) /\ \A r : Becomes(c, r) => client'[c] = r
  BY OwnFields
<1>2. CASE Top(c)
  <2>1. /\ client[c].main = "top" /\ client'[c].main = "input" /\ client'[c].receiver = client[c].receiver
        /\ client'[c].timed = client[c].timed /\ client'[c].server = client[c].server
        /\ client'[c].is_shared_shell = client[c].is_shared_shell
        /\ client'[c].is_client_shell = client[c].is_client_shell
        /\ client'[c].display_path = client[c].display_path
        /\ Silent
    BY <1>1, <1>2 DEF Top, ClientType
  <2>2. Exchange(c)'
    BY <2>1, ExchangeSilent
  <2>3. DirKnown(c)'
    BY <2>1, DirKnownSame DEF AtPrivate
  <2> QED
    BY <2>2, <2>3
<1>3. CASE Exit(c)
  <2>1. /\ client[c].main = "input" /\ client'[c].receiver = client[c].receiver
        /\ client'[c].timed = client[c].timed
    BY <1>3, ExitView DEF SameLoop
  <2>2. /\ client'[c].server = client[c].server
        /\ client'[c].is_shared_shell = client[c].is_shared_shell
        /\ client'[c].is_client_shell = client[c].is_client_shell
        /\ client'[c].display_path = client[c].display_path
    BY <1>1, <1>3 DEF Exit, Then, ClientType
  <2>3. /\ client'[c].main \in {"exited", "crashed"}
        /\ client'[c].main = "crashed" => client[c].is_shared_shell
    BY <1>1, <1>3 DEF Exit, Then, ClientType
  <2>4. DirKnown(c)'
    BY <2>1, <2>2, <2>3, DirKnownSame DEF AtPrivate
  <2>5. CASE Silent
    BY <2>1, <2>4, <2>5, ExchangeSilent
  <2>6. CASE Send(Request(c, "logout", << >>, None)) /\ Becomes(c, Then(c, "exited"))
    <3>1. client'[c].main = "exited"
      BY <1>1, <2>6 DEF Then, ClientType
    <3>2. Expected(c)' = "logout"
      BY <3>1 DEF Expected
    <3>3. "logout" \in RequestTypes
      BY DEF RequestTypes
    <3>4. Exchange(c)'
      BY <2>1, <2>6, <3>2, <3>3, ExchangeAsk, RequestParts
    <3> QED
      BY <2>4, <3>4
  <2> QED
    BY <1>3, <2>5, <2>6 DEF Exit
<1>4. CASE MountShared(c)
  <2>1. PICK b \in Bases : Becomes(c, [Then(c, "top") EXCEPT !.server = b, !.is_shared_shell = TRUE, !.mounted = "shared"])
    BY <1>4 DEF MountShared
  <2>2. /\ client'[c].main = "top" /\ client'[c].receiver = client[c].receiver
        /\ client'[c].timed = client[c].timed
        /\ client'[c].is_shared_shell = TRUE /\ client'[c].is_client_shell = client[c].is_client_shell
    BY <1>1, <2>1 DEF Then, ClientType
  <2>3. client[c].main = "input" /\ client[c].is_client_shell /\ Silent
    BY <1>4 DEF MountShared, Typed, AtClient
  <2>4. Exchange(c)'
    BY <2>2, <2>3, ExchangeSilent
  <2>5. DirKnown(c)'
    BY <2>2, <2>3, DirKnownSame DEF AtPrivate
  <2> QED
    BY <2>4, <2>5
<1>5. CASE LocalCd(c) \/ LocalRun(c)
  <2>1. /\ client'[c].main \in {"top", "crashed"} /\ client'[c].receiver = client[c].receiver
        /\ client'[c].timed = client[c].timed /\ client'[c].server = client[c].server
        /\ client'[c].is_shared_shell = client[c].is_shared_shell
        /\ client'[c].is_client_shell = client[c].is_client_shell
    <3>1. CASE LocalCd(c)
      BY <1>1, <3>1 DEF LocalCd, Then, ClientType, Local
    <3>2. CASE LocalRun(c)
      BY <1>1, <3>2 DEF LocalRun, Then, ClientType
    <3> QED
      BY <1>5, <3>1, <3>2
  <2>2. client[c].main = "input" /\ client[c].is_client_shell /\ Silent
    BY <1>5 DEF LocalCd, LocalRun, Typed, AtClient
  <2>3. Exchange(c)'
    BY <2>1, <2>2, ExchangeSilent
  <2>4. DirKnown(c)'
    BY <2>1, <2>2, DirKnownSame DEF AtPrivate
  <2> QED
    BY <2>3, <2>4
<1>6. CASE EnterPrivate(c)
  <2> DEFINE p == PathText(client[c].server, 0)
  <2>1. p.path = client[c].server
    BY DEF PathText
  <2>2. client'[c] = [Then(c, "top") EXCEPT !.is_client_shell = FALSE, !.display_path = p]
    BY <1>1, <1>6 DEF EnterPrivate
  <2> HIDE DEF p
  <2>3. /\ client'[c].main = "top" /\ client'[c].receiver = client[c].receiver
        /\ client'[c].timed = client[c].timed /\ client'[c].server = client[c].server
        /\ client'[c].is_shared_shell = client[c].is_shared_shell
        /\ client'[c].display_path = p
    BY <1>1, <2>2 DEF Then, ClientType
  <2>4. /\ client[c].main = "input" /\ Silent /\ client[c].server # None /\ ~ client[c].is_shared_shell
    BY <1>6, ClientAssumption DEF EnterPrivate, Typed
  <2>5. Exchange(c)'
    BY <2>3, <2>4, ExchangeSilent
  <2>6. ~ client[c].timed => Resolve(client[c].server) \in Dirs
    BY <2>4 DEF DirKnown
  <2>7. DirKnown(c)'
    BY <2>1, <2>3, <2>4, <2>6 DEF DirKnown
  <2> QED
    BY <2>5, <2>7
<1> QED
  BY <1>2, <1>3, <1>4, <1>5, <1>6

LEMMA ExchangeAsks ==
    ASSUME TypeInv, TypeInv', NEW c \in Clients, Exchange(c), DirKnown(c),
           SendingTo(c)' <=> SendingTo(c),
           MountPrivate(c) \/ RemoteCd(c) \/ RemoteRun(c) \/ RemoteCp(c)
    PROVE  Exchange(c)' /\ DirKnown(c)'
<1>1. client[c] \in ClientType /\ Mode(c) /\ Below(c) /\ \A r : Becomes(c, r) => client'[c] = r
  BY OwnFields
<1>2. {"valid", "run", "copy"} \subseteq RequestTypes
  BY DEF RequestTypes
<1>3. CASE MountPrivate(c)
  <2>1. PICK b \in Bases : /\ Becomes(c, [Then(c, "mount_reply") EXCEPT !.server = b])
                           /\ Send(Request(c, "valid", b, None))
    BY <1>3 DEF MountPrivate
  <2>2. /\ client'[c].main = "mount_reply" /\ client'[c].receiver = client[c].receiver
        /\ client'[c].timed = client[c].timed /\ client'[c].server = b
        /\ client'[c].is_shared_shell = client[c].is_shared_shell
        /\ client'[c].is_client_shell = client[c].is_client_shell
    BY <1>1, <2>1 DEF Then, ClientType
  <2>3. client[c].main = "input" /\ client[c].is_client_shell
    BY <1>3 DEF MountPrivate, Typed, AtClient
  <2>4. Expected(c)' = "valid" /\ Subject(c)' = b
    BY <2>2 DEF Expected, Subject
  <2>5. b \in Paths
    BY ClientAssumption DEF Normal, Paths
  <2>6. Exchange(c)'
    BY <1>2, <2>1, <2>2, <2>3, <2>4, <2>5, ExchangeAsk, RequestParts
  <2>7. DirKnown(c)'
    BY <2>2, <2>3, DirKnownSame DEF AtPrivate
  <2> QED
    BY <2>6, <2>7
<1>4. CASE RemoteCd(c)
  <2> DEFINE shown == client[c].display_path.path
  <2>1. client[c].main = "input" /\ AtPrivate(c) /\ shown \in Paths
    BY <1>1, <1>4 DEF RemoteCd, Typed, Below
  <2>2. PICK name \in Names :
          \/ /\ Send(Request(c, "valid", Walk(shown, name), None))
             /\ Becomes(c, [Then(c, "cd_reply") EXCEPT !.wanted = Walk(shown, name)])
          \/ /\ Becomes(c, [Then(c, "top") EXCEPT !.is_client_shell = TRUE, !.display_path = Local])
             /\ Silent
    BY <1>4 DEF RemoteCd
  <2> DEFINE p == Walk(shown, name)
  <2>3. p \in Paths
    BY <2>1, <2>2, WalkTyped, ClientAssumption
  <2> HIDE DEF p
  <2>4. CASE /\ Send(Request(c, "valid", p, None))
             /\ Becomes(c, [Then(c, "cd_reply") EXCEPT !.wanted = p])
    <3>1. /\ client'[c].main = "cd_reply" /\ client'[c].receiver = client[c].receiver
          /\ client'[c].timed = client[c].timed /\ client'[c].server = client[c].server
          /\ client'[c].is_shared_shell = client[c].is_shared_shell
          /\ client'[c].is_client_shell = client[c].is_client_shell
          /\ client'[c].display_path = client[c].display_path /\ client'[c].wanted = p
      BY <1>1, <2>4 DEF Then, ClientType
    <3>2. Expected(c)' = "valid" /\ Subject(c)' = p
      BY <3>1 DEF Expected, Subject
    <3>3. Exchange(c)'
      BY <1>2, <2>1, <2>3, <2>4, <3>1, <3>2, ExchangeAsk, RequestParts
    <3>4. DirKnown(c)'
      BY <2>1, <3>1, DirKnownSame DEF AtPrivate
    <3> QED
      BY <3>3, <3>4
  <2>5. CASE /\ Becomes(c, [Then(c, "top") EXCEPT !.is_client_shell = TRUE, !.display_path = Local])
             /\ Silent
    <3> DEFINE l == Local
    <3>1. client'[c] = [Then(c, "top") EXCEPT !.is_client_shell = TRUE, !.display_path = l]
      BY <1>1, <2>5
    <3> HIDE DEF l
    <3>2. /\ client'[c].main = "top" /\ client'[c].receiver = client[c].receiver
          /\ client'[c].timed = client[c].timed /\ client'[c].server = client[c].server
          /\ client'[c].is_shared_shell = client[c].is_shared_shell
          /\ client'[c].is_client_shell = TRUE
      BY <1>1, <3>1 DEF Then, ClientType
    <3>3. Exchange(c)'
      BY <2>1, <2>5, <3>2, ExchangeSilent
    <3>4. DirKnown(c)'
      BY <2>1, <3>2, DirKnownSame DEF AtPrivate
    <3> QED
      BY <3>3, <3>4
  <2> QED
    BY <2>2, <2>4, <2>5 DEF p
<1>5. CASE RemoteRun(c)
  <2> DEFINE shown == client[c].display_path.path
  <2>1. client[c].main = "input" /\ shown \in Paths
    BY <1>1, <1>5 DEF RemoteRun, Typed, Below
  <2>2. PICK p \in Programs : Send(Request(c, "run", shown, p))
    BY <1>5 DEF RemoteRun
  <2>3. p \in Cmds
    BY DEF Cmds
  <2>4. client'[c] = Then(c, "run_reply")
    BY <1>1, <1>5 DEF RemoteRun
  <2> HIDE DEF shown
  <2>5. /\ client'[c].main = "run_reply" /\ client'[c].receiver = client[c].receiver
        /\ client'[c].timed = client[c].timed /\ client'[c].server = client[c].server
        /\ client'[c].is_shared_shell = client[c].is_shared_shell
        /\ client'[c].is_client_shell = client[c].is_client_shell
        /\ client'[c].display_path = client[c].display_path
    BY <1>1, <2>4 DEF Then, ClientType
  <2>6. Expected(c)' = "run"
    BY <2>5 DEF Expected
  <2>7. Exchange(c)'
    BY <1>2, <2>1, <2>2, <2>3, <2>5, <2>6, ExchangeAsk
  <2>8. DirKnown(c)'
    BY <2>1, <2>5, DirKnownSame DEF AtPrivate
  <2> QED
    BY <2>7, <2>8
<1>6. CASE RemoteCp(c)
  <2> DEFINE shown == client[c].display_path.path
  <2>1. client[c].main = "input" /\ shown \in Paths
    BY <1>1, <1>6 DEF RemoteCp, Typed, Below
  <2>2. PICK f \in CopyNames : Send(Request(c, "copy", Walk(shown, f), None))
    BY <1>6 DEF RemoteCp
  <2> DEFINE p == Walk(shown, f)
  <2>3. p \in Paths /\ Send(Request(c, "copy", p, None))
    BY <2>1, <2>2, WalkTyped, ClientAssumption
  <2>4. client'[c] = Then(c, "cp_reply")
    BY <1>1, <1>6 DEF RemoteCp
  <2> HIDE DEF p
  <2>5. /\ client'[c].main = "cp_reply" /\ client'[c].receiver = client[c].receiver
        /\ client'[c].timed = client[c].timed /\ client'[c].server = client[c].server
        /\ client'[c].is_shared_shell = client[c].is_shared_shell
        /\ client'[c].is_client_shell = client[c].is_client_shell
        /\ client'[c].display_path = client[c].display_path
    BY <1>1, <2>4 DEF Then, ClientType
  <2>6. Expected(c)' = "copy"
    BY <2>5 DEF Expected
  <2>7. Exchange(c)'
    BY <1>2, <2>1, <2>3, <2>5, <2>6, ExchangeAsk, RequestParts
  <2>8. DirKnown(c)'
    BY <2>1, <2>5, DirKnownSame DEF AtPrivate
  <2> QED
    BY <2>7, <2>8
<1> QED
  BY <1>3, <1>4, <1>5, <1>6

LEMMA ExchangeReplies ==
    ASSUME TypeInv, TypeInv', NEW c \in Clients, Exchange(c), DirKnown(c), ~ client[c].timed,
           SendingTo(c)' <=> SendingTo(c),
           MountReply(c) \/ CdReply(c) \/ RunReply(c)
    PROVE  Exchange(c)' /\ DirKnown(c)'
<1>1. client[c] \in ClientType /\ Mode(c) /\ \A r : Becomes(c, r) => client'[c] = r
  BY OwnFields
<1>2. client[c].main \in {"mount_reply", "cd_reply", "run_reply"} /\ Receive(c)
  BY DEF MountReply, CdReply, RunReply
<1>3. Fits(c, 1, Received(c)) /\ Exchange(c)'
  BY <1>2, ReplyTaken
<1>4. CASE MountReply(c)
  <2>1. client[c].main = "mount_reply" /\ client[c].is_client_shell
    BY <1>1, <1>4 DEF MountReply, Mode, AtClient
  <2>2. IsYes(Received(c)) => Resolve(client[c].server) \in Dirs
    BY <1>3, <2>1 DEF Fits, Subject
  <2>3. /\ client'[c].main = "top" /\ client'[c].timed = client[c].timed
        /\ client'[c].is_client_shell = client[c].is_client_shell
    BY <1>1, <1>4 DEF MountReply, ClientType
  <2>4. IF IsYes(Received(c)) THEN client'[c].server = client[c].server ELSE client'[c].server = None
    BY <1>1, <1>4 DEF MountReply, ClientType
  <2> QED
    BY <1>3, <2>1, <2>2, <2>3, <2>4 DEF DirKnown, AtPrivate
<1>5. CASE CdReply(c)
  <2> DEFINE p == PathText(client[c].wanted, 0)
  <2>1. p.path = client[c].wanted
    BY DEF PathText
  <2>2. client[c].main = "cd_reply"
    BY <1>5 DEF CdReply
  <2>3. IsYes(Received(c)) => Resolve(client[c].wanted) \in Dirs
    BY <1>3, <2>2 DEF Fits, Subject
  <2>4. IF IsYes(Received(c)) THEN client'[c] = [client[c] EXCEPT !.main = "top", !.display_path = p]
                              ELSE client'[c] = [client[c] EXCEPT !.main = "top"]
    BY <1>1, <1>5 DEF CdReply
  <2> HIDE DEF p
  <2>5. /\ client'[c].main = "top" /\ client'[c].timed = client[c].timed
        /\ client'[c].server = client[c].server
        /\ client'[c].is_shared_shell = client[c].is_shared_shell
        /\ client'[c].is_client_shell = client[c].is_client_shell
    BY <1>1, <2>4 DEF ClientType
  <2>6. client'[c].display_path = client[c].display_path \/ (IsYes(Received(c)) /\ client'[c].display_path = p)
    BY <1>1, <2>4 DEF ClientType
  <2> QED
    BY <1>3, <2>1, <2>2, <2>3, <2>5, <2>6 DEF DirKnown, AtPrivate
<1>6. CASE RunReply(c)
  <2>1. /\ client[c].main = "run_reply" /\ client'[c].main = "top" /\ client'[c].timed = client[c].timed
        /\ client'[c].server = client[c].server
        /\ client'[c].is_shared_shell = client[c].is_shared_shell
        /\ client'[c].is_client_shell = client[c].is_client_shell
        /\ client'[c].display_path = client[c].display_path
    BY <1>1, <1>6 DEF RunReply, ClientType
  <2> QED
    BY <1>3, <2>1 DEF DirKnown, AtPrivate
<1> QED
  BY <1>4, <1>5, <1>6

LEMMA ExchangeCopies ==
    ASSUME TypeInv, TypeInv', NEW c \in Clients, Exchange(c), DirKnown(c), ~ client[c].timed,
           SendingTo(c)' <=> SendingTo(c), CpReply(c) \/ CpChunk(c)
    PROVE  Exchange(c)' /\ DirKnown(c)'
<1>1. client[c] \in ClientType /\ Mode(c) /\ \A r : Becomes(c, r) => client'[c] = r
  BY OwnFields
<1>2. client[c].main \in {"cp_reply", "first_chunk"}
  BY DEF CpReply, CpChunk, DirKnown
<1>3. Fresh(c)
  BY <1>1, <1>2 DEF Fresh, Mode, AtPrivate, AtShared
<1>4. Kept(c) /\ inbox[c] # << >> /\ inbox'[c] = Tail(inbox[c]) /\ Received(c) = Head(inbox[c])
  BY ReceiveKept DEF CpReply, CpChunk, TypeInv
<1>5. /\ DOMAIN inbox[c] = 1 .. Len(inbox[c]) /\ Len(inbox[c]) \in Nat \ {0}
      /\ Received(c) = inbox[c][1] /\ inbox[c][1] \in Texts
      /\ DOMAIN inbox'[c] = 1 .. Len(inbox[c]) - 1
      /\ \A i \in DOMAIN inbox'[c] : i + 1 \in DOMAIN inbox[c] /\ inbox'[c][i] = inbox[c][i + 1]
  BY <1>4, TailFacts
<1>6. Told(c)
  BY <1>3, <1>4 DEF Exchange, Asking
<1>7. Asked(c)' = {}
  BY <1>4, <1>6 DEF Told, Kept
<1>8. CASE CpReply(c)
  <2>1. client[c].main = "cp_reply"
    BY <1>8 DEF CpReply
  <2>2. /\ client'[c].main = IF IsYes(inbox[c][1]) THEN "first_chunk" ELSE "top"
        /\ client'[c].timed = client[c].timed
        /\ client'[c].server = client[c].server
        /\ client'[c].is_shared_shell = client[c].is_shared_shell
        /\ client'[c].is_client_shell = client[c].is_client_shell
        /\ client'[c].display_path = client[c].display_path
    <3> DEFINE yes == IsYes(inbox[c][1])
               n == IF yes THEN "first_chunk" ELSE "top"
    <3>1. client'[c] = [client[c] EXCEPT !.main = n]
      BY <1>1, <1>5, <1>8 DEF CpReply
    <3> HIDE DEF n
    <3>2. /\ client'[c].main = n
          /\ client'[c].timed = client[c].timed
          /\ client'[c].server = client[c].server
          /\ client'[c].is_shared_shell = client[c].is_shared_shell
          /\ client'[c].is_client_shell = client[c].is_client_shell
          /\ client'[c].display_path = client[c].display_path
      BY <1>1, <3>1 DEF ClientType
    <3> QED
      BY <3>2 DEF n
  <2>3. DirKnown(c)'
    BY <2>1, <2>2 DEF DirKnown, AtPrivate
  <2>4. CASE IsYes(inbox[c][1])
    <3>1. ASSUME NEW i \in DOMAIN inbox'[c]
          PROVE  inbox'[c][i].kind = "chunk"
      <4>1. i + 1 \in DOMAIN inbox[c] /\ i + 1 # 1 /\ inbox'[c][i] = inbox[c][i + 1]
        BY <1>5
      <4>2. Fits(c, i + 1, inbox[c][i + 1])
        BY <1>6, <4>1 DEF Told
      <4> QED
        BY <2>1, <4>1, <4>2 DEF Fits
    <3>2. client'[c].main = "first_chunk"
      BY <2>2, <2>4
    <3>3. Told(c)'
      BY <1>7, <3>1, <3>2 DEF Told, Fits
    <3> QED
      BY <2>3, <3>3 DEF Exchange
  <2>5. CASE ~ IsYes(inbox[c][1])
    <3>1. ~ SendingTo(c)'
      BY <1>6, <2>1, <2>5 DEF Told
    <3>2. \A i \in DOMAIN inbox[c] : i = 1
      BY <1>6, <2>1, <2>5 DEF Told, Fits
    <3>3. inbox'[c] = << >>
      <4>1. Len(inbox[c]) \in DOMAIN inbox[c]
        BY <1>5
      <4>2. Len(inbox[c]) = 1
        BY <3>2, <4>1
      <4>3. Len(inbox'[c]) = 0
        BY <1>4, <4>2, BoxFacts, HeadTailProperties
      <4> QED
        BY <4>3, BoxFacts, EmptySeq
    <3> QED
      BY <1>7, <2>3, <3>1, <3>3, Rests
  <2> QED
    BY <2>4, <2>5
<1>9. CASE CpChunk(c)
  <2>1. client[c].main = "first_chunk"
    BY <1>9 DEF CpChunk, DirKnown
  <2>2. inbox[c][1].kind = "chunk"
    BY <1>5, <1>6, <2>1 DEF Told, Fits
  <2>3. ~ IsEmpty(Received(c))
    BY <1>5, <2>2 DEF IsEmpty
  <2>4. client'[c].timed
    BY <1>1, <1>9, <2>3 DEF CpChunk, ClientType
  <2> QED
    BY <2>4, TimedEnough
<1> QED
  BY <1>8, <1>9

(* A datagram that cannot be decoded, and nothing more is claimed.         *)
LEMMA ExchangeUndecoded ==
    ASSUME TypeInv, NEW c \in Clients, DirKnown(c), DecodeError(c)
    PROVE  Exchange(c)' /\ DirKnown(c)'
<1>1. client[c] \in ClientType /\ client'[c] = [client[c] EXCEPT !.main = "crashed"]
  BY OwnFields DEF DecodeError
<1>2. /\ client'[c].main = "crashed" /\ client'[c].timed = client[c].timed
      /\ client'[c].is_shared_shell = client[c].is_shared_shell
      /\ client'[c].is_client_shell = client[c].is_client_shell
      /\ client'[c].display_path = client[c].display_path
  BY <1>1 DEF ClientType
<1> QED
  BY <1>2 DEF Exchange, Fresh, DirKnown, AtPrivate

LEMMA ExchangeTimed ==
    ASSUME TypeInv, NEW c \in Clients, client[c].timed, MainNext(c) \/ ReceiverNext(c)
    PROVE  client'[c].timed
<1>1. client[c] \in ClientType /\ Mode(c) /\ \A r : Becomes(c, r) => client'[c] = r
  BY OwnFields
<1>2. CASE Top(c) \/ MountReply(c) \/ LocalCd(c) \/ LocalRun(c) \/ Join(c) \/ LoginReply(c) \/ RunReply(c)
  BY <1>1, <1>2 DEF Top, MountReply, LocalCd, LocalRun, Join, LoginReply, RunReply, Then, ClientType, Local
<1>3. CASE Exit(c) \/ SharedCmd(c)
  BY <1>3, ExitView, SharedCmdView DEF SameLoop
<1>4. CASE MountShared(c) \/ MountPrivate(c)
  BY <1>1, <1>4 DEF MountShared, MountPrivate, Then, ClientType
<1>5. CASE \/ RemoteRun(c) \/ RemoteCp(c) \/ CpReply(c) \/ CpChunk(c) \/ CpTimeout(c) \/ MainTimeout(c)
           \/ DecodeError(c) \/ EventWait(c)
  BY <1>1, <1>5 DEF RemoteRun, RemoteCp, CpReply, CpChunk, CpTimeout, MainTimeout, DecodeError, EventWait,
                    Then, ClientType
<1>6. CASE PathReply(c)
  BY <1>1, <1>6 DEF PathReply, ClientType
<1>7. CASE EnterPrivate(c)
  BY <1>1, <1>7 DEF EnterPrivate, Then, ClientType
<1>8. CASE RemoteCd(c)
  BY <1>1, <1>8 DEF RemoteCd, Then, ClientType, Local
<1>9. CASE CdReply(c)
  BY <1>1, <1>9 DEF CdReply, ClientType
<1>10. CASE ReceiverNext(c)
  BY <1>10, ReceiverView
<1> QED
  BY <1>2, <1>3, <1>4, <1>5, <1>6, <1>7, <1>8, <1>9, <1>10 DEF MainNext

(* On the way into a shared shell and in it.                               *)
LEMMA ExchangeShared ==
    ASSUME TypeInv, NEW c \in Clients, DirKnown(c), ~ client[c].timed,
           \/ Join(c) \/ LoginReply(c) \/ PathReply(c) \/ SharedCmd(c) \/ EventWait(c) \/ ReceiverNext(c)
    PROVE  Exchange(c)' /\ DirKnown(c)'
<1>1. client[c] \in ClientType /\ Mode(c) /\ \A r : Becomes(c, r) => client'[c] = r
  BY OwnFields
<1>2. client[c].is_shared_shell
  <2>1. CASE Join(c) \/ LoginReply(c) \/ PathReply(c)
    BY <1>1, <2>1 DEF Join, LoginReply, PathReply, Mode
  <2>2. CASE SharedCmd(c) \/ EventWait(c)
    BY <1>1, <2>2 DEF SharedCmd, EventWait, Mode, AtShared
  <2>3. CASE ReceiverNext(c)
    BY <1>1, <2>3, ReceiverView DEF Mode, AtShared
  <2> QED
    BY <2>1, <2>2, <2>3
<1>3. client'[c].is_shared_shell
  <2>1. CASE Join(c) \/ LoginReply(c)
    BY <1>1, <1>2, <2>1 DEF Join, LoginReply, Then, ClientType
  <2>2. CASE PathReply(c)
    BY <1>1, <1>2, <2>2 DEF PathReply, ClientType
  <2>3. CASE SharedCmd(c) \/ EventWait(c)
    BY <1>1, <1>2, <2>3 DEF SharedCmd, EventWait, Then, ClientType
  <2>4. CASE ReceiveHeader(c) \/ ReceiveOutput(c) \/ ReceiverTimeout(c)
    BY <1>1, <1>2, <2>4 DEF ReceiveHeader, ReceiveOutput, ReceiverTimeout, ClientType
  <2>5. CASE Update(c)
    <3> DEFINE w == FirstWord(client[c].held)
    <3>1. client'[c] = [client[c] EXCEPT !.display_path = w, !.send_shared_cmd = FALSE, !.event = TRUE,
                                         !.held = None, !.receiver = "first"]
      BY <1>1, <2>5 DEF Update
    <3> HIDE DEF w
    <3> QED
      BY <1>1, <1>2, <3>1 DEF ClientType
  <2> QED
    BY <2>1, <2>2, <2>3, <2>4, <2>5 DEF ReceiverNext
<1>4. ~ AtPrivate(c)'
  BY <1>3 DEF AtPrivate
<1>5. client'[c].main # "next_chunk" /\ ~ Fresh(c)'
  <2>1. CASE Join(c) \/ LoginReply(c) \/ PathReply(c)
    BY <2>1, JoinView, LoginReplyView, PathReplyView DEF Fresh
  <2>2. CASE SharedCmd(c)
    BY <2>2, SharedCmdView DEF Fresh, SameLoop
  <2>3. CASE EventWait(c)
    BY <1>1, <2>3 DEF EventWait, Mode, Fresh, ClientType
  <2>4. CASE ReceiverNext(c)
    BY <2>4, ReceiverView DEF Fresh, DirKnown
  <2> QED
    BY <2>1, <2>2, <2>3, <2>4
<1> QED
  BY <1>3, <1>4, <1>5 DEF Exchange, DirKnown

LEMMA ExchangeStep ==
    ASSUME TypeInv, TypeInv', NEW c \in Clients, Rows(c), Exchange(c), DirKnown(c), StepView(c)
    PROVE  Exchange(c)' /\ DirKnown(c)'
<1>1. CASE Elsewhere(c) \/ Answered(c) \/ Broadcasted(c) \/ Halted(c) \/ Chunked(c) \/ Restarted(c)
  <2>1. client'[c] = client[c]
    BY <1>1 DEF Elsewhere, Answered, Broadcasted, Halted, Chunked, Restarted
  <2>2. DirKnown(c)'
    BY <2>1 DEF DirKnown, AtPrivate
  <2> QED
    BY <1>1, <2>2, ExchangeServed
<1>2. CASE (MainNext(c) \/ ReceiverNext(c)) /\ (SendingTo(c)' <=> SendingTo(c))
  <2>1. CASE client[c].timed
    BY <1>2, <2>1, ExchangeTimed, TimedEnough
  <2>2. CASE ~ client[c].timed
    <3>1. ~ CpTimeout(c) /\ ~ MainTimeout(c)
      BY <2>2 DEF CpTimeout, MainTimeout, DirKnown
    <3> QED
      BY <1>2, <2>2, <3>1, ExchangeAtHome, ExchangeAsks, ExchangeReplies, ExchangeCopies, ExchangeShared,
         ExchangeUndecoded DEF MainNext
  <2> QED
    BY <2>1, <2>2
<1> QED
  BY <1>1, <1>2 DEF StepView

LEMMA AlwaysExchange == Spec => [](TypeInv /\ RowsInv /\ ExchangeInv)
<1>1. Init => ExchangeInv
  <2> SUFFICES ASSUME Init, NEW c \in Clients
               PROVE  Exchange(c) /\ DirKnown(c)
    BY DEF ExchangeInv
  <2>1. Asked(c) = {} /\ inbox[c] = << >> /\ ~ SendingTo(c)
    BY DEF Init, ServerInit, Asked, SendingTo
  <2>2. client[c].main = "top" /\ client[c].is_client_shell /\ client[c].server = None
    BY DEF Init, NewClient
  <2>3. DOMAIN inbox[c] = {}
    BY <2>1
  <2> QED
    BY <2>1, <2>2, <2>3 DEF Exchange, Told, DirKnown, AtPrivate
<1>2. TypeInv /\ TypeInv' /\ RowsInv /\ ExchangeInv /\ [Next]_vars => ExchangeInv'
  <2> SUFFICES ASSUME TypeInv, TypeInv', RowsInv, ExchangeInv, [Next]_vars, Reliable',
                      NEW c \in Clients
               PROVE  Exchange(c)' /\ DirKnown(c)'
    BY DEF ExchangeInv
  <2>1. Reliable /\ StepView(c)
    BY ViewOfStep
  <2>2. Rows(c) /\ Exchange(c) /\ DirKnown(c)
    BY <2>1 DEF RowsInv, ExchangeInv
  <2> QED
    BY <2>1, <2>2, ExchangeStep
<1> QED
  BY <1>1, <1>2, AlwaysRows, PTL DEF Spec

(* Whatever the faults: while none of them has lost or duplicated a        *)
(* datagram and no copy has left its timeout on the socket, the prompt of  *)
(* a private shell shows a directory of the server (client.py:159-163).    *)
THEOREM PrivateShowsDirectories == Spec => []UntimedDirExists
<1>1. ExchangeInv => UntimedDirExists
  BY DEF ExchangeInv, DirKnown, UntimedDirExists
<1> QED
  BY <1>1, AlwaysExchange, PTL

(* And the reply that comes next is the one to the request that was made   *)
(* (network_helper.py:8-56).                                               *)
THEOREM RepliesAreMatched == Spec => []RepliesMatch
<1>1. TypeInv /\ ExchangeInv => RepliesMatch
  <2> SUFFICES ASSUME TypeInv, ExchangeInv, NEW c \in Clients,
                      Reliable, ~ client[c].timed, inbox[c] # << >>
               PROVE  /\ client[c].main \in {"mount_reply", "cd_reply", "cp_reply"} => Received(c).kind = "status"
                      /\ client[c].main = "run_reply" => Received(c).kind = "output"
    BY DEF RepliesMatch
  <2> SUFFICES ASSUME client[c].main \in {"mount_reply", "cd_reply", "cp_reply", "run_reply"}
               PROVE  /\ client[c].main \in {"mount_reply", "cd_reply", "cp_reply"} => Received(c).kind = "status"
                      /\ client[c].main = "run_reply" => Received(c).kind = "output"
    OBVIOUS
  <2>1. Fresh(c)
    BY DEF Fresh, TypeInv, ClientTyping, Mode, AtShared, AtPrivate, AtClient
  <2>2. Told(c)
    BY <2>1 DEF ExchangeInv, Exchange, Asking
  <2>3. Received(c) = inbox[c][1] /\ 1 \in DOMAIN inbox[c]
    <3>1. inbox[c] \in Seq(Texts)
      BY DEF TypeInv, ServerTyping
    <3>2. Len(inbox[c]) \in Nat \ {0}
      BY <3>1, EmptySeq
    <3> QED
      BY <3>1, <3>2 DEF Received
  <2>4. Fits(c, 1, Received(c))
    BY <2>2, <2>3 DEF Told
  <2> QED
    BY <2>4 DEF Fits
<1> QED
  BY <1>1, AlwaysExchange, PTL

-------------------------------------------------------------------------------
(* Wakeups.  From here on the server is not restarted either: what it has  *)
(* forgotten it cannot answer.                                             *)

(* The login of a client that joins is on its way, has been handled and    *)
(* has left a row, or has been answered by something that is not a yes.    *)
LoggingIn(c) ==
    \/ /\ AskedFor(c, "login") # {} /\ Asked(c) = AskedFor(c, "login")
       /\ inbox[c] = << >> /\ ~ SendingTo(c)
    \/ users[c] > 0
    \/ inbox[c] # << >> /\ ~ IsYes(inbox[c][1])

LoggedIn(c) == users[c] > 0 \/ client[c].refused

(* Once it has joined a client is a member until it exits, unless its      *)
(* login was refused.                                                      *)
StaysMember(c) ==
    /\ AskedFor(c, "logout") # {} => client[c].main = "exited"
    /\ ~ client[c].timed =>
          /\ client[c].main = "login_reply" => LoggingIn(c)
          /\ client[c].main = "path_reply" => LoggedIn(c)
          /\ client[c].clean /\ client[c].main # "exited" => LoggedIn(c)

HasHeader(c) == \E i \in DOMAIN inbox[c] : inbox[c][i].kind = "header" /\ inbox[c][i].by = c

Awaits(c) ==
    /\ client[c].main = "event_wait" /\ ~ client[c].event
    /\ client[c].clean /\ ~ client[c].timed
    /\ client[c].receiver # "undecoded"
    /\ ~ ShutOut(c)
    /\ serving

Wakeful(c) ==
    Awaits(c) =>
        \/ AskedFor(c, "shared") # {}
        \/ HasHeader(c)
        \/ client[c].receiver \in {"second", "shown"}

(* The main thread that has ended takes no step.                           *)
LEMMA EndedStays ==
    ASSUME NEW c \in Clients, MainNext(c)
    PROVE  client[c].main \notin {"exited", "crashed"}
  BY DEF MainNext, Top, Exit, MountShared, MountPrivate, MountReply, LocalCd, LocalRun, Join,
         LoginReply, PathReply, EnterPrivate, RemoteCd, CdReply, RemoteRun, RunReply, RemoteCp, CpReply,
         CpChunk, CpTimeout, MainTimeout, DecodeError, SharedCmd, EventWait, Typed, Waits

LEMMA NoRestart ==
    ASSUME Faults \subseteq {"database"}
    PROVE  ~ Restart
  BY DEF Restart, Fault

(* What is behind in an inbox does not change what is in front.            *)
LEMMA FrontStays ==
    ASSUME TypeInv, TypeInv', NEW c \in Clients, Rows(c), inbox[c] # << >>,
           Elsewhere(c) \/ Answered(c) \/ Broadcasted(c) \/ Halted(c) \/ Chunked(c)
    PROVE  inbox'[c] # << >> /\ inbox'[c][1] = inbox[c][1]
<1>1. inbox[c] \in Seq(Texts) /\ inbox'[c] \in Seq(Texts) /\ Len(inbox[c]) \in Nat \ {0}
  BY BoxFacts, EmptySeq
<1>2. 1 \in DOMAIN inbox[c]
  BY <1>1
<1>3. CASE Broadcasted(c) \/ Halted(c)
  <2>1. 1 \in DOMAIN inbox'[c] /\ inbox'[c][1] = inbox[c][1]
    BY <1>2, <1>3, PairsGoOn, HalvesGoOn
  <2> QED
    BY <2>1
<1>4. CASE \E t : Gets(c, t)
  <2>1. PICK t : Gets(c, t)
    BY <1>4
  <2>2. inbox[c] \in Seq(Texts \cup {t})
    BY <1>1, SeqMonotonic
  <2>3. /\ DOMAIN inbox'[c] = 1 .. Len(inbox[c]) + 1
        /\ \A i \in 1 .. Len(inbox[c]) : inbox'[c][i] = inbox[c][i]
    BY <2>1, <2>2, AppendProperties DEF Gets
  <2>4. 1 \in DOMAIN inbox'[c] /\ inbox'[c][1] = inbox[c][1]
    BY <1>1, <2>3
  <2> QED
    BY <2>4
<1>5. CASE inbox'[c] = inbox[c]
  BY <1>5
<1>6. CASE Answered(c)
  <2>1. packet_queue[1].type \in RequestTypes
    BY <1>6, QueueFacts DEF TypeInv, Answered, Shrank, Requests
  <2> QED
    BY <1>4, <1>5, <1>6, <2>1 DEF Answered, RequestTypes
<1> QED
  BY <1>3, <1>4, <1>5, <1>6 DEF Elsewhere, Chunked

(* A login is handled, or it is still on its way.                          *)
LEMMA LoginServed ==
    ASSUME TypeInv, TypeInv', NEW c \in Clients, Rows(c), LoggingIn(c), AskedFor(c, "logout") = {},
           Elsewhere(c) \/ Answered(c) \/ Broadcasted(c) \/ Halted(c) \/ Chunked(c)
    PROVE  LoggingIn(c)'
<1>1. users[c] \in Nat /\ users'[c] \in Nat
  BY DEF TypeInv, ServerTyping
<1>2. CASE inbox[c] # << >> /\ ~ IsYes(inbox[c][1])
  <2>1. inbox'[c] # << >> /\ inbox'[c][1] = inbox[c][1]
    BY <1>2, FrontStays
  <2> QED
    BY <1>2, <2>1 DEF LoggingIn, IsYes
<1>3. CASE Answered(c)
  <2>1. 1 \in Asked(c) /\ packet_queue[1].type \in RequestTypes /\ packet_queue[1].type # "logout"
    BY <1>3, QueueFacts DEF TypeInv, Answered, Shrank, Requests, AskedFor
  <2>2. CASE users[c] > 0
    <3>1. users'[c] > 0
      BY <1>1, <1>3, <2>1, <2>2 DEF Answered
    <3> QED
      BY <3>1 DEF LoggingIn
  <2>3. CASE Asked(c) = AskedFor(c, "login") /\ inbox[c] = << >>
    <3>1. packet_queue[1].type = "login"
      BY <2>1, <2>3 DEF AskedFor
    <3>2. PICK ok \in BOOLEAN : Gets(c, Status(ok)) /\ (ok => users'[c] = users[c] + 1)
      BY <1>3, <3>1 DEF Answered
    <3>3. CASE ok
      BY <1>1, <3>2, <3>3 DEF LoggingIn
    <3>4. CASE ~ ok
      <4>1. inbox'[c] # << >> /\ inbox'[c][1] = Status(ok)
        BY <2>3, <3>2 DEF Gets
      <4>2. ~ IsYes(Status(ok))
        BY <3>2, <3>4, YesMeansOk
      <4> QED
        BY <4>1, <4>2 DEF LoggingIn, IsYes
    <3> QED
      BY <3>3, <3>4
  <2> QED
    BY <1>2, <2>2, <2>3 DEF LoggingIn
<1>4. CASE ~ Answered(c) /\ users[c] > 0
  <2>1. users'[c] = users[c]
    BY <1>4 DEF Elsewhere, Broadcasted, Halted, Chunked
  <2> QED
    BY <1>4, <2>1 DEF LoggingIn
<1>5. CASE /\ ~ Answered(c) /\ ~ (users[c] > 0)
           /\ AskedFor(c, "login") # {} /\ Asked(c) = AskedFor(c, "login")
           /\ inbox[c] = << >> /\ ~ SendingTo(c)
  <2>1. users[c] = 0
    BY <1>1, <1>5
  <2>2. Kept(c)
    <3>1. \A i \in Asked(c) : packet_queue[i].type = "login"
      BY <1>5 DEF AskedFor
    <3> QED
      BY <1>5, <3>1 DEF Elsewhere, Broadcasted, Halted, Chunked, Shrank
  <2>3. inbox'[c] = inbox[c] /\ ~ SendingTo(c)'
    BY <1>5, <2>1 DEF Elsewhere, Broadcasted, Halted, Chunked
  <2>4. AskedFor(c, "login")' # {} /\ Asked(c)' = AskedFor(c, "login")'
    BY <1>5, <2>2 DEF Kept, AskedFor
  <2> QED
    BY <1>5, <2>3, <2>4 DEF LoggingIn
<1> QED
  BY <1>2, <1>3, <1>4, <1>5 DEF LoggingIn

LEMMA MemberServed ==
    ASSUME TypeInv, TypeInv', NEW c \in Clients, Rows(c), StaysMember(c),
           Elsewhere(c) \/ Answered(c) \/ Broadcasted(c) \/ Halted(c) \/ Chunked(c)
    PROVE  StaysMember(c)'
<1>1. users[c] \in Nat /\ users'[c] \in Nat
  BY DEF TypeInv, ServerTyping
<1>2. AskedFor(c, "logout")' # {} => AskedFor(c, "logout") # {}
  <2>1. CASE Kept(c)
    BY <2>1 DEF Kept, AskedFor
  <2>2. CASE Shrank(c)
    BY <2>2 DEF Shrank, AskedFor
  <2> QED
    BY <2>1, <2>2 DEF Elsewhere, Answered, Broadcasted, Halted, Chunked
<1>3. client'[c] = client[c]
  BY DEF Elsewhere, Answered, Broadcasted, Halted, Chunked
<1>4. ASSUME client[c].main # "exited", LoggedIn(c)
      PROVE  LoggedIn(c)'
  <2>1. AskedFor(c, "logout") = {}
    BY <1>4 DEF StaysMember
  <2>2. users[c] > 0 => users'[c] > 0
    <3>1. CASE Answered(c)
      <4>1. packet_queue[1].type # "logout"
        BY <2>1, <3>1 DEF Answered, Shrank, AskedFor
      <4> QED
        BY <1>1, <3>1, <4>1 DEF Answered
    <3> QED
      BY <3>1 DEF Elsewhere, Broadcasted, Halted, Chunked
  <2> QED
    BY <1>3, <1>4, <2>2 DEF LoggedIn
<1>5. ASSUME client[c].main = "login_reply", LoggingIn(c)
      PROVE  LoggingIn(c)'
  <2>1. AskedFor(c, "logout") = {}
    BY <1>5 DEF StaysMember
  <2> QED
    BY <1>5, <2>1, LoginServed
<1> QED
  BY <1>2, <1>3, <1>4, <1>5 DEF StaysMember

LEMMA MemberOwn ==
    ASSUME TypeInv, TypeInv', NEW c \in Clients, Exchange(c), StaysMember(c),
           MainNext(c) \/ ReceiverNext(c), users'[c] = users[c], SendingTo(c)' <=> SendingTo(c)
    PROVE  StaysMember(c)'
<1>1. Mode(c) /\ (client[c].timed => client'[c].timed)
  BY ExchangeTimed DEF TypeInv, ClientTyping
<1>2. ASSUME MainNext(c), Kept(c) \/ \E r \in Requests : r.type # "logout" /\ Grew(c, r)
      PROVE  AskedFor(c, "logout")' = {}
  <2>1. AskedFor(c, "logout") = {}
    BY <1>2, EndedStays DEF StaysMember
  <2> QED
    BY <1>2, <2>1 DEF Kept, Grew, AskedFor
<1>3. CASE Plain(c) \/ Stalls(c)
  <2>1. MainNext(c) \/ ReceiverNext(c)
    OBVIOUS
  <2>2. Kept(c) \/ \E r \in Requests : r.type # "logout" /\ Grew(c, r)
    BY <1>3 DEF Plain, Stalls
  <2>3. ~ ReceiverNext(c)
    BY <1>3, ReceiverView DEF Plain, Outside, Stalls
  <2>4. AskedFor(c, "logout")' = {}
    BY <1>2, <2>1, <2>2, <2>3
  <2> QED
    BY <1>3, <2>4 DEF Plain, Outside, Stalls, StaysMember
<1>4. CASE Idles(c) /\ MainNext(c)
  <2>1. AskedFor(c, "logout")' = {}
    BY <1>2, <1>4 DEF Idles
  <2> QED
    BY <1>1, <1>4, <2>1 DEF Idles, StaysMember, LoggedIn
<1>5. CASE Join(c) /\ MainNext(c)
  <2>1. PICK r \in Requests : r.type = "login" /\ Grew(c, r)
    BY <1>5, JoinView
  <2>2. AskedFor(c, "logout")' = {}
    BY <1>2, <1>5, <2>1
  <2>3. ASSUME ~ client[c].timed
        PROVE  LoggingIn(c)'
    <3>1. client[c].main = "input" /\ Fresh(c) /\ inbox'[c] = inbox[c]
      BY <1>5, JoinView DEF Fresh
    <3>2. Asked(c) = {} /\ inbox[c] = << >> /\ ~ SendingTo(c)
      BY <2>3, <3>1, AtRest
    <3>3. PICK n \in Nat : n \in Asked(c)' /\ packet_queue'[n] = r /\ \A i \in Asked(c)' : i = n
      BY <2>1, <3>2 DEF Grew
    <3>4. AskedFor(c, "login")' # {} /\ Asked(c)' = AskedFor(c, "login")'
      BY <2>1, <3>3 DEF AskedFor
    <3> QED
      BY <3>1, <3>2, <3>4 DEF LoggingIn
  <2> QED
    BY <1>1, <1>5, <2>2, <2>3, JoinView DEF StaysMember
<1>6. CASE LoginReply(c) /\ MainNext(c)
  <2>1. PICK r \in Requests : r.type = "path" /\ Grew(c, r)
    BY <1>6, LoginReplyView
  <2>2. AskedFor(c, "logout")' = {}
    BY <1>2, <1>6, <2>1
  <2>3. ASSUME ~ client[c].timed
        PROVE  LoggedIn(c)'
    <3>1. /\ client[c].main = "login_reply" /\ inbox[c] # << >> /\ inbox'[c] = Tail(inbox[c])
          /\ client'[c].refused = ~ IsYes(Head(inbox[c]))
      BY <1>6, LoginReplyView
    <3>2. Head(inbox[c]) = inbox[c][1]
      BY <3>1, TailFacts
    <3> QED
      BY <2>3, <3>1, <3>2 DEF StaysMember, LoggingIn, LoggedIn
  <2> QED
    BY <1>1, <1>6, <2>2, <2>3, LoginReplyView DEF StaysMember
<1>7. CASE PathReply(c) /\ MainNext(c)
  <2>1. AskedFor(c, "logout")' = {}
    BY <1>2, <1>7, PathReplyView
  <2> QED
    BY <1>1, <1>7, <2>1, PathReplyView DEF StaysMember, LoggedIn
<1>8. CASE Exit(c) /\ MainNext(c)
  <2>1. client[c].main = "input" /\ client'[c].clean = client[c].clean /\ client'[c].refused = client[c].refused
    BY <1>8, ExitView DEF SameLoop
  <2>2. client'[c].main = "exited" \/ (client'[c].main = "crashed" /\ Kept(c))
    BY <1>8, ExitView
  <2>3. client'[c].main = "crashed" => AskedFor(c, "logout")' = {}
    BY <1>2, <1>8, <2>2
  <2> QED
    BY <1>1, <2>1, <2>2, <2>3 DEF StaysMember, LoggedIn
<1>9. CASE SharedCmd(c) /\ MainNext(c)
  <2>1. AskedFor(c, "logout")' = {}
    <3>1. \E r \in Requests : r.type # "logout" /\ Grew(c, r)
      BY <1>9, SharedCmdView
    <3> QED
      BY <1>2, <1>9, <3>1
  <2> QED
    BY <1>1, <1>9, <2>1, SharedCmdView DEF StaysMember, SameLoop, LoggedIn
<1>10. CASE ReceiverNext(c)
  <2>1. /\ client'[c].main = client[c].main /\ client'[c].clean = client[c].clean /\ Kept(c)
        /\ client[c].receiver # "none" /\ client'[c].refused = client[c].refused
    BY <1>10, ReceiverView
  <2>2. AskedFor(c, "logout")' # {} => AskedFor(c, "logout") # {}
    BY <2>1 DEF Kept, AskedFor
  <2>3. client[c].main \notin {"login_reply", "path_reply"}
    BY <1>1, <2>1 DEF Mode, AtShared, AtClient
  <2> QED
    BY <1>1, <2>1, <2>2, <2>3 DEF StaysMember, LoggedIn
<1> QED
  BY <1>3, <1>4, <1>5, <1>6, <1>7, <1>8, <1>9, <1>10, MainView DEF Shares

(* The command of a member that waits is handled in its name; its answer   *)
(* lies in its inbox until the receive loop takes it out.                  *)
LEMMA WakefulServed ==
    ASSUME TypeInv, TypeInv', NEW c \in Clients, Rows(c), InStep(c), StaysMember(c), Wakeful(c),
           Elsewhere(c) \/ Answered(c) \/ Broadcasted(c) \/ Halted(c) \/ Chunked(c)
    PROVE  Wakeful(c)'
<1> SUFFICES ASSUME Awaits(c)'
             PROVE  \/ AskedFor(c, "shared")' # {}
                    \/ HasHeader(c)'
                    \/ client'[c].receiver \in {"second", "shown"}
  BY DEF Wakeful
<1>1. client'[c] = client[c] /\ (serving' => serving) /\ ~ Halted(c)
  <2>1. client'[c] = client[c]
    BY DEF Elsewhere, Answered, Broadcasted, Halted, Chunked
  <2>2. CASE Chunked(c)
    BY <2>1, <2>2, Zenon DEF Chunked, Halted
  <2>3. CASE Elsewhere(c) \/ Answered(c) \/ Broadcasted(c)
    BY <2>1, <2>3, Zenon DEF Elsewhere, Answered, Broadcasted, Halted, Awaits
  <2>4. ~ Halted(c)
    BY DEF Halted, Awaits
  <2> QED
    BY <2>2, <2>3, <2>4
<1>2. Awaits(c)
  <2>1. client[c].clean
    BY <1>1 DEF Awaits
  <2>2. users'[c] \in {0, users[c]}
    <3>1. CASE Answered(c)
      <4>1. packet_queue[1].type \in {"shared", "logout"}
        BY <2>1, <3>1 DEF Answered, Shrank, InStep
      <4> QED
        BY <3>1, <4>1 DEF Answered
    <3> QED
      BY <1>1, <3>1 DEF Elsewhere, Broadcasted, Chunked
  <2> QED
    BY <1>1, <2>2 DEF Awaits, ShutOut
<1>3. users[c] = 1
  <2>1. client[c].clean /\ client[c].main # "exited" /\ ~ client[c].timed /\ ~ ShutOut(c)
    BY <1>2 DEF Awaits
  <2>2. users[c] \in Nat /\ users[c] > 0 /\ users[c] <= 1
    BY <2>1 DEF StaysMember, LoggedIn, ShutOut, Rows, TypeInv, ServerTyping
  <2> QED
    BY <2>2
<1>4. HasHeader(c) => HasHeader(c)'
  <2>1. ASSUME NEW t \in Texts, Gets(c, t)
        PROVE  HasHeader(c) => HasHeader(c)'
    BY <2>1, GetsFacts DEF HasHeader
  <2>2. CASE inbox'[c] = inbox[c]
    BY <2>2 DEF HasHeader
  <2>3. CASE Broadcasted(c)
    BY <2>3, PairsGoOn DEF HasHeader
  <2>4. CASE \E t : Gets(c, t)
    <3>1. PICK t : Gets(c, t)
      BY <2>4
    <3>2. inbox'[c] \in Seq(Texts) /\ DOMAIN inbox[c] = 1 .. Len(inbox[c]) /\ Len(inbox[c]) \in Nat
      BY BoxFacts
    <3>3. inbox[c] \in Seq(Texts \cup {t})
      <4>1. inbox[c] \in Seq(Texts)
        BY BoxFacts
      <4> QED
        BY <4>1, SeqMonotonic
    <3>4. /\ DOMAIN inbox'[c] = 1 .. Len(inbox[c]) + 1
          /\ \A i \in 1 .. Len(inbox[c]) : inbox'[c][i] = inbox[c][i]
      BY <3>1, <3>3, AppendProperties DEF Gets
    <3> QED
      BY <3>2, <3>4 DEF HasHeader
  <2>5. inbox'[c] = inbox[c] \/ Broadcasted(c) \/ \E t : Gets(c, t)
    <3>1. CASE Answered(c)
      <4>1. packet_queue[1].type \in RequestTypes
        BY <3>1, QueueFacts DEF TypeInv, Answered, Shrank, Requests
      <4> QED
        BY <3>1, <4>1 DEF Answered, RequestTypes
    <3> QED
      BY <1>1, <3>1 DEF Elsewhere, Chunked
  <2> QED
    BY <2>2, <2>3, <2>4, <2>5
<1>5. ASSUME AskedFor(c, "shared") # {}
      PROVE  AskedFor(c, "shared")' # {} \/ HasHeader(c)'
  <2>1. CASE Kept(c)
    BY <1>5, <2>1 DEF Kept, AskedFor
  <2>2. CASE Shrank(c) /\ packet_queue[1].type # "shared"
    BY <1>5, <2>2 DEF Shrank, AskedFor
  <2>3. CASE Answered(c) /\ packet_queue[1].type = "shared"
    BY <1>3, <2>3 DEF Answered, Awaits
  <2>4. CASE Broadcasted(c) /\ ~ Kept(c)
    <3>1. Len(inbox[c]) + 1 \in DOMAIN inbox'[c]
      <4>1. Len(inbox[c]) + 1 \in 1 .. Len(inbox[c]) + 2
        BY BoxFacts
      <4> QED
        BY <1>3, <2>4, <4>1, BoxFacts DEF Broadcasted
    <3> QED
      BY <1>3, <2>4, <3>1 DEF Broadcasted, HasHeader
  <2> QED
    BY <1>1, <2>1, <2>2, <2>3, <2>4 DEF Elsewhere, Answered, Broadcasted, Chunked
<1> QED
  BY <1>1, <1>2, <1>4, <1>5 DEF Wakeful

LEMMA WakefulOwn ==
    ASSUME TypeInv, TypeInv', NEW c \in Clients, InStep(c), Wakeful(c),
           MainNext(c) \/ ReceiverNext(c), serving' = serving
    PROVE  Wakeful(c)'
<1> SUFFICES ASSUME Awaits(c)'
             PROVE  \/ AskedFor(c, "shared")' # {}
                    \/ HasHeader(c)'
                    \/ client'[c].receiver \in {"second", "shown"}
  BY DEF Wakeful
<1>1. /\ client'[c].main = "event_wait" /\ ~ client'[c].event /\ client'[c].clean /\ ~ client'[c].timed
      /\ client'[c].receiver # "undecoded"
  BY DEF Awaits
<1>2. CASE MainNext(c)
  <2>1. ~ Plain(c) /\ ~ Stalls(c) /\ ~ Idles(c) /\ ~ Join(c) /\ ~ LoginReply(c) /\ ~ PathReply(c) /\ ~ Exit(c)
    BY <1>1, JoinView, LoginReplyView, PathReplyView, ExitView DEF Plain, Outside, Stalls, Idles
  <2>2. SharedCmd(c)
    BY <1>2, <2>1, MainView DEF Shares
  <2>3. AskedFor(c, "shared")' # {}
    BY <2>2, SharedCmdView DEF Grew, AskedFor
  <2> QED
    BY <2>3
<1>3. CASE ReceiverNext(c)
  <2>1. client[c] \in ClientType /\ ServerTyping
    BY DEF TypeInv, ClientTyping
  <2>2. \A r : Becomes(c, r) => client'[c] = r
    BY DEF Becomes, TypeInv, ClientTyping
  <2>3. client[c].clean
    BY <1>1, <1>3, ReceiverView
  <2>4. ~ Update(c) /\ ~ ReceiverTimeout(c)
    <3>1. ~ Update(c)
      <4> DEFINE w == FirstWord(client[c].held)
      <4>1. Update(c) => client'[c] = [client[c] EXCEPT !.display_path = w, !.send_shared_cmd = FALSE, !.event = TRUE,
                                                        !.held = None, !.receiver = "first"]
        BY <2>2 DEF Update
      <4> HIDE DEF w
      <4> QED
        BY <1>1, <2>1, <4>1 DEF ClientType
    <3>2. ~ ReceiverTimeout(c)
      BY <1>1, <1>3, ReceiverView DEF ReceiverTimeout
    <3> QED
      BY <3>1, <3>2
  <2>5. CASE ReceiveOutput(c)
    BY <1>1, <2>1, <2>2, <2>5 DEF ReceiveOutput, ClientType
  <2>6. CASE ReceiveHeader(c)
    <3> DEFINE t == inbox[c][1]
    <3>1. client[c].receiver = "first" /\ inbox[c] # << >> /\ inbox'[c] = Tail(inbox[c])
      BY <2>1, <2>6 DEF ReceiveHeader, Receive, ServerTyping
    <3>2. Received(c) = t
      BY <3>1, TailFacts DEF Received
    <3>3. t.kind = "header"
      BY <2>3, <3>1, BoxFacts, LoopTexts, FollowsHead DEF InStep, Following
    <3>4. \/ client'[c] = [client[c] EXCEPT !.held = t, !.receiver = "second"]
          \/ client'[c] = [client[c] EXCEPT !.receiver = "undecoded"]
      <4>1. ~ HasOneWord(t)
        BY <3>3 DEF HasOneWord, HasSecondWord
      <4> QED
        BY <2>2, <2>6, <3>2, <4>1 DEF ReceiveHeader
    <3> HIDE DEF t
    <3> QED
      BY <1>1, <2>1, <3>4 DEF ClientType
  <2> QED
    BY <1>3, <2>4, <2>5, <2>6 DEF ReceiverNext
<1> QED
  BY <1>2, <1>3

MemberInv == \A c \in Clients : StaysMember(c) /\ Wakeful(c)

(* On a reliable network and with a server that is not restarted, no       *)
(* member waits for an event nobody is going to set while the server       *)
(* serves, even if the database fails: unless the client was refused and   *)
(* has no row, its receive loop could not decode something, or a copy has  *)
(* left its timeout on the socket (client.py:61, 76, 108, 186, 208,        *)
(* server.py:79-80, 137).                                                  *)
THEOREM WakeupsComeThrough ==
    ASSUME Faults \subseteq {"database"}
    PROVE  Spec => []NoLostWakeup
<1>1. Init => MemberInv
  <2> SUFFICES ASSUME Init, NEW c \in Clients
               PROVE  StaysMember(c) /\ Wakeful(c)
    BY DEF MemberInv
  <2>1. Asked(c) = {}
    BY DEF Init, ServerInit, Asked
  <2>2. client[c].main = "top" /\ ~ client[c].clean
    BY DEF Init, NewClient
  <2> QED
    BY <2>1, <2>2 DEF StaysMember, Wakeful, Awaits, AskedFor
<1>2. TypeInv /\ TypeInv' /\ RowsInv /\ PathInv /\ ExchangeInv /\ MemberInv /\ Reliable /\ Reliable' /\ [Next]_vars
        => MemberInv'
  <2> SUFFICES ASSUME TypeInv, TypeInv', RowsInv, PathInv, ExchangeInv, MemberInv, Reliable, Reliable', [Next]_vars,
                      NEW c \in Clients
               PROVE  StaysMember(c)' /\ Wakeful(c)'
    BY DEF MemberInv
  <2>1. StepView(c) /\ ~ Restart
    BY ViewOfStep, NoRestart
  <2>2. Rows(c) /\ InStep(c) /\ Exchange(c) /\ StaysMember(c) /\ Wakeful(c)
    BY DEF RowsInv, PathInv, ExchangeInv, MemberInv
  <2>3. StaysMember(c)'
    BY <2>1, <2>2, MemberServed, MemberOwn DEF StepView
  <2>4. Wakeful(c)'
    BY <2>1, <2>2, WakefulServed, WakefulOwn DEF StepView
  <2> QED
    BY <2>3, <2>4
<1>3. TypeInv => Reliable
  BY OnlyRestarts
<1>4. MemberInv => NoLostWakeup
  BY DEF MemberInv, NoLostWakeup, Wakeful, Awaits, AskedFor, Asked, HasHeader
<1> QED
  BY <1>1, <1>2, <1>3, <1>4, AlwaysInStep, AlwaysExchange, PTL DEF Spec

===============================================================================
