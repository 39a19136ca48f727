------------------------------ MODULE RemoteShell ------------------------------
(***************************************************************************)
(* Clients of the remote shell (src/lab10/Client_files/client.py with      *)
(* network_helper.py) and the server they talk to.  A client has a main    *)
(* thread that reads and runs commands and, once in a shared shell, a      *)
(* thread that shows what all members run.  Both threads share the fields  *)
(* of Client_info without a lock and take turns reading the same socket.   *)
(*                                                                         *)
(* Every recvfrom takes whatever datagram is next, and the code looks only *)
(* at its text: so do these actions.                                       *)
(***************************************************************************)
EXTENDS RemoteServer

CONSTANTS
    Typable,    \* the kinds of command that are typed
    Bases,      \* the paths in "mount" and in "cd host:port:path"
    Names,      \* what "cd" is given
    Programs,   \* what is run
    CopyNames,  \* what "cp" is given
    MaxInputs   \* bound: how many lines each client types

(* A path as normpath leaves it: only at its beginning it leads upwards.   *)
Normal(p) == p \in Seq(STRING) /\ \A i \in 2 .. Len(p) : p[i] = ".." => p[i - 1] = ".."

ASSUME ClientAssumption ==
    /\ Names \subseteq STRING
    /\ CopyNames \subseteq STRING
    /\ \A b \in Bases : Normal(b)
    /\ None \notin Bases
    /\ DOMAIN Known \subseteq Programs
    /\ MaxInputs \in [Clients -> Nat]

VARIABLE client  \* the threads and the Client_info of every client

vars == <<serverVars, inbox, faults, client>>

(* What display_path says outside the remote shell: os.getcwd(). *)
Local == [kind |-> "local"]

SharedCommands ==
    {cmd \in [op : {"cd"}, arg : Names] \cup [op : {"run"}, arg : Programs] : cmd.op \in Typable}

(* Where the main thread waits for a datagram, and what for. *)
Waits == {"mount_reply", "login_reply", "path_reply", "cd_reply", "run_reply", "cp_reply",
          "first_chunk", "next_chunk"}

(* The first seven fields are those of Client_info.  `main' and `receiver' *)
(* say where the threads are, `timed' that the socket has a timeout,       *)
(* `wanted' which directory the main thread has asked about, `held' is the *)
(* first datagram of the pair being received, `mine' whether the pair was  *)
(* shown as the answer to an own command.  `mounted' (the kind of the last *)
(* mount that succeeded), `clean' (what came for a path was one) and       *)
(* `refused' (what came for a login was not a yes) are history variables,  *)
(* `inputs' counts the lines typed.                                        *)
NewClient ==
    [server |-> None, is_shared_shell |-> FALSE, is_client_shell |-> TRUE,
     send_shared_cmd |-> FALSE, display_path |-> Local, event |-> FALSE,
     main |-> "top", receiver |-> "none", timed |-> FALSE, wanted |-> << >>,
     held |-> None, mine |-> FALSE, mounted |-> None, clean |-> FALSE, refused |-> FALSE, inputs |-> 0]

Init ==
    /\ ServerInit
    /\ client = [c \in Clients |-> NewClient]

-------------------------------------------------------------------------------
(* Sending and receiving. *)

Request(c, type, path, cmd) == [type |-> type, from |-> c, path |-> path, cmd |-> cmd]

Send(r) ==
    /\ packet_queue' = Append(packet_queue, r)
    /\ UNCHANGED inbox

Received(c) == Head(inbox[c])

Receive(c) ==
    /\ inbox[c] # << >>
    /\ inbox' = [inbox EXCEPT ![c] = Tail(@)]
    /\ UNCHANGED packet_queue

Silent == UNCHANGED <<packet_queue, inbox>>

IsYes(text) == text = Status(TRUE)

(* What decode('utf-8') does.  A piece of a file may decode or not.        *)
Undecodable(text) ==
    \/ text.kind = "output" /\ text.what = "binary"
    \/ text.kind = "header" /\ text.cmd.op = "run" /\ Known[text.cmd.arg] = "long"

Decodes(c) == inbox[c] # << >> /\ ~ Undecodable(Received(c))

DecodeRaises(c) == inbox[c] # << >> /\ (Undecodable(Received(c)) \/ Received(c).kind = "chunk")

(* The words of a text: res.split(' ').  A header, the output of a program *)
(* that prints much, and perhaps a piece of a file have a second word.     *)
HasSecondWord(text) ==
    \/ text.kind \in {"header", "chunk"}
    \/ text.kind = "output" /\ text.what = "words"

HasOneWord(text) == text.kind = "chunk" \/ ~ HasSecondWord(text)

(* Mutant: the second word is taken, which is the command. *)
FirstWord_Second(text) == [kind |-> "command"]

FirstWord(text) ==
    IF text.kind = "header" THEN PathText(text.path, text.nth) ELSE [kind |-> "word"]

(* The threads of a client change its own fields only. *)
Becomes(c, fields) == client' = [client EXCEPT ![c] = fields]

-------------------------------------------------------------------------------
(* The main thread: a line is typed and carried out by one action, up to   *)
(* the first wait.                                                         *)

Top(c) ==
    /\ client[c].main = "top"
    /\ Becomes(c, [client[c] EXCEPT !.event = FALSE, !.main = "input"])
    /\ Silent

Typed(c, kind) ==
    /\ client[c].main = "input"
    /\ kind \in Typable
    /\ client[c].inputs < MaxInputs[c]

(* The next line, by the time the client waits or asks for another one. *)
Then(c, pc) == [client[c] EXCEPT !.main = pc, !.inputs = client[c].inputs + 1]

(* "exit".  The process lives on while its receive loop runs. *)
Exit(c) ==
    /\ Typed(c, "exit")
    /\ \/ /\ client[c].is_shared_shell
          /\ client[c].server # None
          /\ Send(Request(c, "logout", << >>, None))
          /\ Becomes(c, Then(c, "exited"))
       \/ /\ client[c].is_shared_shell  \* None.get_address() raises
          /\ client[c].server = None
          /\ Becomes(c, Then(c, "crashed"))
          /\ Silent
       \/ /\ ~ client[c].is_shared_shell
          /\ Becomes(c, Then(c, "exited"))
          /\ Silent

AtClient(c) == client[c].is_client_shell

(* "mount shared": nothing is asked of the server. *)
MountShared(c) ==
    /\ AtClient(c) /\ Typed(c, "mount_shared")
    /\ \E b \in Bases :
         Becomes(c, [Then(c, "top") EXCEPT !.server = b, !.is_shared_shell = TRUE,
                                           !.mounted = "shared"])
    /\ Silent

MountPrivate(c) ==
    /\ AtClient(c) /\ Typed(c, "mount_private")
    /\ \E b \in Bases :
         /\ Becomes(c, [Then(c, "mount_reply") EXCEPT !.server = b])
         /\ Send(Request(c, "valid", b, None))

MountReply(c) ==
    /\ client[c].main = "mount_reply"
    /\ Decodes(c)
    /\ Receive(c)
    /\ Becomes(c, IF IsYes(Received(c))
                  THEN [client[c] EXCEPT !.main = "top", !.mounted = "private"]
                  ELSE [client[c] EXCEPT !.main = "top", !.server = None])

(* "cd" with a local directory. *)
LocalCd(c) ==
    /\ AtClient(c) /\ Typed(c, "cd")
    /\ Becomes(c, [Then(c, "top") EXCEPT !.display_path = Local])
    /\ Silent

(* A program that does not exist makes subprocess.run raise, and output    *)
(* that is binary, not only where it is cut, makes decode raise.           *)
LocalRun(c) ==
    /\ AtClient(c) /\ Typed(c, "run")
    /\ \E p \in Programs :
         \/ p \in DOMAIN Known /\ Becomes(c, Then(c, "top"))
         \/ (p \in DOMAIN Known => Known[p] = "binary") /\ Becomes(c, Then(c, "crashed"))
    /\ Silent

(* "cd host:port:path", where the server has to be the mounted one.  The   *)
(* answer to a login is not looked at.                                     *)
Join(c) ==
    /\ AtClient(c) /\ Typed(c, "cd_host")
    /\ client[c].server \in Bases
    /\ client[c].is_shared_shell
    /\ Send(Request(c, "login", << >>, None))
    /\ Becomes(c, Then(c, "login_reply"))

LoginReply(c) ==
    /\ client[c].main = "login_reply"
    /\ Decodes(c)
    /\ inbox' = [inbox EXCEPT ![c] = Tail(@)]
    /\ packet_queue' = Append(packet_queue, Request(c, "path", << >>, None))
    /\ Becomes(c, [client[c] EXCEPT !.main = "path_reply", !.refused = ~ IsYes(Received(c))])

(* Whatever comes next is taken for the path, and the receive loop starts. *)
PathReply(c) ==
    /\ client[c].main = "path_reply"
    /\ Decodes(c)
    /\ Receive(c)
    /\ Becomes(c, [client[c] EXCEPT !.display_path = Received(c), !.clean = (Received(c).kind = "path"),
                                    !.is_client_shell = FALSE, !.receiver = "first", !.main = "top"])

EnterPrivate(c) ==
    /\ AtClient(c) /\ Typed(c, "cd_host")
    /\ client[c].server \in Bases
    /\ ~ client[c].is_shared_shell
    /\ Becomes(c, [Then(c, "top") EXCEPT !.is_client_shell = FALSE,
                                         !.display_path = PathText(client[c].server, 0)])
    /\ Silent

AtPrivate(c) == ~ client[c].is_client_shell /\ ~ client[c].is_shared_shell

is_child_path(parent, child) == IsPrefix(parent, child)

(* A path above the mounted one leads back to the client's own shell. *)
RemoteCd(c) ==
    /\ AtPrivate(c) /\ Typed(c, "cd")
    /\ \E path \in {Walk(client[c].display_path.path, name) : name \in Names} :
         \/ /\ is_child_path(client[c].server, path)
            /\ Send(Request(c, "valid", path, None))
            /\ Becomes(c, [Then(c, "cd_reply") EXCEPT !.wanted = path])
         \/ /\ ~ is_child_path(client[c].server, path)
            /\ Becomes(c, [Then(c, "top") EXCEPT !.is_client_shell = TRUE, !.display_path = Local])
            /\ Silent

CdReply(c) ==
    /\ client[c].main = "cd_reply"
    /\ Decodes(c)
    /\ Receive(c)
    /\ Becomes(c, IF IsYes(Received(c))
                  THEN [client[c] EXCEPT !.main = "top", !.display_path = PathText(client[c].wanted, 0)]
                  ELSE [client[c] EXCEPT !.main = "top"])

RemoteRun(c) ==
    /\ AtPrivate(c) /\ Typed(c, "run")
    /\ \E p \in Programs : Send(Request(c, "run", client[c].display_path.path, p))
    /\ Becomes(c, Then(c, "run_reply"))

RunReply(c) ==
    /\ client[c].main = "run_reply"
    /\ Decodes(c)
    /\ Receive(c)
    /\ Becomes(c, [client[c] EXCEPT !.main = "top"])

RemoteCp(c) ==
    /\ AtPrivate(c) /\ Typed(c, "cp")
    /\ \E f \in CopyNames :
         Send(Request(c, "copy", Walk(client[c].display_path.path, f), None))
    /\ Becomes(c, Then(c, "cp_reply"))

CpReply(c) ==
    /\ client[c].main = "cp_reply"
    /\ Decodes(c)
    /\ Receive(c)
    /\ Becomes(c, [client[c] EXCEPT !.main = IF IsYes(Received(c)) THEN "first_chunk" ELSE "top"])

(* Mutant: the file is taken to fit in one datagram. *)
CpChunk_Single(c) ==
    /\ client[c].main = "first_chunk"
    /\ Receive(c)
    /\ Becomes(c, [client[c] EXCEPT !.main = "top"])

(* A datagram that is not empty is written and the next one awaited, from  *)
(* then on for two seconds; an empty one would end the copy.               *)
IsEmpty(text) == text.kind = "output" /\ text.what = "empty"

CpChunk(c) ==
    /\ client[c].main \in {"first_chunk", "next_chunk"}
    /\ Receive(c)
    /\ Becomes(c, IF IsEmpty(Received(c))
                  THEN [client[c] EXCEPT !.main = "top"]
                  ELSE [client[c] EXCEPT !.main = "next_chunk", !.timed = TRUE])

(* The end of every copy.  The timeout stays on the socket. *)
CpTimeout(c) ==
    /\ client[c].main = "next_chunk"
    /\ inbox[c] = << >>
    /\ Becomes(c, [client[c] EXCEPT !.main = "top"])
    /\ Silent

(* Everywhere else nobody catches the timeout. *)
MainTimeout(c) ==
    /\ client[c].timed
    /\ client[c].main \in Waits \ {"next_chunk"}
    /\ inbox[c] = << >>
    /\ Becomes(c, [client[c] EXCEPT !.main = "crashed"])
    /\ Silent

(* Nobody catches what decode raises; what is copied is not decoded.       *)
DecodeError(c) ==
    /\ client[c].main \in Waits \ {"first_chunk", "next_chunk"}
    /\ DecodeRaises(c)
    /\ Receive(c)
    /\ Becomes(c, [client[c] EXCEPT !.main = "crashed"])

AtShared(c) == ~ client[c].is_client_shell /\ client[c].is_shared_shell

SharedCmd(c) ==
    /\ AtShared(c)
    /\ \E cmd \in SharedCommands :
         /\ Typed(c, cmd.op)
         /\ Send(Request(c, "shared", << >>, cmd))
    /\ Becomes(c, [Then(c, "event_wait") EXCEPT !.send_shared_cmd = TRUE])

EventWait(c) ==
    /\ client[c].main = "event_wait"
    /\ client[c].event
    /\ Becomes(c, [client[c] EXCEPT !.main = "top"])
    /\ Silent

MainNext(c) ==
    /\ \/ Top(c) \/ Exit(c) \/ MountShared(c) \/ MountPrivate(c) \/ MountReply(c)
       \/ LocalCd(c) \/ LocalRun(c) \/ Join(c) \/ LoginReply(c) \/ PathReply(c)
       \/ EnterPrivate(c) \/ RemoteCd(c) \/ CdReply(c) \/ RemoteRun(c) \/ RunReply(c)
       \/ RemoteCp(c) \/ CpReply(c) \/ CpChunk(c) \/ CpTimeout(c) \/ MainTimeout(c)
       \/ DecodeError(c) \/ SharedCmd(c) \/ EventWait(c)
    /\ UNCHANGED <<users, cwd, serving, sending, executed, faults>>

-------------------------------------------------------------------------------
(* shared_shell_receive_loop: a pair of datagrams is received, shown, and  *)
(* then written to the fields the main thread uses.                        *)

(* res[1] of a text of one word raises IndexError.  Whatever is raised     *)
(* ends the thread: the receiver is "undecoded" if that was by decode.     *)
ReceiveHeader(c) ==
    /\ client[c].receiver = "first"
    /\ Receive(c)
    /\ \/ /\ Decodes(c) /\ HasSecondWord(Received(c))
          /\ Becomes(c, [client[c] EXCEPT !.held = Received(c), !.receiver = "second"])
       \/ /\ Decodes(c) /\ HasOneWord(Received(c))
          /\ Becomes(c, [client[c] EXCEPT !.receiver = "dead"])
       \/ /\ DecodeRaises(c)
          /\ Becomes(c, [client[c] EXCEPT !.receiver = "undecoded"])

ReceiveOutput(c) ==
    /\ client[c].receiver = "second"
    /\ Receive(c)
    /\ \/ /\ Decodes(c)
          /\ Becomes(c, [client[c] EXCEPT !.mine = client[c].send_shared_cmd, !.receiver = "shown"])
       \/ /\ DecodeRaises(c)
          /\ Becomes(c, [client[c] EXCEPT !.receiver = "undecoded"])

(* Mutant: the main thread is not woken by an answer to its own command. *)
Update_Silent(c) ==
    /\ client[c].receiver = "shown"
    /\ Becomes(c, [client[c] EXCEPT !.display_path = FirstWord(client[c].held),
                                    !.send_shared_cmd = FALSE, !.event = ~ client[c].mine,
                                    !.held = None, !.receiver = "first"])
    /\ Silent

Update(c) ==
    /\ client[c].receiver = "shown"
    /\ Becomes(c, [client[c] EXCEPT !.display_path = FirstWord(client[c].held),
                                    !.send_shared_cmd = FALSE, !.event = TRUE,
                                    !.held = None, !.receiver = "first"])
    /\ Silent

ReceiverTimeout(c) ==
    /\ client[c].timed
    /\ client[c].receiver \in {"first", "second"}
    /\ inbox[c] = << >>
    /\ Becomes(c, [client[c] EXCEPT !.receiver = "dead"])
    /\ Silent

ReceiverNext(c) ==
    /\ ReceiveHeader(c) \/ ReceiveOutput(c) \/ Update(c) \/ ReceiverTimeout(c)
    /\ UNCHANGED <<users, cwd, serving, sending, executed, faults>>

Next ==
    \/ ServerNext /\ UNCHANGED client
    \/ EnvironmentNext /\ UNCHANGED client
    \/ \E c \in Clients : MainNext(c) \/ ReceiverNext(c)

Spec == Init /\ [][Next]_vars

(* The server handles what it receives and threads run when they can; a    *)
(* user may stop typing at any time.                                       *)
Typing(c) == client[c].main = "input"

FairSpec ==
    /\ Spec
    /\ WF_vars(ServerNext /\ UNCHANGED client)
    /\ \A c \in Clients :
         /\ WF_vars(~ Typing(c) /\ MainNext(c))
         /\ WF_vars(ReceiverNext(c))

-------------------------------------------------------------------------------
(* Properties. *)

TypeOK ==
    /\ \A i \in DOMAIN packet_queue : packet_queue[i].from \in Clients
    /\ DOMAIN inbox = Clients
    /\ users \in [Clients -> Nat]
    /\ cwd \in Dirs
    /\ serving \in BOOLEAN
    /\ executed \in Nat
    /\ \A c \in Clients :
         /\ client[c].main \in Waits \cup {"top", "input", "event_wait", "exited", "crashed"}
         /\ client[c].receiver \in {"none", "first", "second", "shown", "dead", "undecoded"}
         /\ client[c].server \in Bases \cup {None}
         /\ client[c].display_path.kind \in {"local", "path", "header", "output", "word", "status", "chunk"}

Member(c) == client[c].clean /\ users[c] > 0

(* A login that failed and left no row: the client is in the shared shell  *)
(* all the same, as it does not look at the status (client.py:108).        *)
ShutOut(c) == client[c].refused /\ users[c] = 0

(* A member whose path reply was a path never gets out of step: the two    *)
(* datagrams of a command are received as a pair, whatever other members   *)
(* do and whatever comes after a pair of which only one half was sent.     *)
(* The receive loop is never ended by a text with one word; what ends it   *)
(* is output or a command that cannot be decoded, when it is "undecoded",  *)
(* or else the timeout that a copy has left on the socket                  *)
(* (server.py:149-153, client.py:54-61).                                   *)
PairsAligned ==
    \A c \in Clients : client[c].clean =>
        /\ client[c].receiver = "dead" => client[c].timed
        /\ client[c].receiver \in {"second", "shown"} => client[c].held.kind = "header"
        /\ client[c].display_path.kind = "path"

(* Once everything sent to a member is shown, its prompt names the         *)
(* directory the next command will run in, whoever changed it last, as     *)
(* long as the server serves (client.py:74, server.py:139-142).            *)
SettledAgreement ==
    \A c \in Clients :
        (Member(c) /\ serving /\ inbox[c] = << >> /\ client[c].receiver = "first") =>
            client[c].display_path = PathText(cwd, executed)

(* A member is shown the shared commands in the order they were run, each  *)
(* once and none left out: whatever is shown (the receive loop goes back   *)
(* to waiting) or changes the prompt is the command after the last one     *)
(* (client.py:54-76, server.py:149-153).                                   *)
EveryCommandShown ==
    [][\A c \in Clients :
        (/\ client[c].clean
         /\ \/ client[c].receiver = "shown" /\ client'[c].receiver # "shown"
            \/ client'[c].display_path # client[c].display_path) =>
            client'[c].display_path.nth = client[c].display_path.nth + 1]_vars

(* The main thread never waits for an event nobody is going to set: while  *)
(* a member waits and the server serves, its command or the answer is on   *)
(* its way, even when another member's command woke it early.  Wake-ups    *)
(* are lost when its login failed, when the receive loop could not decode  *)
(* what came, and after a timeout that a copy has left                     *)
(* (client.py:61, 76, 108, 186, 208, server.py:79-80, 137).                *)
NoLostWakeup ==
    \A c \in Clients :
        (/\ client[c].main = "event_wait" /\ ~ client[c].event
         /\ client[c].clean /\ ~ client[c].timed
         /\ client[c].receiver # "undecoded"
         /\ ~ ShutOut(c)
         /\ serving) =>
            \/ \E i \in DOMAIN packet_queue :
                  packet_queue[i].from = c /\ packet_queue[i].type = "shared"
            \/ \E i \in DOMAIN inbox[c] : inbox[c][i].kind = "header" /\ inbox[c][i].by = c
            \/ client[c].receiver \in {"second", "shown"}

(* Once its logout is handled an exited client has no row left, so that    *)
(* nothing more is sent to it; unless the database fails, which ends the   *)
(* handling thread too (client.py:211-214, server.py:84-86).               *)
DepartedForgotten ==
    \A c \in Clients :
        (/\ client[c].main = "exited" /\ serving
         /\ \A i \in DOMAIN packet_queue : packet_queue[i].from # c) => users[c] = 0

(* A private shell stays below the mounted directory whatever the network  *)
(* and the server do: its path is that of the mount followed by names, and *)
(* none of them leads upwards.  That is so for a mount that ends in a      *)
(* name; below the directory of server.py itself, mounted as "/", and one  *)
(* that ends in "..", every path is a child, and "cd .." leads out         *)
(* (client.py:36-37, 147-152, 158-161).                                    *)
PrivateBelowMount ==
    \A c \in Clients :
        LET base == client[c].server
            path == client[c].display_path.path
        IN  AtPrivate(c) =>
                /\ base # None
                /\ IsPrefix(base, path)
                /\ base # << >> /\ Last(base) # ".." =>
                      \A i \in Len(base) + 1 .. Len(path) : path[i] # ".."

(* No datagram was lost or duplicated; the server may have been restarted. *)
Reliable == \A i \in DOMAIN faults : faults[i] = "restart"

(* "Update display path with valid remote path" (client.py:161): with a    *)
(* reliable network it is so, until a copy has left its timeout on the     *)
(* socket.  From then on a chunk that comes late is taken for the status   *)
(* of a later cd.                                                          *)
UntimedDirExists ==
    \A c \in Clients :
        (Reliable /\ AtPrivate(c) /\ ~ client[c].timed) =>
            Resolve(client[c].display_path.path) \in Dirs

(* Replies carry no name of what they answer; under the same conditions    *)
(* each is the reply to the request it is taken for                        *)
(* (network_helper.py:8-56).                                               *)
RepliesMatch ==
    \A c \in Clients :
        (Reliable /\ ~ client[c].timed /\ inbox[c] # << >>) =>
            /\ client[c].main \in {"mount_reply", "cd_reply", "cp_reply"} => Received(c).kind = "status"
            /\ client[c].main = "run_reply" => Received(c).kind = "output"

(* "received from another client" and "send from this client"              *)
(* (client.py:63 and 69): the branch taken is the one of the sender.       *)
AttributedRightly ==
    \A c \in Clients :
        (client[c].receiver = "shown" /\ client[c].held.kind = "header") =>
            client[c].mine = (client[c].held.by = c)

(* "mount private" leads to a private shell (client.py:79-88, 113).        *)
PrivateMountIsPrivate ==
    \A c \in Clients : client[c].receiver # "none" => client[c].mounted = "shared"

(* "exit condition" (client.py:211): the process ends.                     *)
Ended(c) == client[c].main = "exited" /\ client[c].receiver \in {"none", "dead", "undecoded"}

ExitEnds == \A c \in Clients : client[c].main = "exited" ~> Ended(c)

(* Every command of a member is answered, unless the server stops serving, *)
(* the answer or another one before it cannot be decoded, or the login had *)
(* failed (client.py:61, 108, 185-186, server.py:79-80, 137, 152-153).     *)
CommandsAnswered ==
    \A c \in Clients :
        (client[c].main = "event_wait" /\ client[c].clean) ~>
            \/ client[c].main # "event_wait"
            \/ ~ serving
            \/ client[c].receiver = "undecoded"
            \/ ShutOut(c)

(* Every join comes to an end, whatever the status of the login, unless    *)
(* the server stops serving or what is taken for a reply cannot be decoded *)
(* (client.py:108-111).                                                    *)
JoinsEnd ==
    \A c \in Clients :
        client[c].main = "login_reply" ~> ~ AtClient(c) \/ client[c].main = "crashed" \/ ~ serving

===============================================================================
