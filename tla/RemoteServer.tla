----------------------------- MODULE RemoteServer -----------------------------
(***************************************************************************)
(* The server of the remote shell (src/lab10/Server_files/server.py): one  *)
(* thread moves datagrams from the socket to packet_queue, one takes them  *)
(* out and handles them one at a time.  An exception in a handler ends the *)
(* handling thread and nothing else: datagrams go on piling up.            *)
(*                                                                         *)
(* A path is the sequence of names that leads to it from the directory of  *)
(* server.py; relpath and normpath produce just that.  The field `nth' of  *)
(* a text is not in the datagram: it counts the shared commands answered   *)
(* when it was sent, and only properties read it.  So is `by'.             *)
(***************************************************************************)
EXTENDS Integers, Sequences, SequencesExt

CONSTANTS
    Clients,
    Dirs,       \* the directories of the server's file system
    Files,      \* file |-> the number of datagrams its content takes
    Known,      \* program |-> what its output is, one of Outputs
    Faults,     \* what the network, the operator and the database may do
    MaxFaults,  \* bound: how often the first two do it
    None

(* What the output of a program is: it may have no words, one or more; it  *)
(* may not decode as UTF-8, as received, that is cut at 1024 bytes; it may *)
(* be too large for a datagram.  The output of a program with a "long"     *)
(* command line is one word, but the text with the command does not decode *)
(* once it is cut.                                                         *)
Outputs == {"empty", "word", "words", "binary", "huge", "long"}

ASSUME ServerAssumption ==
    /\ Dirs \subseteq Seq(STRING)
    /\ DOMAIN Files \subseteq Seq(STRING) \ Dirs
    /\ Files \in [DOMAIN Files -> Nat]
    /\ Known \in [DOMAIN Known -> Outputs]
    /\ <<"Server">> \in Dirs
    /\ Faults \subseteq {"lose", "duplicate", "restart", "database"}
    /\ MaxFaults \in Nat

VARIABLES
    packet_queue,  \* requests received and not yet handled
    inbox,         \* the datagrams on their way to each client
    users,         \* rows of the users table for each client
    cwd,           \* working directory of the process, shared by all
    serving,       \* the handling thread is alive
    sending,       \* the rest of a file remote_copy_file is sending
    executed,      \* history variable: shared commands answered
    faults         \* history variable: the faults so far

serverVars == <<packet_queue, users, cwd, serving, sending, executed>>

(* The texts a client may receive. *)
Status(ok) == [kind |-> "status", ok |-> ok]
PathText(p, n) == [kind |-> "path", path |-> p, nth |-> n]
Header(p, n, cmd, c) == [kind |-> "header", path |-> p, nth |-> n, cmd |-> cmd, by |-> c]
Output(what) == [kind |-> "output", what |-> what]
Chunk == [kind |-> "chunk"]

(* Mutant: the names are joined, and normpath is left out. *)
Walk_Joined(p, name) == Append(p, name)

(* Walking one step from a directory, which is normpath for a path without *)
(* any other "..".                                                         *)
Walk(p, name) ==
    IF name # ".." \/ p = << >> \/ Last(p) = ".." THEN Append(p, name) ELSE Front(p)

(* The directory above that of server.py is "/", and so is that above it.  *)
Root == <<"..">>

Resolve(p) ==
    IF p # << >> /\ Head(p) = ".." THEN Root \o SelectSeq(p, LAMBDA name : name # "..") ELSE p

ServerInit ==
    /\ packet_queue = << >>
    /\ inbox = [c \in Clients |-> << >>]
    /\ users = [c \in Clients |-> 0]
    /\ cwd = <<"Server">>
    /\ serving = TRUE
    /\ sending = None
    /\ executed = 0
    /\ faults = << >>

-------------------------------------------------------------------------------

(* ClientInfo takes the oldest request; handlers run to their end, except  *)
(* that a file is sent chunk by chunk.                                     *)
Handle(type) ==
    /\ serving
    /\ sending = None
    /\ packet_queue # << >>
    /\ Head(packet_queue).type = type
    /\ packet_queue' = Tail(packet_queue)
    /\ UNCHANGED faults

request == Head(packet_queue)
sender == request.from

Reply(texts) == inbox' = [inbox EXCEPT ![sender] = @ \o texts]

(* Mutant: the status is not sent. *)
remote_login_Mute ==
    /\ Handle("login")
    /\ users' = [users EXCEPT ![sender] = @ + 1]
    /\ UNCHANGED <<inbox, cwd, serving, sending, executed>>

(* When the database fails, at the INSERT or only at the commit behind it, *)
(* this process may see the new row or not.                                *)
DatabaseFails == "database" \in Faults

Inserted == [users EXCEPT ![sender] = @ + 1]

remote_login ==
    /\ Handle("login")
    /\ \/ /\ users' = Inserted
          /\ Reply(<<Status(TRUE)>>)
       \/ /\ DatabaseFails
          /\ users' \in {users, Inserted}
          /\ Reply(<<Status(FALSE)>>)
    /\ UNCHANGED <<cwd, serving, sending, executed>>

(* Mutant: the rows of the client stay. *)
remote_logout_Kept ==
    /\ Handle("logout")
    /\ UNCHANGED <<users, inbox, cwd, serving, sending, executed>>

Deleted == [users EXCEPT ![sender] = 0]

(* Here nobody catches what the DELETE or the commit raises.               *)
remote_logout ==
    /\ Handle("logout")
    /\ \/ /\ users' = Deleted
          /\ UNCHANGED serving
       \/ /\ DatabaseFails
          /\ users' \in {users, Deleted}
          /\ serving' = FALSE
    /\ UNCHANGED <<inbox, cwd, sending, executed>>

(* Mutant: any file or directory will do. *)
valid_remote_path_Exists ==
    /\ Handle("valid")
    /\ Reply(<<Status(Resolve(request.path) \in Dirs \cup DOMAIN Files)>>)
    /\ UNCHANGED <<users, cwd, serving, sending, executed>>

valid_remote_path ==
    /\ Handle("valid")
    /\ Reply(<<Status(Resolve(request.path) \in Dirs)>>)
    /\ UNCHANGED <<users, cwd, serving, sending, executed>>

(* An exception nobody catches. *)
Raise ==
    /\ serving' = FALSE
    /\ UNCHANGED <<inbox, users, cwd, sending, executed>>

run_remote_cmd ==
    /\ Handle("run")
    /\ IF Resolve(request.path) \in Dirs /\ request.cmd \in DOMAIN Known
          /\ Known[request.cmd] # "huge"
       THEN /\ Reply(<<Output(Known[request.cmd])>>)
            /\ UNCHANGED <<users, cwd, serving, sending, executed>>
       ELSE Raise

remote_copy_file ==
    /\ Handle("copy")
    /\ LET path == Resolve(request.path)
           found == path \in DOMAIN Files
       IN  /\ Reply(<<Status(found)>>)
           /\ sending' = IF found /\ Files[path] > 0
                         THEN [to |-> sender, left |-> Files[path]]
                         ELSE None
    /\ UNCHANGED <<users, cwd, serving, executed>>

send_chunk ==
    /\ serving
    /\ sending # None
    /\ inbox' = [inbox EXCEPT ![sending.to] = Append(@, Chunk)]
    /\ sending' = IF sending.left = 1 THEN None ELSE [sending EXCEPT !.left = @ - 1]
    /\ UNCHANGED <<packet_queue, users, cwd, serving, executed, faults>>

(* Mutant: the directory the server started in. *)
get_remote_path_Initial ==
    /\ Handle("path")
    /\ Reply(<<PathText(<<"Server">>, executed)>>)
    /\ UNCHANGED <<users, cwd, serving, sending, executed>>

get_remote_path ==
    /\ Handle("path")
    /\ Reply(<<PathText(cwd, executed)>>)
    /\ UNCHANGED <<users, cwd, serving, sending, executed>>

(* n times the texts s. *)
Times(n, s) == [i \in 1 .. n * Len(s) |-> s[1 + ((i - 1) % Len(s))]]

(* Mutant: the sender is left out, as if it had printed its own output. *)
Broadcast_Others(pair) ==
    inbox' = [c \in Clients |-> IF c = sender THEN inbox[c] ELSE inbox[c] \o Times(users[c], pair)]

(* Mutant: output that is empty is not sent. *)
Broadcast_NoEmpty(pair) ==
    inbox' = [c \in Clients |->
                inbox[c] \o Times(users[c], SelectSeq(pair, LAMBDA t : t # Output("empty")))]

(* Mutant: each row gets its pair again. *)
Broadcast_Twice(pair) ==
    inbox' = [c \in Clients |-> inbox[c] \o Times(2 * users[c], pair)]

(* One pair of datagrams for every row, in the order of the rows.  The     *)
(* order over clients does not matter: each has its own inbox.             *)
Broadcast(pair) == inbox' = [c \in Clients |-> inbox[c] \o Times(users[c], pair)]

(* With output too large for a datagram, sendto raises when the first row  *)
(* has got the header.                                                     *)
BroadcastHuge(header) ==
    /\ \E c \in Clients : users[c] > 0 /\ inbox' = [inbox EXCEPT ![c] = Append(@, header)]
    /\ serving' = FALSE

(* A request of a client that is not logged in is dropped without a word.  *)
(* When the database fails at is_logged_in nothing has been done yet; at   *)
(* the SELECT of the rows the command has, and nobody is told.             *)
run_remote_shared_cmd ==
    /\ Handle("shared")
    /\ LET cmd == request.cmd
           dir == IF cmd.op = "cd" THEN Resolve(Walk(cwd, cmd.arg)) ELSE cwd
           possible == IF cmd.op = "cd" THEN dir \in Dirs ELSE cmd.arg \in DOMAIN Known
           output == IF cmd.op = "cd" THEN "empty" ELSE Known[cmd.arg]
           header == Header(dir, executed + 1, cmd, sender)
       IN  \/ /\ users[sender] = 0
              /\ UNCHANGED <<inbox, users, cwd, serving, sending, executed>>
           \/ /\ users[sender] > 0 /\ ~ possible
              /\ Raise
           \/ /\ users[sender] > 0 /\ possible
              /\ \/ /\ output # "huge"
                    /\ Broadcast(<<header, Output(output)>>)
                    /\ executed' = executed + 1
                    /\ UNCHANGED serving
                 \/ /\ output = "huge"
                    /\ BroadcastHuge(header)
                    /\ UNCHANGED executed
                 \/ /\ DatabaseFails
                    /\ serving' = FALSE
                    /\ UNCHANGED <<inbox, executed>>
              /\ cwd' = dir
              /\ UNCHANGED <<users, sending>>
           \/ /\ DatabaseFails
              /\ Raise

ServerNext ==
    \/ remote_login
    \/ remote_logout
    \/ valid_remote_path
    \/ run_remote_cmd
    \/ remote_copy_file
    \/ send_chunk
    \/ get_remote_path
    \/ run_remote_shared_cmd

-------------------------------------------------------------------------------
(* The environment: UDP may lose or duplicate a datagram; the operator may *)
(* start the server again, which deletes its database.                     *)

Fault(kind) ==
    /\ kind \in Faults
    /\ Len(faults) < MaxFaults
    /\ faults' = Append(faults, kind)

Lose ==
    /\ Fault("lose")
    /\ \/ /\ \E i \in DOMAIN packet_queue : packet_queue' = RemoveAt(packet_queue, i)
          /\ UNCHANGED inbox
       \/ /\ \E c \in Clients : \E i \in DOMAIN inbox[c] :
               inbox' = [inbox EXCEPT ![c] = RemoveAt(@, i)]
          /\ UNCHANGED packet_queue
    /\ UNCHANGED <<users, cwd, serving, sending, executed>>

Duplicate ==
    /\ Fault("duplicate")
    /\ \/ /\ \E i \in DOMAIN packet_queue : packet_queue' = Append(packet_queue, packet_queue[i])
          /\ UNCHANGED inbox
       \/ /\ \E c \in Clients : \E i \in DOMAIN inbox[c] :
               inbox' = [inbox EXCEPT ![c] = Append(@, inbox[c][i])]
          /\ UNCHANGED packet_queue
    /\ UNCHANGED <<users, cwd, serving, sending, executed>>

Restart ==
    /\ Fault("restart")
    /\ packet_queue' = << >>
    /\ users' = [c \in Clients |-> 0]
    /\ cwd' = <<"Server">>
    /\ serving' = TRUE
    /\ sending' = None
    /\ UNCHANGED <<inbox, executed>>

EnvironmentNext == Lose \/ Duplicate \/ Restart

===============================================================================
