--------------------------------- MODULE Chat ---------------------------------
(***************************************************************************)
(* The chat room: the server (src/pp_1_server/server.c), its list of         *)
(* clients (src/pp_1_server/list.c) and the clients                         *)
(* (src/pp_1_client/client.c), which talk over named pipes: one FIFO        *)
(* towards the server, and one for each client, into which the server       *)
(* writes answers to the client's requests and other clients' messages.     *)
(*                                                                          *)
(* One action is one system call that may block or that another process     *)
(* can observe, together with the local computation around it.  Opening a   *)
(* FIFO blocks until the other end is open: an end counts as open from the  *)
(* call of open() on, and a process blocked in open() is released by the    *)
(* arrival of the other end.  The client never closes a descriptor, so its  *)
(* FIFO has a reader (fds) from its first successful open() to its end.     *)
(***************************************************************************)
EXTENDS Integers, Sequences, FiniteSets, SequencesExt

CONSTANTS
  Clients,            \* the client processes, by their pids
  Connected,          \* the clients that are connected at the start, in order
  MAX_NUM_CLIENTS,    \* room in the list (100)
  CAPACITY,           \* records a client's FIFO holds before write() blocks
  Nobody,             \* a destination pid that is no client's
  Texts,              \* the texts of messages
  MaxChoices,         \* bound on the choices users make at the prompt
  Interruptible,      \* the clients in which users may press CTRL+C
  Killable,           \* the clients that may be killed with kill -9
  MayStopServer,      \* may the server be stopped with CTRL+C?
  MaxRestarts,        \* bound on the times the server is started again
  FreedRead           \* what reading a freed list node may do

ASSUME ClientsAssumption ==
  IsFiniteSet(Clients) /\ Nobody \notin Clients /\ "global" \notin Clients
ASSUME ConnectedAssumption ==
  /\ Connected \in Seq(Clients) /\ IsInjective(Connected)
  /\ Len(Connected) <= MAX_NUM_CLIENTS
ASSUME BoundsAssumption ==
  /\ MAX_NUM_CLIENTS \in Nat /\ CAPACITY \in Nat \ {0} /\ MaxChoices \in Nat
  /\ MaxRestarts \in Nat
  /\ Interruptible \cup Killable \subseteq Clients /\ MayStopServer \in BOOLEAN
  /\ FreedRead \subseteq {"intact", "fault"}

VARIABLES
  sfifo, fifo, exists,      \* contents of the FIFOs; does the name exist?
  list,                     \* client_pids_list: the pids from front to back
  forgotten, restarts,      \* history: who was in the list when the server
                            \*   ended; bound: how often it was restarted
  spc, req,                 \* the server's point and the request in hand
  target, resp, phase,      \* the FIFO it writes to, what, and what for
  p, msg_success,           \* the position and flag of a global message
  delivered,                \* history: who got the message in hand
  cpc, call,                \* each client's point, and the request it is in
  dest, text,               \* destination and text of the message it sends
  int_sys_flag,             \* CTRL+C was pressed
  fds,                      \* has an open descriptor on its own FIFO
  hup,                      \* poll() in client_read_messages reports POLLHUP
                            \*   once its FIFO has no writer
  choices                   \* bound: choices made at the prompt so far

listVars == <<list, forgotten, restarts>>
serverVars == <<listVars, spc, req, target, resp, phase, p, msg_success, delivered>>
draft == <<dest, text>>
clientVars == <<cpc, call, draft, int_sys_flag, fds, hup, choices>>
fifoVars == <<sfifo, fifo, exists>>
vars == <<fifoVars, serverVars, clientVars>>

GLOBAL == "global"
Dests  == Clients \cup {Nobody, GLOBAL}
Listed == ToSet(list)

(* What the server writes to a client's FIFO is an answer to a request or    *)
(* another client's message.                                                 *)
Response(kind, t) == [kind |-> kind, text |-> t]
OK   == Response("answer", "OK")
FAIL == Response("answer", "FAIL")
IsAnswer(r) == r.kind = "answer"

Request(c, op, d, t) == [from |-> c, op |-> op, dest |-> d, text |-> t]
NoText == ""
NoRequest == Request(Nobody, "none", Nobody, NoText)

(* The server waits for requests; the clients are not running, or their      *)
(* users see the prompt.                                                     *)
Init ==
  LET here == [c \in Clients |-> c \in ToSet(Connected)] IN
  /\ sfifo = <<>> /\ fifo = [c \in Clients |-> <<>>]
  /\ exists = here /\ fds = here
  /\ list = Connected /\ forgotten = {} /\ restarts = 0
  /\ spc = "read" /\ req = NoRequest
  /\ target = Nobody /\ resp = OK /\ phase = "reply"
  /\ p = 1 /\ msg_success = FALSE /\ delivered = {}
  /\ cpc = [c \in Clients |-> IF here[c] THEN "prompt" ELSE "off"]
  /\ call = [c \in Clients |-> IF here[c] THEN "check_connection"
                                          ELSE "new_client"]
  /\ dest = [c \in Clients |-> Nobody] /\ text = [c \in Clients |-> NoText]
  /\ int_sys_flag = [c \in Clients |-> FALSE]
  /\ hup = [c \in Clients |-> FALSE]
  /\ choices = 0

-------------------------------------------------------------------------------
(* The two ends of a client's FIFO.                                          *)
HasReader(c) == fds[c] \/ cpc[c] = "opening"
HasWriter(c) == target = c /\ spc \in {"opening", "write", "close"}

ServerUp == spc # "stopped"

(* Names that end in a capitalized word are faulty variants of what follows, *)
(* for the mutants.                                                          *)
list_has_room_Unchecked == TRUE

list_has_room == Len(list) < MAX_NUM_CLIENTS

(* client_remove: list_remove_pid deletes the first node with this pid.      *)
client_remove_Kept(c) == list

client_remove(c) == RemoveFirst(list, c)

(* Where the iteration goes on after the node at p was removed.              *)
next_node_Skipped == p + 1

next_node == p

(* Do not send back to the sender.                                           *)
is_sender(c) == c = req.from

-------------------------------------------------------------------------------
(* The server: reading and dispatching a request.                            *)

(* The request is dealt with.  What the server will not look at again gets a *)
(* fixed value, so that it tells no two states apart.                        *)
next_request ==
  /\ spc' = "read" /\ req' = NoRequest
  /\ target' = Nobody /\ resp' = OK /\ phase' = "reply"
  /\ p' = 1 /\ msg_success' = FALSE /\ delivered' = {}

(* Client processes end: their descriptors are closed.                       *)
die(S, point) ==
  /\ cpc' = [c \in Clients |-> IF c \in S THEN point ELSE cpc[c]]
  /\ fds' = [c \in Clients |-> fds[c] /\ c \notin S]
  /\ fifo' = [c \in Clients |-> IF c \in S THEN <<>> ELSE fifo[c]]
  /\ dest' = [c \in Clients |-> IF c \in S THEN Nobody ELSE dest[c]]
  /\ text' = [c \in Clients |-> IF c \in S THEN NoText ELSE text[c]]
  /\ hup' = [c \in Clients |-> hup[c] /\ c \notin S]
  /\ UNCHANGED <<call, int_sys_flag, choices>>

(* The process ends, and what it kept in memory with it.  A client that has   *)
(* opened the server's FIFO and not yet written to it gets SIGPIPE.          *)
stop ==
  /\ \E S \in SUBSET {c \in Clients : cpc[c] = "request"} : die(S, "killed")
  /\ UNCHANGED <<sfifo, exists>>
  /\ spc' = "stopped" /\ req' = NoRequest
  /\ list' = <<>> /\ forgotten' = forgotten \cup Listed /\ UNCHANGED restarts
  /\ target' = Nobody /\ resp' = OK /\ phase' = "reply"
  /\ p' = 1 /\ msg_success' = FALSE /\ delivered' = {}

(* resp_format_OK or resp_format_FAIL.                                       *)
answer_Acknowledged(success) == OK

answer(success) == IF success THEN OK ELSE FAIL

(* send_sys_response: what it sends, and to whom.                            *)
send_sys_response(r, to) ==
  /\ spc' = "open" /\ phase' = "reply" /\ target' = to /\ resp' = r

read_request(op) ==
  /\ spc = "read" /\ sfifo # <<>> /\ Head(sfifo).op = op
  /\ req' = Head(sfifo) /\ sfifo' = Tail(sfifo)
  /\ UNCHANGED <<fifo, exists, clientVars>>

new_client ==
  /\ read_request("new_client")
  /\ LET c == Head(sfifo).from
         success == c \notin Listed /\ list_has_room
     IN  /\ list' = IF success THEN Append(list, c) ELSE list
         /\ send_sys_response(answer(success), c)
  /\ UNCHANGED <<forgotten, restarts, p, msg_success, delivered>>

disconnect_client ==
  /\ read_request("disconnect_client")
  /\ LET c == Head(sfifo).from
     IN  /\ list' = client_remove(c)
         /\ send_sys_response(answer(c \in Listed), c)
  /\ UNCHANGED <<forgotten, restarts, p, msg_success, delivered>>

check_connection ==
  /\ read_request("check_connection")
  /\ send_sys_response(OK, Head(sfifo).from)
  /\ UNCHANGED <<listVars, p, msg_success, delivered>>

global_message ==
  /\ read_request("message") /\ Head(sfifo).dest = GLOBAL
  /\ spc' = "global" /\ p' = 1 /\ msg_success' = TRUE /\ delivered' = {}
  /\ UNCHANGED <<listVars, target, resp, phase>>

direct_message ==
  /\ read_request("message") /\ Head(sfifo).dest \in Listed
  /\ spc' = "open" /\ phase' = "direct" /\ target' = Head(sfifo).dest
  /\ resp' = Response("message", Head(sfifo).text)
  /\ delivered' = {}
  /\ UNCHANGED <<listVars, p, msg_success>>

(* dest_pid not in client PID list: answered with OK all the same.           *)
undeliverable_message ==
  /\ read_request("message") /\ Head(sfifo).dest \notin Listed \cup {GLOBAL}
  /\ send_sys_response(OK, Head(sfifo).from)
  /\ delivered' = {}
  /\ UNCHANGED <<listVars, p, msg_success>>

(* One turn of the loop over the list.                                       *)
next_recipient ==
  /\ spc = "global"
  /\ \/ /\ p > Len(list)
        /\ send_sys_response(answer(msg_success), req.from)
        /\ UNCHANGED p
     \/ /\ p <= Len(list) /\ is_sender(list[p])
        /\ p' = p + 1
        /\ UNCHANGED <<spc, target, resp, phase>>
     \/ /\ p <= Len(list) /\ ~is_sender(list[p])
        /\ spc' = "open" /\ phase' = "global" /\ target' = list[p]
        /\ resp' = Response("message", req.text)
        /\ UNCHANGED p
  /\ UNCHANGED <<fifoVars, listVars, req, msg_success, delivered, clientVars>>

-------------------------------------------------------------------------------
(* The server: writing to a client's FIFO.                                   *)

(* The result of send_msg, and the answer to its sender.                     *)
sent_direct_Unanswered(success) ==
  /\ msg_success' = success /\ phase' = "reply"
  /\ IF success THEN spc' = "open" /\ target' = req.from /\ resp' = OK
     ELSE spc' = "read" /\ target' = Nobody /\ resp' = OK

sent_direct(success) ==
  /\ msg_success' = success
  /\ send_sys_response(answer(success), req.from)

(* The name is gone.  A global message removes the client from the list and  *)
(* then reads the next pointer of the node just freed, which may still be    *)
(* there or end the process.                                                 *)
open_fails ==
  /\ spc = "open" /\ ~exists[target]
  /\ \/ /\ phase = "reply" /\ next_request
        /\ UNCHANGED listVars
     \/ /\ phase = "direct" /\ sent_direct(FALSE)
        /\ UNCHANGED <<listVars, req, p, delivered>>
     \/ /\ phase = "global" /\ "intact" \in FreedRead
        /\ spc' = "global" /\ list' = client_remove(target) /\ p' = next_node
        /\ msg_success' = FALSE
        /\ UNCHANGED <<forgotten, restarts, req, target, resp, phase, delivered>>
  /\ UNCHANGED <<fifoVars, clientVars>>

read_freed_node ==
  /\ spc = "open" /\ ~exists[target] /\ phase = "global"
  /\ "fault" \in FreedRead /\ stop

(* open(O_WRONLY): blocks while nobody reads; releases a client blocked in   *)
(* open(O_RDONLY).                                                           *)
open_client_fifo ==
  /\ spc = "open" /\ exists[target]
  /\ spc' = IF HasReader(target) THEN "write" ELSE "opening"
  /\ hup' = [hup EXCEPT ![target] =
                 cpc[target] \in {"reading", "reading_first"}]
  /\ IF cpc[target] = "opening"
     THEN /\ cpc' = [cpc EXCEPT ![target] = "read"]
          /\ fds' = [fds EXCEPT ![target] = TRUE]
     ELSE UNCHANGED <<cpc, fds>>
  /\ UNCHANGED <<fifoVars, listVars, req, target, resp, phase, p, msg_success,
                 delivered, call, draft, int_sys_flag, choices>>

(* write() blocks while the FIFO is full.                                    *)
write_client_fifo ==
  /\ spc = "write" /\ HasReader(target) /\ Len(fifo[target]) < CAPACITY
  /\ fifo' = [fifo EXCEPT ![target] = Append(@, resp)]
  /\ delivered' = IF phase = "reply" THEN delivered ELSE delivered \cup {target}
  /\ spc' = "close"
  /\ UNCHANGED <<sfifo, exists, listVars, req, target, resp, phase, p,
                 msg_success, clientVars>>

(* EPIPE: all readers have gone since the FIFO was opened.  The server does  *)
(* not close the descriptor then; nobody waits for this FIFO any more.       *)
write_fails ==
  /\ spc = "write" /\ ~HasReader(target)
  /\ \/ phase = "reply" /\ next_request
     \/ /\ phase = "direct" /\ sent_direct(FALSE)
        /\ UNCHANGED <<req, p, delivered>>
     \/ /\ phase = "global" /\ spc' = "close" /\ msg_success' = FALSE
        /\ UNCHANGED <<req, target, resp, phase, p, delivered>>
  /\ UNCHANGED <<fifoVars, listVars, clientVars>>

close_client_fifo ==
  /\ spc = "close"
  /\ \/ phase = "reply" /\ next_request
     \/ /\ phase = "direct" /\ sent_direct(TRUE)
        /\ UNCHANGED <<req, p, delivered>>
     \/ /\ phase = "global" /\ spc' = "global" /\ p' = p + 1
        /\ UNCHANGED <<req, msg_success, target, resp, phase, delivered>>
  /\ UNCHANGED <<fifoVars, listVars, clientVars>>

Server ==
  \/ new_client \/ disconnect_client \/ check_connection
  \/ global_message \/ direct_message \/ undeliverable_message
  \/ next_recipient \/ open_fails \/ read_freed_node \/ open_client_fifo
  \/ write_client_fifo \/ write_fails \/ close_client_fifo

(* The user stops the server; it installs no handler for SIGINT.             *)
stop_server == MayStopServer /\ ServerUp /\ stop

(* Clients that have opened the server's FIFO, which they never close, and   *)
(* clients that are about to, or wait in open().                             *)
Unopened == {c \in Clients : cpc[c] = "request" /\ call[c] = "new_client"}
Holders  == {c \in Clients : cpc[c] \notin {"off", "gone", "killed"}} \ Unopened

(* ... and starts it again, with an empty list.  mkfifo finds the name of    *)
(* its FIFO; requests that nobody has read are still there while some        *)
(* process has the FIFO open.                                                *)
restart_server ==
  /\ ~ServerUp /\ restarts < MaxRestarts
  /\ spc' = "read" /\ restarts' = restarts + 1
  /\ \/ (Holders # {} \/ Unopened # {}) /\ UNCHANGED sfifo
     \/ Holders = {} /\ sfifo' = <<>>
  /\ UNCHANGED <<fifo, exists, list, forgotten, req, target, resp, phase, p,
                 msg_success, delivered, clientVars>>

-------------------------------------------------------------------------------
(* A client.                                                                 *)

(* Where main() goes on when the call it is in has returned: from connecting *)
(* and sending to the top of the loop, which tests int_sys_flag and checks   *)
(* the connection; to the exit when the connection counts as lost.           *)
top_of_loop(flag) == <<"request", IF flag THEN "disconnect_client"
                                          ELSE "check_connection">>

after_call(c, success, flag) ==
  CASE call[c] = "disconnect_client" -> <<"exit", call[c]>>
    [] call[c] = "message" -> top_of_loop(flag)
    [] call[c] = "new_client" /\ success -> top_of_loop(flag)
    [] call[c] = "check_connection" /\ success ->
         IF flag THEN top_of_loop(flag) ELSE <<"prompt", call[c]>>
    [] OTHER -> <<"exit", call[c]>>

goto(c, point) ==
  /\ cpc' = [cpc EXCEPT ![c] = point[1]]
  /\ call' = [call EXCEPT ![c] = point[2]]

(* The user starts the client, which makes its FIFO.                         *)
start(c) ==
  /\ cpc[c] = "off" /\ goto(c, <<"request", "new_client">>)
  /\ exists' = [exists EXCEPT ![c] = TRUE]
  /\ UNCHANGED <<sfifo, fifo, serverVars, draft, int_sys_flag, fds, hup,
                 choices>>

(* client_connect, client_send, client_disconnect: open the server's FIFO    *)
(* and write the request.  Every later request sets dest_pid again.          *)
send_request(c) ==
  /\ cpc[c] = "request" /\ ServerUp
  /\ sfifo' = Append(sfifo, Request(c, call[c], dest[c], text[c]))
  /\ dest' = [dest EXCEPT ![c] = Nobody] /\ text' = [text EXCEPT ![c] = NoText]
  /\ cpc' = [cpc EXCEPT ![c] = "open"]
  /\ UNCHANGED <<fifo, exists, serverVars, call, int_sys_flag, fds, hup,
                 choices>>

(* No server reads the FIFO: an error with O_NONBLOCK, but client_connect    *)
(* blocks.                                                                   *)
send_request_fails(c) ==
  /\ cpc[c] = "request" /\ ~ServerUp /\ call[c] # "new_client"
  /\ goto(c, after_call(c, FALSE, int_sys_flag[c]))
  /\ UNCHANGED <<fifoVars, serverVars, draft, int_sys_flag, fds, hup,
                 choices>>

(* check_sys_response: open(O_RDONLY) blocks while nobody writes.            *)
open_own_fifo(c) ==
  /\ cpc[c] = "open"
  /\ IF HasWriter(c)
     THEN /\ cpc' = [cpc EXCEPT ![c] = "read"]
          /\ fds' = [fds EXCEPT ![c] = TRUE]
          /\ spc' = IF spc = "opening" THEN "write" ELSE spc
     ELSE /\ cpc' = [cpc EXCEPT ![c] = "opening"]
          /\ UNCHANGED <<fds, spc>>
  /\ UNCHANGED <<fifoVars, listVars, req, target, resp, phase, p, msg_success,
                 delivered, call, draft, int_sys_flag, hup, choices>>

(* It returns without closing its descriptor.                                *)
leave_check_sys_response_Closing(c) == fds' = [fds EXCEPT ![c] = FALSE]

leave_check_sys_response(c) == UNCHANGED fds

(* ... and read() takes the first record for the answer; it is a success if  *)
(* its text is "OK".  Without a record and a writer it is the end of file.   *)
check_sys_response(c) ==
  /\ cpc[c] = "read"
  /\ \/ /\ fifo[c] # <<>>
        /\ goto(c, after_call(c, Head(fifo[c]).text = "OK", int_sys_flag[c]))
        /\ fifo' = [fifo EXCEPT ![c] = Tail(@)]
     \/ /\ fifo[c] = <<>> /\ ~HasWriter(c)
        /\ goto(c, after_call(c, FALSE, int_sys_flag[c]))
        /\ UNCHANGED fifo
  /\ leave_check_sys_response(c)
  /\ UNCHANGED <<sfifo, exists, serverVars, draft, int_sys_flag, hup,
                 choices>>

(* The user's choice at the prompt: read, send, quit, or anything else.      *)
choice(c) ==
  /\ cpc[c] = "prompt" /\ ~int_sys_flag[c]
  /\ choices < MaxChoices /\ choices' = choices + 1
  /\ UNCHANGED <<fifoVars, serverVars, draft, int_sys_flag>>

(* open(O_RDONLY | O_NONBLOCK) in client_read_messages, which never blocks:  *)
(* the server cannot be blocked in open() here, the client has descriptors.  *)
open_for_messages(c, point) ==
  /\ cpc' = [cpc EXCEPT ![c] = point]
  /\ fds' = [fds EXCEPT ![c] = TRUE]
  /\ hup' = [hup EXCEPT ![c] = HasWriter(c)]
  /\ UNCHANGED call

choose_read(c) == choice(c) /\ open_for_messages(c, "reading")

choose_send(c) == choice(c) /\ open_for_messages(c, "reading_first")

choose_quit(c) ==
  /\ choice(c) /\ goto(c, <<"request", "disconnect_client">>)
  /\ UNCHANGED <<fds, hup>>

choose_other(c) ==
  /\ choice(c) /\ goto(c, top_of_loop(FALSE))
  /\ UNCHANGED <<fds, hup>>

(* The handler of CTRL+C has closed stdin: scanf() returns without a choice. *)
leave_prompt(c) ==
  /\ cpc[c] = "prompt" /\ int_sys_flag[c] /\ goto(c, top_of_loop(TRUE))
  /\ UNCHANGED <<fifoVars, serverVars, draft, int_sys_flag, fds, hup,
                 choices>>

(* poll() with a timeout of zero.  It also reports that the writers have     *)
(* gone, as long as nobody opens the FIFO for writing again.                 *)
fifo_is_empty_Waiting(c) == FALSE

fifo_is_empty(c) == fifo[c] = <<>> /\ (HasWriter(c) \/ ~hup[c])

(* One turn of the loop in client_read_messages: print a record, or stop     *)
(* when poll() reports nothing.  While it reports that the writers have gone *)
(* the loop turns without effect.                                            *)
client_read_messages(c) ==
  /\ cpc[c] \in {"reading", "reading_first"}
  /\ \/ /\ fifo[c] # <<>>
        /\ fifo' = [fifo EXCEPT ![c] = Tail(@)]
        /\ UNCHANGED <<cpc, call, hup>>
     \/ /\ fifo_is_empty(c)
        /\ hup' = [hup EXCEPT ![c] = FALSE]
        /\ IF cpc[c] = "reading" THEN goto(c, top_of_loop(int_sys_flag[c]))
           ELSE goto(c, <<"compose", call[c]>>)
        /\ UNCHANGED fifo
  /\ UNCHANGED <<sfifo, exists, serverVars, draft, int_sys_flag, fds,
                 choices>>

(* The user enters a message and its destination.  After CTRL+C the message  *)
(* is sent as it is, to destination 0.                                       *)
req_format_message(c) ==
  /\ cpc[c] = "compose" /\ goto(c, <<"request", "message">>)
  /\ \E d \in Dests, t \in Texts :
       /\ int_sys_flag[c] => d = Nobody
       /\ dest' = [dest EXCEPT ![c] = d] /\ text' = [text EXCEPT ![c] = t]
  /\ UNCHANGED <<fifoVars, serverVars, int_sys_flag, fds, hup, choices>>

(* exit_handler removes the name; the end of the process its descriptors.    *)
exit_handler_NoUnlink(c) ==
  /\ cpc[c] = "exit" /\ cpc' = [cpc EXCEPT ![c] = "unlinked"]
  /\ UNCHANGED <<fifoVars, serverVars, call, draft, int_sys_flag, fds, hup,
                 choices>>

exit_handler(c) ==
  /\ cpc[c] = "exit" /\ cpc' = [cpc EXCEPT ![c] = "unlinked"]
  /\ exists' = [exists EXCEPT ![c] = FALSE]
  /\ UNCHANGED <<sfifo, fifo, serverVars, call, draft, int_sys_flag, fds, hup,
                 choices>>

end_of_process(c) ==
  /\ cpc[c] = "unlinked" /\ die({c}, "gone")
  /\ UNCHANGED <<sfifo, exists, serverVars>>

(* CTRL+C: int_sys_handler sets the flag, and a system call in which the     *)
(* client is blocked fails.                                                  *)
Blocked(c) ==
  \/ cpc[c] = "opening"
  \/ cpc[c] = "read" /\ fifo[c] = <<>> /\ HasWriter(c)
  \/ cpc[c] = "request" /\ call[c] = "new_client" /\ ~ServerUp

int_sys_handler(c) ==
  /\ c \in Interruptible
  /\ cpc[c] \notin {"off", "exit", "unlinked", "gone", "killed"}
  /\ int_sys_flag' = [int_sys_flag EXCEPT ![c] = TRUE]
  /\ IF Blocked(c) THEN goto(c, after_call(c, FALSE, TRUE))
     ELSE UNCHANGED <<cpc, call>>
  /\ UNCHANGED <<fifoVars, serverVars, draft, fds, hup, choices>>

(* kill -9: the name of the FIFO stays behind.                               *)
kill(c) ==
  /\ c \in Killable /\ cpc[c] \notin {"off", "gone", "killed"}
  /\ die({c}, "killed")
  /\ UNCHANGED <<sfifo, exists, serverVars>>

(* What a client does by itself, and what its user does to it.               *)
ClientRuns(c) ==
  \/ send_request(c) \/ send_request_fails(c)
  \/ open_own_fifo(c) \/ check_sys_response(c)
  \/ client_read_messages(c) \/ leave_prompt(c)
  \/ exit_handler(c) \/ end_of_process(c)

User(c) ==
  \/ start(c)
  \/ choose_read(c) \/ choose_send(c) \/ choose_quit(c) \/ choose_other(c)
  \/ req_format_message(c)
  \/ int_sys_handler(c) \/ kill(c)

Next ==
  \/ Server \/ stop_server \/ restart_server
  \/ \E c \in Clients : ClientRuns(c) \/ User(c)

Spec == Init /\ [][Next]_vars

(* The processes run; users need not do anything.                            *)
Fairness == WF_vars(Server) /\ \A c \in Clients : WF_vars(ClientRuns(c))

FairSpec == Spec /\ Fairness

-------------------------------------------------------------------------------
(* Properties.                                                               *)

ClientPoints == {"off", "request", "open", "opening", "read", "prompt",
                 "reading", "reading_first", "compose", "exit", "unlinked",
                 "gone", "killed"}
Calls == {"new_client", "check_connection", "message", "disconnect_client"}
Responses == [kind : {"answer", "message"}, text : Texts \cup {"OK", "FAIL"}]
Requests == [from : Clients \cup {Nobody}, op : Calls \cup {"none"},
             dest : Dests, text : Texts \cup {NoText}]

(* Every variable stays in its type, and the FIFOs and the list within their *)
(* sizes.                                                                    *)
TypeOK ==
  /\ ToSet(sfifo) \subseteq Requests
  /\ \A c \in Clients :
       ToSet(fifo[c]) \subseteq Responses /\ Len(fifo[c]) <= CAPACITY
  /\ exists \in [Clients -> BOOLEAN]
  /\ Listed \subseteq Clients /\ Len(list) <= MAX_NUM_CLIENTS
  /\ forgotten \subseteq Clients /\ restarts \in 0..MaxRestarts
  /\ spc \in {"read", "global", "open", "opening", "write", "close", "stopped"}
  /\ req \in Requests /\ target \in Clients \cup {Nobody} /\ resp \in Responses
  /\ phase \in {"reply", "direct", "global"}
  /\ p \in 1..(MAX_NUM_CLIENTS + 1)
  /\ msg_success \in BOOLEAN /\ delivered \subseteq Clients
  /\ cpc \in [Clients -> ClientPoints] /\ call \in [Clients -> Calls]
  /\ dest \in [Clients -> Dests] /\ text \in [Clients -> Texts \cup {NoText}]
  /\ int_sys_flag \in [Clients -> BOOLEAN]
  /\ fds \in [Clients -> BOOLEAN] /\ hup \in [Clients -> BOOLEAN]
  /\ choices \in 0..MaxChoices

(* new_client/list_push_back: a client whose user sees the prompt is in the  *)
(* server's list, so that messages to it are delivered, unless the server    *)
(* has lost it by a restart: check_connection answers OK to anybody.         *)
PromptMeansListed ==
  \A c \in Clients : ServerUp /\ cpc[c] \in {"prompt", "reading",
    "reading_first", "compose"} => c \in Listed \cup forgotten

(* client_disconnect/client_remove: once a client that asked to be           *)
(* disconnected is about to exit, it is not in the list, or its request is   *)
(* still on its way to the server.                                           *)
QuitDisconnects ==
  \A c \in Clients :
    /\ call[c] = "disconnect_client" /\ cpc[c] \in {"exit", "unlinked", "gone"}
    /\ ServerUp
    => c \notin Listed \/ \E r \in ToSet(sfifo) : r.from = c

(* An answer to c was written or is still to come: it is in its FIFO or in   *)
(* the server's hands, or due for a request that the server has not read.    *)
AnswerDue(c) ==
  \/ \E k \in DOMAIN fifo[c] : IsAnswer(fifo[c][k])
  \/ /\ req.from = c
     /\ \/ spc \in {"global", "open", "opening", "write"}
        \/ spc = "close" /\ phase # "reply"
  \/ \E k \in DOMAIN sfifo : sfifo[k].from = c

(* No request goes unanswered: while a client waits in check_sys_response    *)
(* an answer is on its way to it, unless the server was stopped.             *)
AnswerOnItsWay ==
  \A c \in Clients :
    ServerUp /\ restarts = 0 /\ cpc[c] \in {"open", "opening", "read"} =>
      AnswerDue(c)

(* The loop over the list: when a global message is answered it was written  *)
(* to every client in the list that can still read it, but not to its        *)
(* sender, also if clients were removed from the list during the loop; and   *)
(* "OK" means that it was written to everybody else.                         *)
GlobalReachesAll ==
  phase = "reply" /\ spc = "open" /\ req.op = "message" /\ req.dest = GLOBAL =>
    /\ \A c \in Listed \ {req.from} : c \in delivered \/ ~HasReader(c)
    /\ req.from \notin delivered
    /\ resp = OK => Listed \ {req.from} = delivered

(* The server blocks in open() only for a client that has not yet opened its *)
(* FIFO for the answer to new_client, or that will never do so because it    *)
(* was killed or interrupted.                                                *)
BlockedOnlyOnConnect ==
  spc = "opening" =>
    \/ cpc[target] = "killed" \/ int_sys_flag[target]
    \/ cpc[target] = "open" /\ call[target] = "new_client" /\ phase = "reply"

(* As long as nobody is killed or interrupted the server always comes back   *)
(* to read the next request, unless it writes to a FIFO that is full.        *)
ServerResponsive ==
  [](\A c \in Clients : cpc[c] # "killed" /\ ~int_sys_flag[c])
    => []<>(spc \in {"read", "stopped"}
            \/ (spc = "write" /\ Len(fifo[target]) = CAPACITY))

(* client_read_messages: a client that reads its messages comes back to the  *)
(* prompt or goes on to send; a reading that never ends meets again and      *)
(* again a FIFO that the server has opened and closed meanwhile, which       *)
(* poll() takes for one with something to read.                              *)
Reading(c) == cpc[c] \in {"reading", "reading_first"}
ReadingEnds ==
  \A c \in Clients : Reading(c) ~> ~Reading(c) \/ (hup[c] /\ ~HasWriter(c))

(* "Upon successful connection user will be prompted to enter a single       *)
(* letter choice."                                                           *)
PromptedAfterConnecting ==
  \A c \in Clients : (cpc[c] = "request" /\ call[c] = "check_connection")
    ~> cpc[c] = "prompt"
=============================================================================
