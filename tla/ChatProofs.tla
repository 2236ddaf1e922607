------------------------------ MODULE ChatProofs ------------------------------
(***************************************************************************)
(* Proofs about Chat for any number of clients, any room in the list and    *)
(* any capacity of the FIFOs: who sees the prompt is in the server's list,  *)
(* who has quit is not, a global message reaches everybody that can read    *)
(* it, no request goes unanswered, and the server blocks in open() only for *)
(* a client that is connecting.                                             *)
(***************************************************************************)
EXTENDS Chat, WalkLemmas

(* Requests as the clients write them.                                       *)
Sent == {r \in Requests :
          r.from \in Clients /\ r.op \in Calls /\ (r.op = "message" => r.text \in Texts)}

(* The process has ended; it runs main().                                    *)
Dead(c)  == cpc[c] \in {"gone", "killed"}
Alive(c) == cpc[c] \notin {"off", "exit", "unlinked", "gone", "killed"}

Known(c) == c \in Listed \cup forgotten

(* The server has a request in hand; it is about to write, or writes.        *)
Busy    == spc \notin {"read", "stopped"}
Writing == spc \in {"open", "opening", "write", "close"}

ClientType ==
  /\ exists \in [Clients -> BOOLEAN]
  /\ cpc \in [Clients -> ClientPoints] /\ call \in [Clients -> Calls]
  /\ dest \in [Clients -> Dests] /\ text \in [Clients -> Texts \cup {NoText}]
  /\ int_sys_flag \in [Clients -> BOOLEAN]
  /\ fds \in [Clients -> BOOLEAN] /\ hup \in [Clients -> BOOLEAN]
  /\ choices \in 0..MaxChoices

FifoType ==
  /\ sfifo \in Seq(Sent)
  /\ fifo \in [Clients -> Seq(Responses)]
  /\ \A c \in Clients : Len(fifo[c]) <= CAPACITY

ServerType ==
  /\ forgotten \subseteq Clients /\ restarts \in 0..MaxRestarts
  /\ spc \in {"read", "global", "open", "opening", "write", "close", "stopped"}
  /\ req \in Requests /\ target \in Clients \cup {Nobody} /\ resp \in Responses
  /\ phase \in {"reply", "direct", "global"}
  /\ p \in 1..(MAX_NUM_CLIENTS + 1)
  /\ msg_success \in BOOLEAN /\ delivered \subseteq Clients

(* The list has no pid twice, and is lost when the server stops.             *)
ListInv ==
  /\ list \in Seq(Clients) /\ Len(list) <= MAX_NUM_CLIENTS
  /\ \A k, m \in 1..Len(list) : list[k] = list[m] => k = m
  /\ spc = "stopped" => list = <<>>

(* What the server has in hand.                                              *)
ServerInv ==
  /\ ~Busy => p = 1 /\ req = NoRequest
  /\ Busy => req \in Sent
  /\ p \in 1..(Len(list) + 1)
  /\ spc = "global" => req.op = "message" /\ req.dest = GLOBAL
  /\ Writing =>
       /\ target \in Clients
       /\ phase = "reply" => target = req.from /\ IsAnswer(resp)
       /\ phase # "reply" => target \in Listed /\ req.op = "message"
       /\ phase = "direct" => req.dest # GLOBAL
       /\ phase = "global" => /\ p <= Len(list) /\ target = list[p]
                              /\ target # req.from /\ req.dest = GLOBAL
  /\ spc = "write" => fds[target] \/ Dead(target)

(* A client's point, the request it is in, and the two ends of its FIFO.     *)
ClientInv ==
  \A c \in Clients :
    /\ cpc[c] \in {"off", "unlinked", "gone"} => ~exists[c]
    /\ cpc[c] \notin {"off", "unlinked", "gone", "killed"} => exists[c]
    /\ cpc[c] = "off" => call[c] = "new_client" /\ ~fds[c]
    /\ Dead(c) => ~fds[c]
    /\ cpc[c] \notin {"off", "gone", "killed"} /\ ~fds[c] =>
         /\ call[c] = "new_client"
         /\ \/ cpc[c] \in {"request", "open", "opening"}
            \/ int_sys_flag[c] /\ cpc[c] \in {"exit", "unlinked"}
    /\ cpc[c] \in {"prompt", "reading", "reading_first", "compose"} =>
         call[c] = "check_connection"
    /\ cpc[c] = "request" /\ call[c] = "message" => text[c] \in Texts

(* The server does not know a client that has not written its first request. *)
Fresh(c) == cpc[c] = "off" \/ (cpc[c] = "request" /\ call[c] = "new_client")

FreshInv == \A c \in Clients : Fresh(c) => ~Known(c) /\ fifo[c] = <<>>

(* Requests on their way: the one to connect is its client's only one.       *)
RequestInv ==
  \A k \in 1..Len(sfifo) : LET r == sfifo[k] IN
    /\ ~Fresh(r.from)
    /\ r.op = "new_client" <=> call[r.from] = "new_client"
    /\ r.op = "disconnect_client" => call[r.from] = "disconnect_client"
    /\ r.op = "new_client" =>
         /\ ~Known(r.from) /\ fifo[r.from] = <<>>
         /\ \A m \in 1..Len(sfifo) : sfifo[m].from = r.from => m = k

(* ... and the one in hand.                                                  *)
HandInv ==
  Busy => /\ ~Fresh(req.from)
          /\ req.op # "new_client" => call[req.from] # "new_client"
          /\ call[req.from] = "new_client" =>
               \A k \in 1..Len(sfifo) : sfifo[k].from # req.from

(* Who was told that it is connected is, or the server was stopped since.    *)
ConnectedInv ==
  \A c \in Clients : Alive(c) =>
    /\ call[c] \in {"check_connection", "message"} => Known(c)
    /\ call[c] = "new_client" =>
         /\ \A k \in 1..Len(fifo[c]) : fifo[c][k].text = "OK" => Known(c)
         /\ Busy /\ Writing /\ spc # "close" /\ target = c /\ resp.text = "OK" =>
              Known(c)

(* A client that has sent off its request to be disconnected.                *)
QuitInv ==
  \A c \in Clients :
    /\ call[c] = "disconnect_client" /\ ServerUp
    /\ cpc[c] \in {"open", "opening", "read", "exit", "unlinked", "gone"}
    => \/ c \notin Listed
       \/ \E k \in 1..Len(sfifo) :
            sfifo[k].from = c /\ sfifo[k].op = "disconnect_client"

(* A client in the list that has not opened its FIFO is being answered.      *)
UnopenedInv ==
  \A c \in Clients : c \in Listed /\ ~fds[c] /\ ~Dead(c) /\ ~int_sys_flag[c] =>
    spc \in {"open", "opening"} /\ target = c /\ phase = "reply"

(* Whom the server has passed has the message in hand, or cannot read it any *)
(* more; as long as nothing has failed all of them have it.                  *)
Passed == IF Writing /\ phase = "global" /\ spc = "close" THEN p ELSE p - 1

LoopInv ==
  Busy /\ req.op = "message" /\ req.dest = GLOBAL =>
    /\ req.from \notin delivered
    /\ spc = "global" \/ phase = "global" =>
         /\ \A k \in 1..Passed :
              list[k] \in delivered \cup {req.from} \/ Dead(list[k])
         /\ msg_success => delivered = {list[k] : k \in 1..Passed} \ {req.from}
    /\ spc # "global" /\ phase = "reply" =>
         /\ \A c \in Listed : c \in delivered \cup {req.from} \/ Dead(c)
         /\ resp = OK => delivered = Listed \ {req.from}

CInv ==
  /\ ClientType /\ FifoType /\ ServerType /\ ListInv /\ ServerInv /\ ClientInv
  /\ FreshInv /\ RequestInv /\ HandInv /\ ConnectedInv /\ QuitInv /\ UnopenedInv
  /\ LoopInv /\ BlockedOnlyOnConnect /\ AnswerOnItsWay

-------------------------------------------------------------------------------
(* The shapes of things, as the steps below use them.                        *)
LEMMA Shapes ==
  ASSUME CInv
  PROVE  /\ Len(sfifo) \in Nat /\ DOMAIN sfifo = 1..Len(sfifo)
         /\ \A k \in 1..Len(sfifo) :
              sfifo[k] \in Sent /\ sfifo[k].from \in Clients /\ sfifo[k].op \in Calls
         /\ Busy => req.from \in Clients /\ req.op \in Calls
         /\ \A c \in Clients :
              /\ fifo[c] \in Seq(Responses) /\ Len(fifo[c]) \in Nat
              /\ DOMAIN fifo[c] = 1..Len(fifo[c])
         /\ Len(list) \in Nat /\ Listed \subseteq Clients
         /\ \A k \in 1..Len(list) : list[k] \in Clients
         /\ Listed = {list[k] : k \in 1..Len(list)}
<1>1. sfifo \in Seq(Sent) /\ list \in Seq(Clients)
      /\ \A c \in Clients : fifo[c] \in Seq(Responses)
  BY DEF CInv, FifoType, ListInv
<1>2. /\ Len(sfifo) \in Nat /\ DOMAIN sfifo = 1..Len(sfifo)
      /\ \A k \in 1..Len(sfifo) : sfifo[k] \in Sent
  BY <1>1, LenProperties, ElementOfSeq
<1>3. /\ Len(list) \in Nat /\ DOMAIN list = 1..Len(list)
      /\ \A k \in 1..Len(list) : list[k] \in Clients
  BY <1>1, LenProperties, ElementOfSeq
<1>4. \A c \in Clients : Len(fifo[c]) \in Nat /\ DOMAIN fifo[c] = 1..Len(fifo[c])
  BY <1>1, LenProperties
<1>5. \A r \in Sent : r.from \in Clients /\ r.op \in Calls
  BY DEF Sent
<1>6. Busy => req \in Sent
  BY DEF CInv, ServerInv
<1>7. Listed = {list[k] : k \in 1..Len(list)} /\ Listed \subseteq Clients
  BY <1>3 DEF Listed, ToSet
<1> QED BY <1>1, <1>2, <1>3, <1>4, <1>5, <1>6, <1>7

(* Where main() may go on when a call has returned.                          *)
Returns(c, success, point, op) ==
  \/ call[c] = "disconnect_client" /\ point = "exit" /\ op = call[c]
  \/ /\ call[c] = "message" \/ (success /\ call[c] # "disconnect_client")
     /\ point = "request" /\ op \in {"disconnect_client", "check_connection"}
  \/ /\ success /\ call[c] = "check_connection"
     /\ point = "prompt" /\ op = call[c]
  \/ /\ ~success /\ call[c] \in {"new_client", "check_connection"}
     /\ point = "exit" /\ op = call[c]

(* That is what after_call computes.                                         *)
LEMMA AfterCall ==
  ASSUME CInv, NEW c \in Clients, NEW success \in BOOLEAN, NEW flag \in BOOLEAN,
         goto(c, after_call(c, success, flag))
  PROVE  \E point, op :
           /\ Returns(c, success, point, op)
           /\ cpc' = [cpc EXCEPT ![c] = point] /\ call' = [call EXCEPT ![c] = op]
<1> DEFINE a == after_call(c, success, flag)
<1>1. call[c] \in Calls
  BY DEF CInv, ClientType
<1>2. \E point, op : a = <<point, op>> /\ Returns(c, success, point, op)
  <2>1. CASE call[c] = "disconnect_client"
    BY <2>1 DEF after_call, Returns
  <2>2. CASE call[c] = "message"
    BY <2>2 DEF after_call, Returns, top_of_loop
  <2>3. CASE call[c] = "new_client"
    BY <2>3 DEF after_call, Returns, top_of_loop
  <2>4. CASE call[c] = "check_connection"
    BY <2>4 DEF after_call, Returns, top_of_loop
  <2> QED BY <1>1, <2>1, <2>2, <2>3, <2>4 DEF Calls
<1>3. cpc' = [cpc EXCEPT ![c] = a[1]] /\ call' = [call EXCEPT ![c] = a[2]]
  BY DEF goto
<1> HIDE DEF a
<1>4. PICK point, op : a = <<point, op>> /\ Returns(c, success, point, op)
  BY <1>2
<1>5. a[1] = point /\ a[2] = op
  BY <1>4
<1> QED BY <1>3, <1>4, <1>5

(* What is left in a client's FIFO when it has read a record.                *)
LEMMA TailOfFifo ==
  ASSUME CInv, NEW c \in Clients, fifo[c] # <<>>
  PROVE  /\ Tail(fifo[c]) \in Seq(Responses) /\ Len(Tail(fifo[c])) <= CAPACITY
         /\ \A k \in 1..Len(Tail(fifo[c])) :
              \E m \in 1..Len(fifo[c]) : Tail(fifo[c])[k] = fifo[c][m]
         /\ 1 \in 1..Len(fifo[c]) /\ Head(fifo[c]) = fifo[c][1]
<1> DEFINE s == fifo[c]
           t == Tail(s)
<1>1. s \in Seq(Responses) /\ Len(s) \in Nat /\ s # <<>> /\ Len(s) <= CAPACITY
  BY Shapes DEF CInv, FifoType
<1> HIDE DEF s
<1>2. Len(s) # 0
  BY <1>1, EmptySeq
<1>3. /\ t \in Seq(Responses) /\ Len(t) = Len(s) - 1 /\ Head(s) = s[1]
      /\ \A k \in 1..(Len(s) - 1) : t[k] = s[k + 1]
  BY <1>1, HeadTailProperties
<1> HIDE DEF t
<1>4. Len(t) <= CAPACITY /\ 1 \in 1..Len(s)
  BY <1>1, <1>2, <1>3, BoundsAssumption
<1>5. ASSUME NEW k \in 1..Len(t)
      PROVE  \E m \in 1..Len(s) : t[k] = s[m]
  <2>1. k \in 1..(Len(s) - 1) /\ k + 1 \in 1..Len(s)
    BY <1>1, <1>3
  <2> QED BY <1>3, <2>1
<1> QED BY <1>3, <1>4, <1>5 DEF s, t

(* The server does not write to a client it has not heard of.                *)
LEMMA FreshNotTarget ==
  ASSUME CInv, NEW c \in Clients, Fresh(c), Writing
  PROVE  target # c
<1>1. Busy
  BY DEF Busy, Writing
<1>2. CASE phase = "reply"
  BY <1>1, <1>2 DEF CInv, ServerInv, HandInv
<1>3. CASE phase # "reply"
  BY <1>3 DEF CInv, ServerInv, FreshInv, Known
<1> QED BY <1>2, <1>3

(* What one turn of the loop in client_read_messages may change.             *)
MessagesRead(c, rest, point, op, h) ==
  /\ cpc[c] \in {"reading", "reading_first"}
  /\ fifo' = [fifo EXCEPT ![c] = rest]
  /\ rest \in Seq(Responses) /\ Len(rest) <= CAPACITY
  /\ cpc' = [cpc EXCEPT ![c] = point]
  /\ call' = [call EXCEPT ![c] = op]
  /\ hup' = [hup EXCEPT ![c] = h] /\ h \in BOOLEAN
  /\ \/ point = cpc[c] /\ op = call[c]
     \/ point = "request" /\ op \in {"disconnect_client", "check_connection"}
     \/ point = "compose" /\ op = call[c]
  /\ UNCHANGED <<sfifo, exists, list, forgotten, restarts, spc, req, target,
                 resp, phase, p, msg_success, delivered, dest, text,
                 int_sys_flag, fds, choices>>

(* It does nothing else.                                                     *)
LEMMA ReadMessagesEffect ==
  ASSUME CInv, NEW c \in Clients, client_read_messages(c)
  PROVE  \E rest, point, op, h : MessagesRead(c, rest, point, op, h)
<1>1. CASE fifo[c] # <<>> /\ fifo' = [fifo EXCEPT ![c] = Tail(@)]
           /\ UNCHANGED <<cpc, call, hup>>
  <2>1. /\ cpc' = [cpc EXCEPT ![c] = cpc[c]] /\ call' = [call EXCEPT ![c] = call[c]]
        /\ hup' = [hup EXCEPT ![c] = hup[c]] /\ hup[c] \in BOOLEAN
    BY <1>1 DEF CInv, ClientType
  <2>2. /\ fifo' = [fifo EXCEPT ![c] = Tail(fifo[c])]
        /\ Tail(fifo[c]) \in Seq(Responses) /\ Len(Tail(fifo[c])) <= CAPACITY
    BY <1>1, TailOfFifo
  <2>3. MessagesRead(c, Tail(fifo[c]), cpc[c], call[c], hup[c])
    BY <1>1, <2>1, <2>2 DEF client_read_messages, fifoVars, serverVars,
        listVars, draft, clientVars, MessagesRead
  <2> QED BY <2>3
<1>2. CASE /\ hup' = [hup EXCEPT ![c] = FALSE] /\ UNCHANGED fifo
           /\ IF cpc[c] = "reading" THEN goto(c, top_of_loop(int_sys_flag[c]))
              ELSE goto(c, <<"compose", call[c]>>)
  <2>1. PICK point, op :
          /\ cpc' = [cpc EXCEPT ![c] = point] /\ call' = [call EXCEPT ![c] = op]
          /\ \/ /\ point = "request"
                /\ op \in {"disconnect_client", "check_connection"}
             \/ point = "compose" /\ op = call[c]
    BY <1>2 DEF goto, top_of_loop
  <2>2. /\ fifo' = [fifo EXCEPT ![c] = fifo[c]]
        /\ fifo[c] \in Seq(Responses) /\ Len(fifo[c]) <= CAPACITY
    BY <1>2 DEF CInv, FifoType
  <2>3. MessagesRead(c, fifo[c], point, op, FALSE)
    BY <1>2, <2>1, <2>2 DEF client_read_messages, fifoVars, serverVars,
        listVars, draft, clientVars, MessagesRead
  <2> QED BY <2>3
<1> QED BY <1>1, <1>2 DEF client_read_messages

-------------------------------------------------------------------------------
(* The clients' steps.                                                       *)

(* A client is started.                                                      *)
LEMMA StartStep ==
  ASSUME CInv, NEW c \in Clients, start(c)
  PROVE  CInv'
<1>1. /\ cpc[c] = "off"
      /\ cpc' = [cpc EXCEPT ![c] = "request"]
      /\ call' = [call EXCEPT ![c] = "new_client"]
      /\ exists' = [exists EXCEPT ![c] = TRUE]
      /\ UNCHANGED <<sfifo, fifo, list, forgotten, restarts, spc, req, target,
                     resp, phase, p, msg_success, delivered, dest, text,
                     int_sys_flag, fds, hup, choices>>
  BY DEF start, goto, fifoVars, serverVars, listVars, draft, clientVars
<1>2. \A d \in Clients :
        /\ cpc'[d] = IF d = c THEN "request" ELSE cpc[d]
        /\ call'[d] = IF d = c THEN "new_client" ELSE call[d]
        /\ exists'[d] = IF d = c THEN TRUE ELSE exists[d]
  BY <1>1 DEF CInv, ClientType, FifoType
<1>3. \A d \in Clients :
        cpc[d] \in {"gone", "killed"} => cpc'[d] \in {"gone", "killed"}
  BY <1>1, <1>2
<1>10. ClientType'
  BY <1>1, BoundsAssumption DEF CInv, ClientType, ClientPoints, Calls, Dests
<1>11. FifoType'
  BY <1>1 DEF CInv, FifoType
<1>12. ServerType'
  BY <1>1 DEF CInv, ServerType
<1>13. ListInv'
  BY <1>1 DEF CInv, ListInv
<1>14. ServerInv'
  BY <1>1, <1>2, <1>3, Shapes DEF CInv, ServerInv, Busy, Writing, Listed,
     Dead
<1>15. ClientInv'
  BY <1>1, <1>2 DEF CInv, ClientInv, Dead, ClientType
<1>16. FreshInv'
  BY <1>1, <1>2 DEF CInv, FreshInv, Fresh, Known, Listed, ClientInv
<1>17. RequestInv'
  BY <1>1, <1>2, Shapes DEF CInv, RequestInv, Fresh, Known, Listed,
     ClientInv
<1>18. HandInv'
  BY <1>1, <1>2, Shapes DEF CInv, HandInv, Busy, Fresh, ClientInv
<1>19. ConnectedInv'
  BY <1>1, <1>2, FreshNotTarget DEF CInv, ConnectedInv, Alive, Known,
     Listed, Busy, Writing, ClientInv, FreshInv, Fresh
<1>20. QuitInv'
  BY <1>1, <1>2 DEF CInv, QuitInv, ServerUp, Listed
<1>21. UnopenedInv'
  BY <1>1, <1>2 DEF CInv, UnopenedInv, Dead, Listed, ClientInv, FreshInv,
     Fresh, Known
<1>22. LoopInv'
  BY <1>1, <1>3, Shapes DEF CInv, LoopInv, Busy, Writing, Passed, Listed,
     Dead
<1>23. BlockedOnlyOnConnect'
  BY <1>1, <1>2 DEF CInv, BlockedOnlyOnConnect, ServerInv, Writing,
     ClientInv
<1>24. AnswerOnItsWay'
  BY <1>1, <1>2 DEF CInv, AnswerOnItsWay, AnswerDue, ServerUp
<1> QED
  BY <1>10, <1>11, <1>12, <1>13, <1>14, <1>15, <1>16, <1>17, <1>18, <1>19,
     <1>20, <1>21, <1>22, <1>23, <1>24 DEF CInv

(* A client writes a request.                                                *)
LEMMA SendRequestStep ==
  ASSUME CInv, NEW c \in Clients, send_request(c)
  PROVE  CInv'
<1>1. /\ cpc[c] = "request" /\ ServerUp
      /\ sfifo' = Append(sfifo, Request(c, call[c], dest[c], text[c]))
      /\ dest' = [dest EXCEPT ![c] = Nobody]
      /\ text' = [text EXCEPT ![c] = NoText]
      /\ cpc' = [cpc EXCEPT ![c] = "open"]
      /\ UNCHANGED <<fifo, exists, list, forgotten, restarts, spc, req, target,
                     resp, phase, p, msg_success, delivered, call,
                     int_sys_flag, fds, hup, choices>>
  BY DEF send_request, fifoVars, serverVars, listVars, draft, clientVars
<1>2. \A d \in Clients :
        /\ cpc'[d] = IF d = c THEN "open" ELSE cpc[d]
  BY <1>1 DEF CInv, ClientType, FifoType
<1>3. \A d \in Clients :
        cpc[d] \in {"gone", "killed"} => cpc'[d] \in {"gone", "killed"}
  BY <1>1, <1>2
<1>4. Request(c, call[c], dest[c], text[c]) \in Sent
  BY <1>1 DEF CInv, ClientType, ClientInv, Request, Sent, Requests
<1>5. /\ sfifo' \in Seq(Sent) /\ Len(sfifo') = Len(sfifo) + 1
      /\ Len(sfifo) \in Nat /\ DOMAIN sfifo' = 1..(Len(sfifo) + 1)
      /\ \A k \in 1..Len(sfifo) : sfifo'[k] = sfifo[k]
      /\ sfifo'[Len(sfifo) + 1].from = c /\ sfifo'[Len(sfifo) + 1].op = call[c]
  <2>1. sfifo \in Seq(Sent)
    BY DEF CInv, FifoType
  <2>2. /\ sfifo' \in Seq(Sent) /\ Len(sfifo') = Len(sfifo) + 1
        /\ \A k \in 1..Len(sfifo) : sfifo'[k] = sfifo[k]
        /\ sfifo'[Len(sfifo) + 1] = Request(c, call[c], dest[c], text[c])
    BY <1>1, <1>4, <2>1, AppendProperties
  <2> QED BY <2>1, <2>2, LenProperties DEF Request
<1>6. /\ \A k \in DOMAIN sfifo : k \in DOMAIN sfifo' /\ sfifo'[k] = sfifo[k]
      /\ \E k \in DOMAIN sfifo' : sfifo'[k].from = c
  BY <1>5, Shapes
<1>10. ClientType'
  BY <1>1, BoundsAssumption DEF CInv, ClientType, ClientPoints, Calls, Dests
<1>11. FifoType'
  BY <1>1, <1>5 DEF CInv, FifoType
<1>12. ServerType'
  BY <1>1 DEF CInv, ServerType
<1>13. ListInv'
  BY <1>1 DEF CInv, ListInv
<1>14. ServerInv'
  BY <1>1, <1>2, <1>3, Shapes DEF CInv, ServerInv, Busy, Writing, Listed,
     Dead
<1>15. ClientInv'
  BY <1>1, <1>2 DEF CInv, ClientInv, Dead, ClientType
<1>16. FreshInv'
  BY <1>1, <1>2 DEF CInv, FreshInv, Fresh, Known, Listed, ClientInv
<1>17. RequestInv'
  BY <1>1, <1>2, Shapes, <1>5 DEF CInv, RequestInv, Fresh, Known, Listed,
     ClientInv, FreshInv
<1>18. HandInv'
  BY <1>1, <1>2, Shapes, <1>5 DEF CInv, HandInv, Busy, Fresh, ClientInv
<1>19. ConnectedInv'
  BY <1>1, <1>2 DEF CInv, ConnectedInv, Alive, Known, Listed, Busy, Writing,
     ClientInv
<1>20. QuitInv'
  BY <1>1, <1>2, <1>5 DEF CInv, QuitInv, ServerUp, Listed
<1>21. UnopenedInv'
  BY <1>1, <1>2 DEF CInv, UnopenedInv, Dead, Listed, ClientInv, FreshInv,
     Fresh, Known
<1>22. LoopInv'
  BY <1>1, <1>3, Shapes DEF CInv, LoopInv, Busy, Writing, Passed, Listed,
     Dead
<1>23. BlockedOnlyOnConnect'
  BY <1>1, <1>2 DEF CInv, BlockedOnlyOnConnect, ServerInv, Writing,
     ClientInv
<1>24. AnswerOnItsWay'
  BY <1>1, <1>2, <1>6 DEF CInv, AnswerOnItsWay, AnswerDue, ServerUp
<1> QED
  BY <1>10, <1>11, <1>12, <1>13, <1>14, <1>15, <1>16, <1>17, <1>18, <1>19,
     <1>20, <1>21, <1>22, <1>23, <1>24 DEF CInv

(* No server takes it.                                                       *)
LEMMA SendFailsStep ==
  ASSUME CInv, NEW c \in Clients, send_request_fails(c)
  PROVE  CInv'
<1>1. PICK point, op :
        /\ Returns(c, FALSE, point, op)
        /\ cpc' = [cpc EXCEPT ![c] = point]
        /\ call' = [call EXCEPT ![c] = op]
        /\ cpc[c] = "request" /\ ~ServerUp /\ call[c] # "new_client"
        /\ UNCHANGED <<sfifo, fifo, exists, list, forgotten, restarts, spc, req,
                     target, resp, phase, p, msg_success, delivered, dest,
                     text, int_sys_flag, fds, hup, choices>>
  <2>1. goto(c, after_call(c, FALSE, int_sys_flag[c])) /\ int_sys_flag[c] \in BOOLEAN
    BY DEF send_request_fails, CInv, ClientType
  <2>2. PICK point, op :
          /\ Returns(c, FALSE, point, op)
          /\ cpc' = [cpc EXCEPT ![c] = point] /\ call' = [call EXCEPT ![c] = op]
    BY <2>1, AfterCall
  <2> QED BY <2>2 DEF send_request_fails, fifoVars, serverVars, listVars, draft, clientVars
<1>2. \A d \in Clients :
        /\ cpc'[d] = IF d = c THEN point ELSE cpc[d]
        /\ call'[d] = IF d = c THEN op ELSE call[d]
  BY <1>1 DEF CInv, ClientType, FifoType
<1>3. \A d \in Clients :
        cpc[d] \in {"gone", "killed"} => cpc'[d] \in {"gone", "killed"}
  BY <1>1, <1>2
<1>10. ClientType'
  BY <1>1, BoundsAssumption DEF CInv, ClientType, ClientPoints, Calls,
     Dests, Returns
<1>11. FifoType'
  BY <1>1 DEF CInv, FifoType
<1>12. ServerType'
  BY <1>1 DEF CInv, ServerType
<1>13. ListInv'
  BY <1>1 DEF CInv, ListInv
<1>14. ServerInv'
  BY <1>1, <1>2, <1>3, Shapes DEF CInv, ServerInv, Busy, Writing, Listed,
     Dead
<1>15. ClientInv'
  BY <1>1, <1>2 DEF CInv, ClientInv, Dead, ClientType, Returns
<1>16. FreshInv'
  BY <1>1, <1>2 DEF CInv, FreshInv, Fresh, Known, Listed, ClientInv, Returns
<1>17. RequestInv'
  BY <1>1, <1>2, Shapes DEF CInv, RequestInv, Fresh, Known, Listed,
     ClientInv, Returns
<1>18. HandInv'
  BY <1>1, <1>2, Shapes DEF CInv, HandInv, Busy, Fresh, ClientInv, Returns
<1>19. ConnectedInv'
  BY <1>1, <1>2 DEF CInv, ConnectedInv, Alive, Known, Listed, Busy, Writing,
     ClientInv, Returns
<1>20. QuitInv'
  BY <1>1, <1>2 DEF CInv, QuitInv, ServerUp, Listed, Returns
<1>21. UnopenedInv'
  BY <1>1, <1>2 DEF CInv, UnopenedInv, Dead, Listed, ClientInv, FreshInv,
     Fresh, Known, Returns
<1>22. LoopInv'
  BY <1>1, <1>3, Shapes DEF CInv, LoopInv, Busy, Writing, Passed, Listed,
     Dead
<1>23. BlockedOnlyOnConnect'
  BY <1>1, <1>2 DEF CInv, BlockedOnlyOnConnect, ServerInv, Writing,
     ClientInv, Returns
<1>24. AnswerOnItsWay'
  BY <1>1, <1>2 DEF CInv, AnswerOnItsWay, AnswerDue, ServerUp, Returns
<1> QED
  BY <1>10, <1>11, <1>12, <1>13, <1>14, <1>15, <1>16, <1>17, <1>18, <1>19,
     <1>20, <1>21, <1>22, <1>23, <1>24 DEF CInv

(* It opens its FIFO for the answer.                                         *)
LEMMA OpenOwnStep ==
  ASSUME CInv, NEW c \in Clients, open_own_fifo(c)
  PROVE  CInv'
<1>1. /\ cpc[c] = "open"
      /\ \/ /\ HasWriter(c) /\ cpc' = [cpc EXCEPT ![c] = "read"]
            /\ fds' = [fds EXCEPT ![c] = TRUE]
            /\ spc' = IF spc = "opening" THEN "write" ELSE spc
         \/ /\ ~HasWriter(c) /\ cpc' = [cpc EXCEPT ![c] = "opening"]
            /\ UNCHANGED <<fds, spc>>
      /\ UNCHANGED <<sfifo, fifo, exists, list, forgotten, restarts, req,
                     target, resp, phase, p, msg_success, delivered, call,
                     dest, text, int_sys_flag, hup, choices>>
  BY DEF open_own_fifo, fifoVars, serverVars, listVars, draft, clientVars
<1>2. \A d \in Clients :
        /\ d # c => cpc'[d] = cpc[d] /\ fds'[d] = fds[d]
        /\ d = c => cpc'[d] \in {"read", "opening"} /\ (cpc'[d] = "read" => fds'[d]) /\ (fds[d] => fds'[d])
  BY <1>1 DEF CInv, ClientType, FifoType
<1>3. \A d \in Clients :
        cpc[d] \in {"gone", "killed"} => cpc'[d] \in {"gone", "killed"}
  BY <1>1, <1>2
<1>10. ClientType'
  BY <1>1, BoundsAssumption DEF CInv, ClientType, ClientPoints, Calls, Dests
<1>11. FifoType'
  BY <1>1 DEF CInv, FifoType
<1>12. ServerType'
  BY <1>1 DEF CInv, ServerType
<1>13. ListInv'
  BY <1>1 DEF CInv, ListInv
<1>14. ServerInv'
  <2>1. CASE HasWriter(c) /\ fds' = [fds EXCEPT ![c] = TRUE]
             /\ spc' = IF spc = "opening" THEN "write" ELSE spc
    BY <1>1, <1>2, <2>1, Shapes
    DEF CInv, ServerInv, Busy, Writing, Listed, Dead, HasWriter, ClientType
  <2>2. CASE ~HasWriter(c) /\ UNCHANGED <<fds, spc>>
    BY <1>1, <1>2, <2>2, Shapes DEF CInv, ServerInv, Busy, Writing, Listed, Dead
  <2> QED BY <1>1, <2>1, <2>2
<1>15. ClientInv'
  BY <1>1, <1>2 DEF CInv, ClientInv, Dead, ClientType
<1>16. FreshInv'
  BY <1>1, <1>2 DEF CInv, FreshInv, Fresh, Known, Listed, ClientInv
<1>17. RequestInv'
  BY <1>1, <1>2, Shapes DEF CInv, RequestInv, Fresh, Known, Listed,
     ClientInv
<1>18. HandInv'
  BY <1>1, <1>2, Shapes DEF CInv, HandInv, Busy, Fresh, ClientInv
<1>19. ConnectedInv'
  BY <1>1, <1>2 DEF CInv, ConnectedInv, Alive, Known, Listed, Busy, Writing,
     ClientInv
<1>20. QuitInv'
  BY <1>1, <1>2 DEF CInv, QuitInv, ServerUp, Listed
<1>21. UnopenedInv'
  <2>1. CASE HasWriter(c) /\ fds' = [fds EXCEPT ![c] = TRUE]
    BY <1>1, <1>2, <2>1 DEF CInv, UnopenedInv, Dead, Listed, HasWriter, ClientType
  <2>2. CASE ~HasWriter(c) /\ UNCHANGED <<fds, spc>>
    BY <1>1, <1>2, <2>2 DEF CInv, UnopenedInv, Dead, Listed, HasWriter
  <2> QED BY <1>1, <2>1, <2>2
<1>22. LoopInv'
  <2>1. /\ Busy' = Busy /\ Passed' = Passed /\ (spc' = "global") = (spc = "global")
        /\ Listed' = Listed
    BY <1>1 DEF Busy, Passed, Writing, Listed
  <2>2. Busy /\ req.op = "message" /\ req.dest = GLOBAL /\ (spc = "global" \/ phase = "global")
        => Passed \in 0..Len(list)
    BY Shapes DEF CInv, ServerInv, ServerType, Passed, Busy, Writing
  <2> QED BY <1>1, <1>3, <2>1, <2>2, Shapes DEF CInv, LoopInv, Dead
<1>23. BlockedOnlyOnConnect'
  BY <1>1, <1>2 DEF CInv, BlockedOnlyOnConnect, ServerInv, Writing,
     ClientInv, HasWriter
<1>24. AnswerOnItsWay'
  BY <1>1, <1>2 DEF CInv, AnswerOnItsWay, AnswerDue, ServerUp, HasWriter
<1> QED
  BY <1>10, <1>11, <1>12, <1>13, <1>14, <1>15, <1>16, <1>17, <1>18, <1>19,
     <1>20, <1>21, <1>22, <1>23, <1>24 DEF CInv

(* It reads the answer.                                                      *)
LEMMA ReadAnswerStep ==
  ASSUME CInv, NEW c \in Clients, check_sys_response(c)
  PROVE  CInv'
<1>1. PICK success, point, op, rest :
        /\ success \in BOOLEAN /\ Returns(c, success, point, op)
        /\ cpc' = [cpc EXCEPT ![c] = point]
        /\ call' = [call EXCEPT ![c] = op]
        /\ cpc[c] = "read"
        /\ fifo' = [fifo EXCEPT ![c] = rest]
        /\ rest \in Seq(Responses) /\ Len(rest) <= CAPACITY
        /\ \A k \in 1..Len(rest) :
             \E m \in 1..Len(fifo[c]) : rest[k] = fifo[c][m]
        /\ success => \E m \in 1..Len(fifo[c]) : fifo[c][m].text = "OK"
        /\ fifo[c] = <<>> => rest = <<>>
        /\ UNCHANGED <<sfifo, exists, list, forgotten, restarts, spc, req,
                     target, resp, phase, p, msg_success, delivered, dest,
                     text, int_sys_flag, fds, hup, choices>>
  <2>1. PICK success \in BOOLEAN :
          /\ goto(c, after_call(c, success, int_sys_flag[c]))
          /\ \/ /\ fifo[c] # <<>> /\ success = (Head(fifo[c]).text = "OK")
                /\ fifo' = [fifo EXCEPT ![c] = Tail(@)]
             \/ ~success /\ fifo' = fifo
    BY DEF check_sys_response
  <2>2. PICK point, op :
          /\ Returns(c, success, point, op)
          /\ cpc' = [cpc EXCEPT ![c] = point] /\ call' = [call EXCEPT ![c] = op]
    <3>1. int_sys_flag[c] \in BOOLEAN
      BY DEF CInv, ClientType
    <3> QED BY <2>1, <3>1, AfterCall
  <2>3. PICK rest :
          /\ fifo' = [fifo EXCEPT ![c] = rest]
          /\ rest \in Seq(Responses) /\ Len(rest) <= CAPACITY
          /\ \A k \in 1..Len(rest) :
               \E m \in 1..Len(fifo[c]) : rest[k] = fifo[c][m]
          /\ success => \E m \in 1..Len(fifo[c]) : fifo[c][m].text = "OK"
          /\ fifo[c] = <<>> => rest = <<>>
    <3>1. CASE fifo[c] # <<>> /\ fifo' = [fifo EXCEPT ![c] = Tail(fifo[c])]
               /\ success = (Head(fifo[c]).text = "OK")
      BY <3>1, TailOfFifo
    <3>2. CASE ~success /\ fifo' = fifo
      <4>1. fifo' = [fifo EXCEPT ![c] = fifo[c]]
        BY <3>2 DEF CInv, FifoType
      <4> QED BY <3>2, <4>1 DEF CInv, FifoType
    <3> QED BY <2>1, <3>1, <3>2
  <2> QED BY <2>2, <2>3 DEF check_sys_response, leave_check_sys_response,
            fifoVars, serverVars, listVars, draft, clientVars
<1>2. \A d \in Clients :
        /\ cpc'[d] = IF d = c THEN point ELSE cpc[d]
        /\ call'[d] = IF d = c THEN op ELSE call[d]
        /\ fifo'[d] = IF d = c THEN rest ELSE fifo[d]
  BY <1>1 DEF CInv, ClientType, FifoType
<1>3. \A d \in Clients :
        cpc[d] \in {"gone", "killed"} => cpc'[d] \in {"gone", "killed"}
  BY <1>1, <1>2
<1>4. op \in {"check_connection", "message"} /\ point # "exit" => Known(c)
  BY <1>1 DEF CInv, ConnectedInv, Alive, Returns, ClientType, Calls
<1>10. ClientType'
  BY <1>1, BoundsAssumption DEF CInv, ClientType, ClientPoints, Calls,
     Dests, Returns
<1>11. FifoType'
  BY <1>1 DEF CInv, FifoType
<1>12. ServerType'
  BY <1>1 DEF CInv, ServerType
<1>13. ListInv'
  BY <1>1 DEF CInv, ListInv
<1>14. ServerInv'
  BY <1>1, <1>2, <1>3, Shapes DEF CInv, ServerInv, Busy, Writing, Listed,
     Dead
<1>15. ClientInv'
  BY <1>1, <1>2 DEF CInv, ClientInv, Dead, ClientType, Returns
<1>16. FreshInv'
  BY <1>1, <1>2 DEF CInv, FreshInv, Fresh, Known, Listed, ClientInv, Returns
<1>17. RequestInv'
  BY <1>1, <1>2, Shapes DEF CInv, RequestInv, Fresh, Known, Listed,
     ClientInv, Returns
<1>18. HandInv'
  BY <1>1, <1>2, Shapes DEF CInv, HandInv, Busy, Fresh, ClientInv, Returns
<1>19. ConnectedInv'
  BY <1>1, <1>2, <1>4 DEF CInv, ConnectedInv, Alive, Known, Listed, Busy,
     Writing, ClientInv, Returns
<1>20. QuitInv'
  BY <1>1, <1>2 DEF CInv, QuitInv, ServerUp, Listed, Returns
<1>21. UnopenedInv'
  BY <1>1, <1>2 DEF CInv, UnopenedInv, Dead, Listed, ClientInv, FreshInv,
     Fresh, Known, Returns
<1>22. LoopInv'
  BY <1>1, <1>3, Shapes DEF CInv, LoopInv, Busy, Writing, Passed, Listed,
     Dead
<1>23. BlockedOnlyOnConnect'
  BY <1>1, <1>2 DEF CInv, BlockedOnlyOnConnect, ServerInv, Writing,
     ClientInv, Returns
<1>24. AnswerOnItsWay'
  BY SMTT(60), <1>1, <1>2, Shapes DEF CInv, AnswerOnItsWay, AnswerDue, ServerUp,
     Returns
<1> QED
  BY <1>10, <1>11, <1>12, <1>13, <1>14, <1>15, <1>16, <1>17, <1>18, <1>19,
     <1>20, <1>21, <1>22, <1>23, <1>24 DEF CInv

(* The user reads messages, or is about to send one.                         *)
LEMMA ChooseReadStep ==
  ASSUME CInv, NEW c \in Clients, choose_read(c) \/ choose_send(c)
  PROVE  CInv'
<1>1. PICK point :
        /\ cpc[c] = "prompt" /\ point \in {"reading", "reading_first"}
        /\ choices < MaxChoices /\ choices' = choices + 1
        /\ cpc' = [cpc EXCEPT ![c] = point]
        /\ fds' = [fds EXCEPT ![c] = TRUE]
        /\ hup' = [hup EXCEPT ![c] = HasWriter(c)]
        /\ UNCHANGED <<sfifo, fifo, exists, list, forgotten, restarts, spc, req,
                     target, resp, phase, p, msg_success, delivered, call,
                     dest, text, int_sys_flag>>
  BY DEF choose_read, choose_send, choice, open_for_messages, fifoVars,
     serverVars, listVars, draft, clientVars
<1>2. \A d \in Clients :
        /\ cpc'[d] = IF d = c THEN point ELSE cpc[d]
        /\ fds'[d] = IF d = c THEN TRUE ELSE fds[d]
  BY <1>1 DEF CInv, ClientType, FifoType
<1>3. \A d \in Clients :
        cpc[d] \in {"gone", "killed"} => cpc'[d] \in {"gone", "killed"}
  BY <1>1, <1>2
<1>10. ClientType'
  BY <1>1, BoundsAssumption DEF CInv, ClientType, ClientPoints, Calls,
     Dests, HasWriter
<1>11. FifoType'
  BY <1>1 DEF CInv, FifoType
<1>12. ServerType'
  BY <1>1 DEF CInv, ServerType
<1>13. ListInv'
  BY <1>1 DEF CInv, ListInv
<1>14. ServerInv'
  BY <1>1, <1>2, <1>3, Shapes DEF CInv, ServerInv, Busy, Writing, Listed,
     Dead
<1>15. ClientInv'
  BY <1>1, <1>2 DEF CInv, ClientInv, Dead, ClientType
<1>16. FreshInv'
  BY <1>1, <1>2 DEF CInv, FreshInv, Fresh, Known, Listed, ClientInv
<1>17. RequestInv'
  BY <1>1, <1>2, Shapes DEF CInv, RequestInv, Fresh, Known, Listed,
     ClientInv
<1>18. HandInv'
  BY <1>1, <1>2, Shapes DEF CInv, HandInv, Busy, Fresh, ClientInv
<1>19. ConnectedInv'
  BY <1>1, <1>2 DEF CInv, ConnectedInv, Alive, Known, Listed, Busy, Writing,
     ClientInv
<1>20. QuitInv'
  BY <1>1, <1>2 DEF CInv, QuitInv, ServerUp, Listed
<1>21. UnopenedInv'
  BY <1>1, <1>2 DEF CInv, UnopenedInv, Dead, Listed, ClientInv, FreshInv,
     Fresh, Known
<1>22. LoopInv'
  BY <1>1, <1>3, Shapes DEF CInv, LoopInv, Busy, Writing, Passed, Listed,
     Dead
<1>23. BlockedOnlyOnConnect'
  BY <1>1, <1>2 DEF CInv, BlockedOnlyOnConnect, ServerInv, Writing,
     ClientInv
<1>24. AnswerOnItsWay'
  BY <1>1, <1>2 DEF CInv, AnswerOnItsWay, AnswerDue, ServerUp
<1> QED
  BY <1>10, <1>11, <1>12, <1>13, <1>14, <1>15, <1>16, <1>17, <1>18, <1>19,
     <1>20, <1>21, <1>22, <1>23, <1>24 DEF CInv

(* The user quits, or chooses anything else, or has pressed CTRL+C.          *)
LEMMA ChooseQuitStep ==
  ASSUME CInv, NEW c \in Clients, choose_quit(c) \/ choose_other(c) \/ leave_prompt(c)
  PROVE  CInv'
<1>1. PICK op :
        /\ cpc[c] = "prompt" /\ op \in {"disconnect_client", "check_connection"}
        /\ choices' = choices \/ (choices < MaxChoices /\ choices' = choices + 1)
        /\ cpc' = [cpc EXCEPT ![c] = "request"]
        /\ call' = [call EXCEPT ![c] = op]
        /\ UNCHANGED <<sfifo, fifo, exists, list, forgotten, restarts, spc, req,
                     target, resp, phase, p, msg_success, delivered, dest,
                     text, int_sys_flag, fds, hup>>
  BY DEF choose_quit, choose_other, leave_prompt, choice, goto, top_of_loop,
     fifoVars, serverVars, listVars, draft, clientVars
<1>2. \A d \in Clients :
        /\ cpc'[d] = IF d = c THEN "request" ELSE cpc[d]
        /\ call'[d] = IF d = c THEN op ELSE call[d]
  BY <1>1 DEF CInv, ClientType, FifoType
<1>3. \A d \in Clients :
        cpc[d] \in {"gone", "killed"} => cpc'[d] \in {"gone", "killed"}
  BY <1>1, <1>2
<1>10. ClientType'
  BY <1>1, BoundsAssumption DEF CInv, ClientType, ClientPoints, Calls, Dests
<1>11. FifoType'
  BY <1>1 DEF CInv, FifoType
<1>12. ServerType'
  BY <1>1 DEF CInv, ServerType
<1>13. ListInv'
  BY <1>1 DEF CInv, ListInv
<1>14. ServerInv'
  BY <1>1, <1>2, <1>3, Shapes DEF CInv, ServerInv, Busy, Writing, Listed,
     Dead
<1>15. ClientInv'
  BY <1>1, <1>2 DEF CInv, ClientInv, Dead, ClientType
<1>16. FreshInv'
  BY <1>1, <1>2 DEF CInv, FreshInv, Fresh, Known, Listed, ClientInv
<1>17. RequestInv'
  BY <1>1, <1>2, Shapes DEF CInv, RequestInv, Fresh, Known, Listed,
     ClientInv
<1>18. HandInv'
  BY <1>1, <1>2, Shapes DEF CInv, HandInv, Busy, Fresh, ClientInv
<1>19. ConnectedInv'
  BY <1>1, <1>2 DEF CInv, ConnectedInv, Alive, Known, Listed, Busy, Writing,
     ClientInv
<1>20. QuitInv'
  BY <1>1, <1>2 DEF CInv, QuitInv, ServerUp, Listed
<1>21. UnopenedInv'
  BY <1>1, <1>2 DEF CInv, UnopenedInv, Dead, Listed, ClientInv, FreshInv,
     Fresh, Known
<1>22. LoopInv'
  BY <1>1, <1>3, Shapes DEF CInv, LoopInv, Busy, Writing, Passed, Listed,
     Dead
<1>23. BlockedOnlyOnConnect'
  BY <1>1, <1>2 DEF CInv, BlockedOnlyOnConnect, ServerInv, Writing,
     ClientInv
<1>24. AnswerOnItsWay'
  BY <1>1, <1>2 DEF CInv, AnswerOnItsWay, AnswerDue, ServerUp
<1> QED
  BY <1>10, <1>11, <1>12, <1>13, <1>14, <1>15, <1>16, <1>17, <1>18, <1>19,
     <1>20, <1>21, <1>22, <1>23, <1>24 DEF CInv

(* client_read_messages prints a record, or returns.                         *)
LEMMA ReadMessagesStep ==
  ASSUME CInv, NEW c \in Clients, client_read_messages(c)
  PROVE  CInv'
<1>1. PICK rest, point, op, h :
        /\ cpc[c] \in {"reading", "reading_first"}
        /\ fifo' = [fifo EXCEPT ![c] = rest]
        /\ rest \in Seq(Responses) /\ Len(rest) <= CAPACITY
        /\ cpc' = [cpc EXCEPT ![c] = point]
        /\ call' = [call EXCEPT ![c] = op]
        /\ hup' = [hup EXCEPT ![c] = h] /\ h \in BOOLEAN
        /\ \/ point = cpc[c] /\ op = call[c]
           \/ point = "request" /\ op \in {"disconnect_client", "check_connection"}
           \/ point = "compose" /\ op = call[c]
        /\ UNCHANGED <<sfifo, exists, list, forgotten, restarts, spc, req,
                     target, resp, phase, p, msg_success, delivered, dest,
                     text, int_sys_flag, fds, choices>>
  BY ReadMessagesEffect DEF MessagesRead
<1>2. \A d \in Clients :
        /\ cpc'[d] = IF d = c THEN point ELSE cpc[d]
        /\ call'[d] = IF d = c THEN op ELSE call[d]
        /\ fifo'[d] = IF d = c THEN rest ELSE fifo[d]
  BY <1>1 DEF CInv, ClientType, FifoType
<1>3. \A d \in Clients :
        cpc[d] \in {"gone", "killed"} => cpc'[d] \in {"gone", "killed"}
  BY <1>1, <1>2
<1>10. ClientType'
  BY <1>1, BoundsAssumption DEF CInv, ClientType, ClientPoints, Calls, Dests
<1>11. FifoType'
  BY <1>1 DEF CInv, FifoType
<1>12. ServerType'
  BY <1>1 DEF CInv, ServerType
<1>13. ListInv'
  BY <1>1 DEF CInv, ListInv
<1>14. ServerInv'
  BY <1>1, <1>2, <1>3, Shapes DEF CInv, ServerInv, Busy, Writing, Listed,
     Dead
<1>15. ClientInv'
  BY <1>1, <1>2 DEF CInv, ClientInv, Dead, ClientType
<1>16. FreshInv'
  BY <1>1, <1>2 DEF CInv, FreshInv, Fresh, Known, Listed, ClientInv
<1>17. RequestInv'
  BY <1>1, <1>2, Shapes DEF CInv, RequestInv, Fresh, Known, Listed,
     ClientInv
<1>18. HandInv'
  BY <1>1, <1>2, Shapes DEF CInv, HandInv, Busy, Fresh, ClientInv
<1>19. ConnectedInv'
  BY <1>1, <1>2 DEF CInv, ConnectedInv, Alive, Known, Listed, Busy, Writing,
     ClientInv
<1>20. QuitInv'
  BY <1>1, <1>2 DEF CInv, QuitInv, ServerUp, Listed
<1>21. UnopenedInv'
  BY <1>1, <1>2 DEF CInv, UnopenedInv, Dead, Listed, ClientInv, FreshInv,
     Fresh, Known
<1>22. LoopInv'
  BY <1>1, <1>3, Shapes DEF CInv, LoopInv, Busy, Writing, Passed, Listed,
     Dead
<1>23. BlockedOnlyOnConnect'
  BY <1>1, <1>2 DEF CInv, BlockedOnlyOnConnect, ServerInv, Writing,
     ClientInv
<1>24. AnswerOnItsWay'
  BY <1>1, <1>2 DEF CInv, AnswerOnItsWay, AnswerDue, ServerUp
<1> QED
  BY <1>10, <1>11, <1>12, <1>13, <1>14, <1>15, <1>16, <1>17, <1>18, <1>19,
     <1>20, <1>21, <1>22, <1>23, <1>24 DEF CInv

(* The user has entered a message.                                           *)
LEMMA ComposeStep ==
  ASSUME CInv, NEW c \in Clients, req_format_message(c)
  PROVE  CInv'
<1>1. PICK dst, txt :
        /\ cpc[c] = "compose" /\ dst \in Dests /\ txt \in Texts
        /\ cpc' = [cpc EXCEPT ![c] = "request"]
        /\ call' = [call EXCEPT ![c] = "message"]
        /\ dest' = [dest EXCEPT ![c] = dst]
        /\ text' = [text EXCEPT ![c] = txt]
        /\ UNCHANGED <<sfifo, fifo, exists, list, forgotten, restarts, spc, req,
                     target, resp, phase, p, msg_success, delivered,
                     int_sys_flag, fds, hup, choices>>
  BY DEF req_format_message, goto, fifoVars, serverVars, listVars, draft,
     clientVars
<1>2. \A d \in Clients :
        /\ cpc'[d] = IF d = c THEN "request" ELSE cpc[d]
        /\ call'[d] = IF d = c THEN "message" ELSE call[d]
        /\ text'[d] = IF d = c THEN txt ELSE text[d]
  BY <1>1 DEF CInv, ClientType, FifoType
<1>3. \A d \in Clients :
        cpc[d] \in {"gone", "killed"} => cpc'[d] \in {"gone", "killed"}
  BY <1>1, <1>2
<1>10. ClientType'
  BY <1>1, BoundsAssumption DEF CInv, ClientType, ClientPoints, Calls, Dests
<1>11. FifoType'
  BY <1>1 DEF CInv, FifoType
<1>12. ServerType'
  BY <1>1 DEF CInv, ServerType
<1>13. ListInv'
  BY <1>1 DEF CInv, ListInv
<1>14. ServerInv'
  BY <1>1, <1>2, <1>3, Shapes DEF CInv, ServerInv, Busy, Writing, Listed,
     Dead
<1>15. ClientInv'
  BY <1>1, <1>2 DEF CInv, ClientInv, Dead, ClientType
<1>16. FreshInv'
  BY <1>1, <1>2 DEF CInv, FreshInv, Fresh, Known, Listed, ClientInv
<1>17. RequestInv'
  BY <1>1, <1>2, Shapes DEF CInv, RequestInv, Fresh, Known, Listed,
     ClientInv
<1>18. HandInv'
  BY <1>1, <1>2, Shapes DEF CInv, HandInv, Busy, Fresh, ClientInv
<1>19. ConnectedInv'
  BY <1>1, <1>2 DEF CInv, ConnectedInv, Alive, Known, Listed, Busy, Writing,
     ClientInv
<1>20. QuitInv'
  BY <1>1, <1>2 DEF CInv, QuitInv, ServerUp, Listed
<1>21. UnopenedInv'
  BY <1>1, <1>2 DEF CInv, UnopenedInv, Dead, Listed, ClientInv, FreshInv,
     Fresh, Known
<1>22. LoopInv'
  BY <1>1, <1>3, Shapes DEF CInv, LoopInv, Busy, Writing, Passed, Listed,
     Dead
<1>23. BlockedOnlyOnConnect'
  BY <1>1, <1>2 DEF CInv, BlockedOnlyOnConnect, ServerInv, Writing,
     ClientInv
<1>24. AnswerOnItsWay'
  BY <1>1, <1>2 DEF CInv, AnswerOnItsWay, AnswerDue, ServerUp
<1> QED
  BY <1>10, <1>11, <1>12, <1>13, <1>14, <1>15, <1>16, <1>17, <1>18, <1>19,
     <1>20, <1>21, <1>22, <1>23, <1>24 DEF CInv

(* exit_handler removes the name of the FIFO.                                *)
LEMMA ExitStep ==
  ASSUME CInv, NEW c \in Clients, exit_handler(c)
  PROVE  CInv'
<1>1. /\ cpc[c] = "exit"
      /\ cpc' = [cpc EXCEPT ![c] = "unlinked"]
      /\ exists' = [exists EXCEPT ![c] = FALSE]
      /\ UNCHANGED <<sfifo, fifo, list, forgotten, restarts, spc, req, target,
                     resp, phase, p, msg_success, delivered, call, dest, text,
                     int_sys_flag, fds, hup, choices>>
  BY DEF exit_handler, fifoVars, serverVars, listVars, draft, clientVars
<1>2. \A d \in Clients :
        /\ cpc'[d] = IF d = c THEN "unlinked" ELSE cpc[d]
        /\ exists'[d] = IF d = c THEN FALSE ELSE exists[d]
  BY <1>1 DEF CInv, ClientType, FifoType
<1>3. \A d \in Clients :
        cpc[d] \in {"gone", "killed"} => cpc'[d] \in {"gone", "killed"}
  BY <1>1, <1>2
<1>10. ClientType'
  BY <1>1, BoundsAssumption DEF CInv, ClientType, ClientPoints, Calls, Dests
<1>11. FifoType'
  BY <1>1 DEF CInv, FifoType
<1>12. ServerType'
  BY <1>1 DEF CInv, ServerType
<1>13. ListInv'
  BY <1>1 DEF CInv, ListInv
<1>14. ServerInv'
  BY <1>1, <1>2, <1>3, Shapes DEF CInv, ServerInv, Busy, Writing, Listed,
     Dead
<1>15. ClientInv'
  BY <1>1, <1>2 DEF CInv, ClientInv, Dead, ClientType
<1>16. FreshInv'
  BY <1>1, <1>2 DEF CInv, FreshInv, Fresh, Known, Listed, ClientInv
<1>17. RequestInv'
  BY <1>1, <1>2, Shapes DEF CInv, RequestInv, Fresh, Known, Listed,
     ClientInv
<1>18. HandInv'
  BY <1>1, <1>2, Shapes DEF CInv, HandInv, Busy, Fresh, ClientInv
<1>19. ConnectedInv'
  BY <1>1, <1>2 DEF CInv, ConnectedInv, Alive, Known, Listed, Busy, Writing,
     ClientInv
<1>20. QuitInv'
  BY <1>1, <1>2 DEF CInv, QuitInv, ServerUp, Listed
<1>21. UnopenedInv'
  BY <1>1, <1>2 DEF CInv, UnopenedInv, Dead, Listed, ClientInv, FreshInv,
     Fresh, Known
<1>22. LoopInv'
  BY <1>1, <1>3, Shapes DEF CInv, LoopInv, Busy, Writing, Passed, Listed,
     Dead
<1>23. BlockedOnlyOnConnect'
  BY <1>1, <1>2 DEF CInv, BlockedOnlyOnConnect, ServerInv, Writing,
     ClientInv
<1>24. AnswerOnItsWay'
  BY <1>1, <1>2 DEF CInv, AnswerOnItsWay, AnswerDue, ServerUp
<1> QED
  BY <1>10, <1>11, <1>12, <1>13, <1>14, <1>15, <1>16, <1>17, <1>18, <1>19,
     <1>20, <1>21, <1>22, <1>23, <1>24 DEF CInv

(* The process ends, or is killed.                                           *)
LEMMA EndStep ==
  ASSUME CInv, NEW c \in Clients, end_of_process(c) \/ kill(c)
  PROVE  CInv'
<1>1. PICK point :
        /\ \/ cpc[c] = "unlinked" /\ point = "gone"
           \/ cpc[c] \notin {"off", "gone", "killed"} /\ point = "killed"
        /\ cpc' = [d \in Clients |-> IF d = c THEN point ELSE cpc[d]]
        /\ fds' = [d \in Clients |-> fds[d] /\ d # c]
        /\ fifo' = [d \in Clients |-> IF d = c THEN <<>> ELSE fifo[d]]
        /\ dest' = [d \in Clients |-> IF d = c THEN Nobody ELSE dest[d]]
        /\ text' = [d \in Clients |-> IF d = c THEN NoText ELSE text[d]]
        /\ hup' = [d \in Clients |-> hup[d] /\ d # c]
        /\ UNCHANGED <<sfifo, exists, list, forgotten, restarts, spc, req,
                     target, resp, phase, p, msg_success, delivered, call,
                     int_sys_flag, choices>>
  BY DEF end_of_process, kill, die, fifoVars, serverVars, listVars, draft,
     clientVars
<1>2. \A d \in Clients :
        /\ cpc'[d] = IF d = c THEN point ELSE cpc[d]
        /\ fds'[d] = (fds[d] /\ d # c)
        /\ fifo'[d] = IF d = c THEN <<>> ELSE fifo[d]
        /\ text'[d] = IF d = c THEN NoText ELSE text[d]
  BY <1>1 DEF CInv, ClientType, FifoType
<1>3. \A d \in Clients :
        cpc[d] \in {"gone", "killed"} => cpc'[d] \in {"gone", "killed"}
  BY <1>1, <1>2
<1>10. ClientType'
  BY <1>1, BoundsAssumption DEF CInv, ClientType, ClientPoints, Calls, Dests
<1>11. FifoType'
  BY <1>1, BoundsAssumption DEF CInv, FifoType
<1>12. ServerType'
  BY <1>1 DEF CInv, ServerType
<1>13. ListInv'
  BY <1>1 DEF CInv, ListInv
<1>14. ServerInv'
  BY <1>1, <1>2, <1>3, Shapes DEF CInv, ServerInv, Busy, Writing, Listed,
     Dead
<1>15. ClientInv'
  BY <1>1, <1>2 DEF CInv, ClientInv, Dead, ClientType
<1>16. FreshInv'
  BY <1>1, <1>2 DEF CInv, FreshInv, Fresh, Known, Listed, ClientInv
<1>17. RequestInv'
  BY <1>1, <1>2, Shapes DEF CInv, RequestInv, Fresh, Known, Listed,
     ClientInv
<1>18. HandInv'
  BY <1>1, <1>2, Shapes DEF CInv, HandInv, Busy, Fresh, ClientInv
<1>19. ConnectedInv'
  BY <1>1, <1>2 DEF CInv, ConnectedInv, Alive, Known, Listed, Busy, Writing,
     ClientInv
<1>20. QuitInv'
  BY <1>1, <1>2 DEF CInv, QuitInv, ServerUp, Listed
<1>21. UnopenedInv'
  BY <1>1, <1>2 DEF CInv, UnopenedInv, Dead, Listed, ClientInv, FreshInv,
     Fresh, Known
<1>22. LoopInv'
  <2>1. /\ Busy' = Busy /\ Passed' = Passed /\ (spc' = "global") = (spc = "global")
        /\ Listed' = Listed
    BY <1>1 DEF Busy, Passed, Writing, Listed
  <2>2. Busy /\ req.op = "message" /\ req.dest = GLOBAL /\ (spc = "global" \/ phase = "global")
        => Passed \in 0..Len(list)
    BY Shapes DEF CInv, ServerInv, ServerType, Passed, Busy, Writing
  <2> QED BY <1>1, <1>3, <2>1, <2>2, Shapes DEF CInv, LoopInv, Dead
<1>23. BlockedOnlyOnConnect'
  BY <1>1, <1>2 DEF CInv, BlockedOnlyOnConnect, ServerInv, Writing,
     ClientInv
<1>24. AnswerOnItsWay'
  BY <1>1, <1>2, Shapes DEF CInv, AnswerOnItsWay, AnswerDue, ServerUp
<1> QED
  BY <1>10, <1>11, <1>12, <1>13, <1>14, <1>15, <1>16, <1>17, <1>18, <1>19,
     <1>20, <1>21, <1>22, <1>23, <1>24 DEF CInv

(* CTRL+C.                                                                   *)
LEMMA InterruptStep ==
  ASSUME CInv, NEW c \in Clients, int_sys_handler(c)
  PROVE  CInv'
<1>1. PICK point, op :
        /\ cpc[c] \notin {"off", "exit", "unlinked", "gone", "killed"}
        /\ int_sys_flag' = [int_sys_flag EXCEPT ![c] = TRUE]
        /\ cpc' = [cpc EXCEPT ![c] = point]
        /\ call' = [call EXCEPT ![c] = op]
        /\ \/ /\ Returns(c, FALSE, point, op)
              /\ \/ cpc[c] \in {"opening", "read"}
                 \/ cpc[c] = "request" /\ call[c] = "new_client"
           \/ point = cpc[c] /\ op = call[c]
        /\ UNCHANGED <<sfifo, fifo, exists, list, forgotten, restarts, spc, req,
                     target, resp, phase, p, msg_success, delivered, dest,
                     text, fds, hup, choices>>
  <2>1. CASE Blocked(c)
    <3>1. goto(c, after_call(c, FALSE, TRUE))
      BY <2>1 DEF int_sys_handler
    <3>2. PICK point, op :
            /\ Returns(c, FALSE, point, op)
            /\ cpc' = [cpc EXCEPT ![c] = point] /\ call' = [call EXCEPT ![c] = op]
      BY <3>1, AfterCall
    <3> QED BY <2>1, <3>2 DEF int_sys_handler, Blocked, fifoVars, serverVars, listVars, draft, clientVars
  <2>2. CASE ~Blocked(c)
    <3>1. cpc' = [cpc EXCEPT ![c] = cpc[c]] /\ call' = [call EXCEPT ![c] = call[c]]
      BY <2>2 DEF int_sys_handler, CInv, ClientType
    <3> QED BY <2>2, <3>1 DEF int_sys_handler, fifoVars, serverVars, listVars, draft, clientVars
  <2> QED BY <2>1, <2>2
<1>2. \A d \in Clients :
        /\ cpc'[d] = IF d = c THEN point ELSE cpc[d]
        /\ call'[d] = IF d = c THEN op ELSE call[d]
        /\ int_sys_flag'[d] = IF d = c THEN TRUE ELSE int_sys_flag[d]
  BY <1>1 DEF CInv, ClientType, FifoType
<1>3. \A d \in Clients :
        cpc[d] \in {"gone", "killed"} => cpc'[d] \in {"gone", "killed"}
  BY <1>1, <1>2
<1>4. ASSUME NEW d \in Clients, call'[d] = "disconnect_client",
             cpc'[d] \in {"open", "opening", "read", "exit", "unlinked", "gone"}
      PROVE  /\ call[d] = "disconnect_client"
             /\ cpc[d] \in {"open", "opening", "read", "exit", "unlinked", "gone"}
  <2>1. CASE d # c
    BY <1>2, <1>4, <2>1
  <2>2. CASE d = c
    <3>1. op = "disconnect_client" /\ point # "request"
      BY <1>2, <1>4, <2>2
    <3> QED BY <1>1, <1>2, <1>4, <2>2, <3>1 DEF Returns
  <2> QED BY <2>1, <2>2
<1>10. ClientType'
  BY <1>1, BoundsAssumption DEF CInv, ClientType, ClientPoints, Calls,
     Dests, Returns
<1>11. FifoType'
  BY <1>1 DEF CInv, FifoType
<1>12. ServerType'
  BY <1>1 DEF CInv, ServerType
<1>13. ListInv'
  BY <1>1 DEF CInv, ListInv
<1>14. ServerInv'
  BY <1>1, <1>2, <1>3, Shapes DEF CInv, ServerInv, Busy, Writing, Listed,
     Dead
<1>15. ClientInv'
  BY <1>1, <1>2 DEF CInv, ClientInv, Dead, ClientType, Returns
<1>16. FreshInv'
  BY <1>1, <1>2 DEF CInv, FreshInv, Fresh, Known, Listed, ClientInv, Returns
<1>17. RequestInv'
  BY <1>1, <1>2, Shapes DEF CInv, RequestInv, Fresh, Known, Listed,
     ClientInv, Returns
<1>18. HandInv'
  BY <1>1, <1>2, Shapes DEF CInv, HandInv, Busy, Fresh, ClientInv, Returns
<1>19. ConnectedInv'
  BY <1>1, <1>2 DEF CInv, ConnectedInv, Alive, Known, Listed, Busy, Writing,
     ClientInv, Returns
<1>20. QuitInv'
  BY <1>1, <1>2, <1>4 DEF CInv, QuitInv, ServerUp, Listed
<1>21. UnopenedInv'
  BY <1>1, <1>2 DEF CInv, UnopenedInv, Dead, Listed, ClientInv, FreshInv,
     Fresh, Known, Returns
<1>22. LoopInv'
  BY <1>1, <1>3, Shapes DEF CInv, LoopInv, Busy, Writing, Passed, Listed,
     Dead
<1>23. BlockedOnlyOnConnect'
  BY <1>1, <1>2 DEF CInv, BlockedOnlyOnConnect, ServerInv, Writing,
     ClientInv, Returns
<1>24. AnswerOnItsWay'
  BY <1>1, <1>2 DEF CInv, AnswerOnItsWay, AnswerDue, ServerUp, Returns
<1> QED
  BY <1>10, <1>11, <1>12, <1>13, <1>14, <1>15, <1>16, <1>17, <1>18, <1>19,
     <1>20, <1>21, <1>22, <1>23, <1>24 DEF CInv

-------------------------------------------------------------------------------
(* The server's steps.                                                       *)

(* The values that stand for nothing have their types.                       *)
LEMMA NoValues == NoRequest \in Requests /\ OK \in Responses /\ FAIL \in Responses
<1>1. NoRequest \in Requests
  BY DEF NoRequest, Request, Requests, Dests
<1>2. OK \in Responses /\ FAIL \in Responses
  BY DEF OK, FAIL, Response, Responses
<1> QED BY <1>1, <1>2

(* The request that the server reads, and the ones that it leaves.           *)
LEMMA RequestRead ==
  ASSUME CInv, NEW op, read_request(op)
  PROVE  /\ ~Busy /\ spc = "read" /\ p = 1 /\ Len(sfifo) \in Nat /\ 1 \in 1..Len(sfifo)
         /\ Head(sfifo) = sfifo[1] /\ req' = sfifo[1]
         /\ sfifo[1] \in Sent /\ sfifo[1].op = op /\ sfifo[1].from \in Clients
         /\ sfifo' \in Seq(Sent) /\ Len(sfifo') = Len(sfifo) - 1
         /\ DOMAIN sfifo' = 1..(Len(sfifo) - 1)
         /\ \A k \in 1..(Len(sfifo) - 1) :
              k + 1 \in 1..Len(sfifo) /\ k + 1 # 1 /\ sfifo'[k] = sfifo[k + 1]
         /\ \A k \in 1..Len(sfifo) : k # 1 =>
              k - 1 \in 1..(Len(sfifo) - 1) /\ sfifo'[k - 1] = sfifo[k]
<1>1. /\ sfifo \in Seq(Sent) /\ sfifo # <<>> /\ sfifo' = Tail(sfifo)
      /\ req' = Head(sfifo) /\ Head(sfifo).op = op /\ spc = "read"
  BY DEF read_request, CInv, FifoType
<1>2. Len(sfifo) \in Nat /\ Len(sfifo) # 0
  BY <1>1, EmptySeq, LenProperties
<1>3. /\ Head(sfifo) = sfifo[1] /\ sfifo' \in Seq(Sent) /\ Len(sfifo') = Len(sfifo) - 1
      /\ \A k \in 1..(Len(sfifo) - 1) : sfifo'[k] = sfifo[k + 1]
  BY <1>1, HeadTailProperties
<1>4. DOMAIN sfifo' = 1..(Len(sfifo) - 1)
  BY <1>3, LenProperties
<1>5. ~Busy /\ p = 1
  BY <1>1 DEF Busy, CInv, ServerInv
<1>6. \A k \in 1..(Len(sfifo) - 1) :
        k + 1 \in 1..Len(sfifo) /\ k + 1 # 1 /\ sfifo'[k] = sfifo[k + 1]
  BY <1>2, <1>3
<1>7. ASSUME NEW k \in 1..Len(sfifo), k # 1
      PROVE  k - 1 \in 1..(Len(sfifo) - 1) /\ sfifo'[k - 1] = sfifo[k]
  <2>1. k - 1 \in 1..(Len(sfifo) - 1) /\ (k - 1) + 1 = k
    BY <1>2, <1>7
  <2> QED BY <1>3, <2>1
<1>8. 1 \in 1..Len(sfifo)
  BY <1>2
<1>9. sfifo[1] \in Sent /\ sfifo[1].from \in Clients
  BY <1>8, Shapes
<1> QED BY <1>1, <1>2, <1>3, <1>4, <1>5, <1>6, <1>7, <1>8, <1>9

(* The list after client_remove: the others, in their order.                 *)
LEMMA ListRemoved ==
  ASSUME CInv, NEW c \in Clients, list' = client_remove(c)
  PROVE  /\ list' \in Seq(Clients) /\ Len(list') \in Nat /\ Len(list') <= Len(list)
         /\ \A k, m \in 1..Len(list') : list'[k] = list'[m] => k = m
         /\ Listed' = Listed \ {c}
         /\ \A k \in 1..Len(list) : list[k] = c =>
              /\ Len(list') = Len(list) - 1
              /\ \A m \in 1..(k - 1) : list'[m] = list[m]
<1> DEFINE l == RemoveFirst(list, c)
<1>1. /\ list \in Seq(Clients) /\ Len(list) \in Nat
      /\ Listed = {list[k] : k \in 1..Len(list)}
      /\ \A k, m \in 1..Len(list) : list[k] = list[m] => k = m
  BY Shapes DEF CInv, ListInv
<1>2. list' = l
  BY DEF client_remove
<1>3. CASE \A k \in 1..Len(list) : list[k] # c
  <2>1. l = list
    BY <1>3, RemoveFirstAbsent
  <2>2. c \notin Listed
    BY <1>1, <1>3
  <2>3. Listed' = Listed
    BY <1>2, <2>1 DEF Listed
  <2> QED BY <1>1, <1>2, <1>3, <2>1, <2>2, <2>3
<1>4. CASE \E k \in 1..Len(list) : list[k] = c
  <2>1. PICK k \in 1..Len(list) : list[k] = c
    BY <1>4
  <2>2. \A m \in 1..(k - 1) : list[m] # c
    BY <1>1, <2>1
  <2>3. /\ l \in Seq(Clients) /\ Len(l) = Len(list) - 1
        /\ \A m \in 1..(Len(list) - 1) : l[m] = IF m < k THEN list[m] ELSE list[m + 1]
    BY <1>1, <2>1, <2>2, RemoveFirstAt
  <2> HIDE DEF l
  <2>4. Len(l) \in Nat /\ DOMAIN l = 1..Len(l)
    BY <2>3, LenProperties
  <2>5. ASSUME NEW i \in 1..Len(l), NEW j \in 1..Len(l), l[i] = l[j]
        PROVE  i = j
    <3>1. i \in 1..Len(list) /\ i + 1 \in 1..Len(list)
      BY <1>1, <2>3
    <3>2. j \in 1..Len(list) /\ j + 1 \in 1..Len(list)
      BY <1>1, <2>3
    <3>3. i \in 1..(Len(list) - 1) /\ j \in 1..(Len(list) - 1)
      BY <2>3
    <3>4. PICK a \in 1..Len(list) : l[i] = list[a] /\ a = IF i < k THEN i ELSE i + 1
      BY <2>3, <3>1, <3>3
    <3>5. PICK b \in 1..Len(list) : l[j] = list[b] /\ b = IF j < k THEN j ELSE j + 1
      BY <2>3, <3>2, <3>3
    <3>6. a = b
      BY <1>1, <2>5, <3>4, <3>5
    <3> QED BY <1>1, <3>1, <3>2, <3>4, <3>5, <3>6
  <2>6. ToSet(l) = Listed \ {c}
    <3>1. ToSet(l) = {l[m] : m \in 1..Len(l)}
      BY <2>4 DEF ToSet
    <3>2. ASSUME NEW m \in 1..Len(l)
          PROVE  l[m] \in Listed \ {c}
      <4>1. m \in 1..Len(list) /\ m + 1 \in 1..Len(list) /\ m \in 1..(Len(list) - 1)
        BY <1>1, <2>3
      <4>2. l[m] = IF m < k THEN list[m] ELSE list[m + 1]
        BY <2>3, <4>1
      <4> QED BY <1>1, <2>1, <4>1, <4>2
    <3>3. ASSUME NEW x \in Listed \ {c}
          PROVE  \E m \in 1..Len(l) : x = l[m]
      <4>1. PICK i \in 1..Len(list) : x = list[i]
        BY <1>1
      <4>2. i # k
        BY <2>1, <4>1
      <4>3. CASE i < k
        BY <1>1, <2>1, <2>3, <4>1, <4>3
      <4>4. CASE i > k
        <5>1. i - 1 \in 1..(Len(list) - 1) /\ ~(i - 1 < k) /\ (i - 1) + 1 = i
          BY <1>1, <2>1, <4>1, <4>4
        <5>2. l[i - 1] = list[i]
          BY <2>3, <5>1
        <5> QED BY <2>3, <4>1, <5>1, <5>2
      <4> QED BY <1>1, <2>1, <4>1, <4>2, <4>3, <4>4
    <3> QED BY <3>1, <3>2, <3>3
  <2>7. Listed' = Listed \ {c}
    BY <1>2, <2>6 DEF Listed
  <2>8. ASSUME NEW i \in 1..Len(list), list[i] = c
        PROVE  /\ Len(l) = Len(list) - 1
               /\ \A m \in 1..(i - 1) : l[m] = list[m]
    <3>1. i = k
      BY <1>1, <2>1, <2>8
    <3>2. \A m \in 1..(k - 1) : m \in 1..(Len(list) - 1) /\ m < k
      BY <1>1, <2>1
    <3> QED BY <2>3, <3>1, <3>2
  <2>9. Len(l) <= Len(list)
    BY <1>1, <2>3
  <2> QED BY <1>2, <2>3, <2>4, <2>5, <2>7, <2>8, <2>9
<1> QED BY <1>3, <1>4

(* ... and after list_push_back of a new client.                             *)
LEMMA ListAppended ==
  ASSUME CInv, NEW c \in Clients, c \notin Listed, list_has_room,
         list' = Append(list, c)
  PROVE  /\ list' \in Seq(Clients) /\ Len(list') \in Nat /\ Len(list') = Len(list) + 1
         /\ Len(list') <= MAX_NUM_CLIENTS
         /\ \A k, m \in 1..Len(list') : list'[k] = list'[m] => k = m
         /\ Listed' = Listed \cup {c}
<1> DEFINE l == Append(list, c)
<1>1. /\ list \in Seq(Clients) /\ Len(list) \in Nat
      /\ Listed = {list[k] : k \in 1..Len(list)}
      /\ \A k, m \in 1..Len(list) : list[k] = list[m] => k = m
  BY Shapes DEF CInv, ListInv
<1>2. /\ l \in Seq(Clients) /\ Len(l) = Len(list) + 1
      /\ \A m \in 1..Len(list) : l[m] = list[m]
      /\ l[Len(list) + 1] = c
  BY <1>1, AppendProperties
<1> HIDE DEF l
<1>3. Len(l) \in Nat /\ DOMAIN l = 1..Len(l)
  BY <1>2, LenProperties
<1>4. ASSUME NEW i \in 1..Len(l), NEW j \in 1..Len(l), l[i] = l[j]
      PROVE  i = j
  <2>1. \A m \in 1..Len(list) : l[m] # c
    BY <1>1, <1>2
  <2>2. i \in 1..Len(list) \/ i = Len(list) + 1
    BY <1>1, <1>2
  <2>3. j \in 1..Len(list) \/ j = Len(list) + 1
    BY <1>1, <1>2
  <2> QED BY <1>1, <1>2, <1>4, <2>1, <2>2, <2>3
<1>5. ToSet(l) = Listed \cup {c}
  <2>1. ToSet(l) = {l[m] : m \in 1..Len(l)}
    BY <1>3 DEF ToSet
  <2>2. \A m \in 1..Len(l) : m \in 1..Len(list) \/ m = Len(list) + 1
    BY <1>1, <1>2
  <2>3. \A m \in 1..Len(list) : m \in 1..Len(l)
    BY <1>1, <1>2
  <2>4. Len(list) + 1 \in 1..Len(l)
    BY <1>1, <1>2
  <2> QED BY <1>1, <1>2, <2>1, <2>2, <2>3, <2>4
<1>6. list' = l /\ Listed' = Listed \cup {c}
  BY <1>5 DEF Listed, l
<1>7. Len(l) <= MAX_NUM_CLIENTS
  BY <1>1, <1>2, BoundsAssumption DEF list_has_room
<1> QED BY <1>2, <1>3, <1>4, <1>6, <1>7

(* What is said about the requests on their way stays true for the others.   *)
LEMMA RequestsLeft ==
  ASSUME CInv, NEW op, read_request(op),
         \A d \in Clients :
           Known(d)' => Known(d) \/ (op = "new_client" /\ d = sfifo[1].from)
  PROVE  RequestInv'
<1>1. UNCHANGED <<cpc, call, fifo>>
  BY DEF read_request, clientVars
<1>2. /\ 1 \in 1..Len(sfifo) /\ sfifo[1].op = op
      /\ \A m \in 1..Len(sfifo') :
           /\ m \in Nat /\ m + 1 \in 1..Len(sfifo) /\ m + 1 # 1
           /\ sfifo'[m] = sfifo[m + 1]
  <2>1. \A m \in 1..Len(sfifo') : m \in Nat
    BY RequestRead
  <2> QED BY <2>1, RequestRead
<1>3. \A m \in 1..Len(sfifo') : sfifo'[m].from \in Clients
  BY <1>2, Shapes
<1> SUFFICES ASSUME NEW k \in 1..Len(sfifo'), NEW c \in Clients,
                    c = sfifo'[k].from
             PROVE  /\ ~Fresh(c)'
                    /\ sfifo'[k].op = "new_client" <=> call[c] = "new_client"
                    /\ sfifo'[k].op = "disconnect_client" =>
                         call[c] = "disconnect_client"
                    /\ sfifo'[k].op = "new_client" =>
                         /\ ~Known(c)' /\ fifo[c] = <<>>
                         /\ \A m \in 1..Len(sfifo') : sfifo'[m].from = c => m = k
  BY <1>1, <1>3 DEF RequestInv, Fresh, Known
<1>4. /\ ~Fresh(c)
      /\ sfifo'[k].op = "new_client" <=> call[c] = "new_client"
      /\ sfifo'[k].op = "disconnect_client" => call[c] = "disconnect_client"
      /\ sfifo'[k].op = "new_client" =>
           /\ ~Known(c) /\ fifo[c] = <<>>
           /\ \A m \in 1..Len(sfifo) : sfifo[m].from = c => m = k + 1
  BY <1>2 DEF CInv, RequestInv
<1>5. ASSUME sfifo'[k].op = "new_client"
      PROVE  ~Known(c)'
  <2>1. c # sfifo[1].from
    BY <1>2, <1>4, <1>5
  <2> QED BY <1>4, <1>5, <2>1
<1>6. ASSUME sfifo'[k].op = "new_client", NEW m \in 1..Len(sfifo'),
             sfifo'[m].from = c
      PROVE  m = k
  <2>1. m + 1 = k + 1
    BY <1>2, <1>4, <1>6
  <2> QED BY <1>2, <2>1
<1>7. ~Fresh(c)'
  BY <1>1, <1>4 DEF Fresh
<1> QED BY <1>4, <1>5, <1>6, <1>7

(* ... and so does what is said about the clients that quit.                 *)
LEMMA QuittersLeft ==
  ASSUME CInv, NEW op, read_request(op),
         \A d \in Listed' : d \in Listed \/ (op = "new_client" /\ d = sfifo[1].from),
         op = "disconnect_client" => sfifo[1].from \notin Listed'
  PROVE  QuitInv'
<1>1. UNCHANGED <<cpc, call>>
  BY DEF read_request, clientVars
<1> SUFFICES ASSUME NEW c \in Clients, call[c] = "disconnect_client",
                    cpc[c] \in {"open", "opening", "read", "exit", "unlinked", "gone"},
                    c \in Listed'
             PROVE  \E k \in 1..Len(sfifo') :
                      sfifo'[k].from = c /\ sfifo'[k].op = "disconnect_client"
  BY <1>1 DEF QuitInv
<1>2. spc = "read" /\ sfifo[1].op = op /\ 1 \in 1..Len(sfifo)
  BY RequestRead
<1>3. c \in Listed
  BY <1>2 DEF CInv, RequestInv
<1>4. PICK k \in 1..Len(sfifo) :
        sfifo[k].from = c /\ sfifo[k].op = "disconnect_client"
  BY <1>2, <1>3 DEF CInv, QuitInv, ServerUp
<1>5. k # 1
  BY <1>2, <1>4
<1>6. k - 1 \in 1..Len(sfifo') /\ sfifo'[k - 1] = sfifo[k]
  BY <1>5, RequestRead
<1> QED BY <1>4, <1>6

(* check_connection answers anybody.                                         *)
LEMMA CheckConnectionStep ==
  ASSUME CInv, check_connection
  PROVE  CInv'
<1>1. /\ req' = sfifo[1]
      /\ spc' = "open" /\ phase' = "reply" /\ target' = sfifo[1].from /\ resp' = OK
      /\ UNCHANGED <<fifo, exists, list, forgotten, restarts, p, msg_success,
                     delivered, cpc, call, dest, text, int_sys_flag, fds, hup,
                     choices>>
  <2>1. Head(sfifo) = sfifo[1]
    BY RequestRead DEF check_connection
  <2> QED
    BY <2>1 DEF check_connection, read_request, send_sys_response, fifoVars,
       serverVars, listVars, draft, clientVars
<1>2. /\ ~Busy /\ spc = "read" /\ p = 1 /\ Len(sfifo) \in Nat /\ 1 \in 1..Len(sfifo)
      /\ sfifo[1] \in Sent /\ sfifo[1].op = "check_connection" /\ sfifo[1].from \in Clients
      /\ sfifo' \in Seq(Sent) /\ Len(sfifo') = Len(sfifo) - 1
      /\ DOMAIN sfifo' = 1..(Len(sfifo) - 1)
      /\ \A k \in 1..(Len(sfifo) - 1) :
           k + 1 \in 1..Len(sfifo) /\ k + 1 # 1 /\ sfifo'[k] = sfifo[k + 1]
      /\ \A k \in 1..Len(sfifo) : k # 1 =>
           k - 1 \in 1..(Len(sfifo) - 1) /\ sfifo'[k - 1] = sfifo[k]
  BY RequestRead DEF check_connection
<1>10. ClientType'
  BY <1>1, BoundsAssumption DEF CInv, ClientType, ClientPoints, Calls, Dests
<1>11. FifoType'
  BY <1>1, <1>2 DEF CInv, FifoType
<1>12. ServerType'
  BY <1>1, <1>2, Shapes DEF CInv, ServerType, Sent, Responses, OK, FAIL,
     Response, answer
<1>13. ListInv'
  BY <1>1 DEF CInv, ListInv
<1>14. ServerInv'
  BY <1>1, Shapes, <1>2 DEF CInv, ServerInv, Busy, Writing, Listed, Dead,
     Sent, OK, FAIL, IsAnswer, Response, answer
<1>15. ClientInv'
  BY <1>1 DEF CInv, ClientInv, Dead, ClientType
<1>16. FreshInv'
  BY <1>1 DEF CInv, FreshInv, Fresh, Known, Listed, ClientInv
<1>17. RequestInv'
  BY <1>1, RequestsLeft DEF check_connection, Known, Listed
<1>18. HandInv'
  BY <1>1, Shapes, <1>2 DEF CInv, HandInv, Busy, Fresh, ClientInv,
     RequestInv
<1>19. ConnectedInv'
  BY <1>1, <1>2 DEF CInv, ConnectedInv, Alive, Known, Listed, Busy, Writing,
     ClientInv, RequestInv
<1>20. QuitInv'
  BY <1>1, QuittersLeft DEF check_connection, Listed
<1>21. UnopenedInv'
  BY <1>1, <1>2 DEF CInv, UnopenedInv, Dead, Listed, ClientInv, FreshInv,
     Fresh, Known
<1>22. LoopInv'
  BY <1>1, Shapes, <1>2 DEF CInv, LoopInv, Busy, Writing, Passed, Listed,
     Dead
<1>23. BlockedOnlyOnConnect'
  BY <1>1 DEF CInv, BlockedOnlyOnConnect, ServerInv, Writing, ClientInv
<1>24. AnswerOnItsWay'
  <2> SUFFICES ASSUME NEW c \in Clients, restarts = 0,
                      cpc[c] \in {"open", "opening", "read"}
               PROVE  AnswerDue(c)'
    BY <1>1 DEF AnswerOnItsWay
  <2>1. AnswerDue(c)
    BY <1>2 DEF CInv, AnswerOnItsWay, ServerUp
  <2>2. CASE \E k \in DOMAIN fifo[c] : IsAnswer(fifo[c][k])
    BY <1>1, <2>2 DEF AnswerDue
  <2>3. CASE \E k \in DOMAIN sfifo : sfifo[k].from = c
    <3>1. PICK k \in 1..Len(sfifo) : sfifo[k].from = c
      BY <2>3, Shapes
    <3>2. CASE k = 1
      BY <1>1, <3>1, <3>2 DEF AnswerDue
    <3>3. CASE k # 1
      BY <1>2, <3>1, <3>3 DEF AnswerDue
    <3> QED BY <3>2, <3>3
  <2> QED BY <1>2, <2>1, <2>2, <2>3 DEF AnswerDue
<1> QED
  BY <1>10, <1>11, <1>12, <1>13, <1>14, <1>15, <1>16, <1>17, <1>18, <1>19,
     <1>20, <1>21, <1>22, <1>23, <1>24 DEF CInv

(* A message to nobody in the list.                                          *)
LEMMA UndeliverableStep ==
  ASSUME CInv, undeliverable_message
  PROVE  CInv'
<1>1. /\ req' = sfifo[1]
      /\ sfifo[1].dest # GLOBAL
      /\ spc' = "open" /\ phase' = "reply" /\ target' = sfifo[1].from /\ resp' = OK
      /\ delivered' = {}
      /\ UNCHANGED <<fifo, exists, list, forgotten, restarts, p, msg_success,
                     cpc, call, dest, text, int_sys_flag, fds, hup, choices>>
  <2>1. Head(sfifo) = sfifo[1]
    BY RequestRead DEF undeliverable_message
  <2> QED
    BY <2>1 DEF undeliverable_message, read_request, send_sys_response,
       fifoVars, serverVars, listVars, draft, clientVars
<1>2. /\ ~Busy /\ spc = "read" /\ p = 1 /\ Len(sfifo) \in Nat /\ 1 \in 1..Len(sfifo)
      /\ sfifo[1] \in Sent /\ sfifo[1].op = "message" /\ sfifo[1].from \in Clients
      /\ sfifo' \in Seq(Sent) /\ Len(sfifo') = Len(sfifo) - 1
      /\ DOMAIN sfifo' = 1..(Len(sfifo) - 1)
      /\ \A k \in 1..(Len(sfifo) - 1) :
           k + 1 \in 1..Len(sfifo) /\ k + 1 # 1 /\ sfifo'[k] = sfifo[k + 1]
      /\ \A k \in 1..Len(sfifo) : k # 1 =>
           k - 1 \in 1..(Len(sfifo) - 1) /\ sfifo'[k - 1] = sfifo[k]
  BY RequestRead DEF undeliverable_message
<1>10. ClientType'
  BY <1>1, BoundsAssumption DEF CInv, ClientType, ClientPoints, Calls, Dests
<1>11. FifoType'
  BY <1>1, <1>2 DEF CInv, FifoType
<1>12. ServerType'
  BY <1>1, <1>2, Shapes DEF CInv, ServerType, Sent, Responses, OK, FAIL,
     Response, answer
<1>13. ListInv'
  BY <1>1 DEF CInv, ListInv
<1>14. ServerInv'
  BY <1>1, Shapes, <1>2 DEF CInv, ServerInv, Busy, Writing, Listed, Dead,
     Sent, OK, FAIL, IsAnswer, Response, answer
<1>15. ClientInv'
  BY <1>1 DEF CInv, ClientInv, Dead, ClientType
<1>16. FreshInv'
  BY <1>1 DEF CInv, FreshInv, Fresh, Known, Listed, ClientInv
<1>17. RequestInv'
  BY <1>1, RequestsLeft DEF undeliverable_message, Known, Listed
<1>18. HandInv'
  BY <1>1, Shapes, <1>2 DEF CInv, HandInv, Busy, Fresh, ClientInv,
     RequestInv
<1>19. ConnectedInv'
  BY ZenonT(60), <1>1, <1>2 DEF CInv, ConnectedInv, Alive, Known, Listed, Busy, Writing,
     ClientInv, RequestInv
<1>20. QuitInv'
  BY <1>1, QuittersLeft DEF undeliverable_message, Listed
<1>21. UnopenedInv'
  BY <1>1, <1>2 DEF CInv, UnopenedInv, Dead, Listed, ClientInv, FreshInv,
     Fresh, Known
<1>22. LoopInv'
  BY <1>1, Shapes, <1>2 DEF CInv, LoopInv, Busy, Writing, Passed, Listed,
     Dead
<1>23. BlockedOnlyOnConnect'
  BY <1>1 DEF CInv, BlockedOnlyOnConnect, ServerInv, Writing, ClientInv
<1>24. AnswerOnItsWay'
  <2> SUFFICES ASSUME NEW c \in Clients, restarts = 0,
                      cpc[c] \in {"open", "opening", "read"}
               PROVE  AnswerDue(c)'
    BY <1>1 DEF AnswerOnItsWay
  <2>1. AnswerDue(c)
    BY <1>2 DEF CInv, AnswerOnItsWay, ServerUp
  <2>2. CASE \E k \in DOMAIN fifo[c] : IsAnswer(fifo[c][k])
    BY <1>1, <2>2 DEF AnswerDue
  <2>3. CASE \E k \in DOMAIN sfifo : sfifo[k].from = c
    <3>1. PICK k \in 1..Len(sfifo) : sfifo[k].from = c
      BY <2>3, Shapes
    <3>2. CASE k = 1
      BY <1>1, <3>1, <3>2 DEF AnswerDue
    <3>3. CASE k # 1
      BY <1>2, <3>1, <3>3 DEF AnswerDue
    <3> QED BY <3>2, <3>3
  <2> QED BY <1>2, <2>1, <2>2, <2>3 DEF AnswerDue
<1> QED
  BY <1>10, <1>11, <1>12, <1>13, <1>14, <1>15, <1>16, <1>17, <1>18, <1>19,
     <1>20, <1>21, <1>22, <1>23, <1>24 DEF CInv

(* A message to a client in the list.                                        *)
LEMMA DirectStep ==
  ASSUME CInv, direct_message
  PROVE  CInv'
<1>1. /\ req' = sfifo[1]
      /\ sfifo[1].dest \in Listed
      /\ spc' = "open" /\ phase' = "direct" /\ target' = sfifo[1].dest
      /\ resp' = Response("message", sfifo[1].text)
      /\ delivered' = {}
      /\ UNCHANGED <<fifo, exists, list, forgotten, restarts, p, msg_success,
                     cpc, call, dest, text, int_sys_flag, fds, hup, choices>>
  <2>1. Head(sfifo) = sfifo[1]
    BY RequestRead DEF direct_message
  <2> QED
    BY <2>1 DEF direct_message, read_request, send_sys_response, fifoVars,
       serverVars, listVars, draft, clientVars
<1>2. /\ ~Busy /\ spc = "read" /\ p = 1 /\ Len(sfifo) \in Nat /\ 1 \in 1..Len(sfifo)
      /\ sfifo[1] \in Sent /\ sfifo[1].op = "message" /\ sfifo[1].from \in Clients
      /\ sfifo' \in Seq(Sent) /\ Len(sfifo') = Len(sfifo) - 1
      /\ DOMAIN sfifo' = 1..(Len(sfifo) - 1)
      /\ \A k \in 1..(Len(sfifo) - 1) :
           k + 1 \in 1..Len(sfifo) /\ k + 1 # 1 /\ sfifo'[k] = sfifo[k + 1]
      /\ \A k \in 1..Len(sfifo) : k # 1 =>
           k - 1 \in 1..(Len(sfifo) - 1) /\ sfifo'[k - 1] = sfifo[k]
  BY RequestRead DEF direct_message
<1>3. sfifo[1].dest \in Clients /\ sfifo[1].dest # GLOBAL
  BY <1>1, Shapes, ClientsAssumption DEF GLOBAL
<1>10. ClientType'
  BY <1>1, BoundsAssumption DEF CInv, ClientType, ClientPoints, Calls, Dests
<1>11. FifoType'
  BY <1>1, <1>2 DEF CInv, FifoType
<1>12. ServerType'
  BY <1>1, <1>2, Shapes DEF CInv, ServerType, Sent, Responses, OK, FAIL,
     Response, answer
<1>13. ListInv'
  BY <1>1 DEF CInv, ListInv
<1>14. ServerInv'
  BY <1>1, Shapes, <1>2, <1>3 DEF CInv, ServerInv, Busy, Writing, Listed,
     Dead
<1>15. ClientInv'
  BY <1>1 DEF CInv, ClientInv, Dead, ClientType
<1>16. FreshInv'
  BY <1>1 DEF CInv, FreshInv, Fresh, Known, Listed, ClientInv
<1>17. RequestInv'
  BY <1>1, RequestsLeft DEF direct_message, Known, Listed
<1>18. HandInv'
  BY <1>1, Shapes, <1>2 DEF CInv, HandInv, Busy, Fresh, ClientInv,
     RequestInv
<1>19. ConnectedInv'
  BY <1>1, <1>2 DEF CInv, ConnectedInv, Alive, Known, Listed, Busy, Writing,
     ClientInv, RequestInv
<1>20. QuitInv'
  BY <1>1, QuittersLeft DEF direct_message, Listed
<1>21. UnopenedInv'
  BY <1>1, <1>2 DEF CInv, UnopenedInv, Dead, Listed, ClientInv, FreshInv,
     Fresh, Known
<1>22. LoopInv'
  BY <1>1, Shapes, <1>2, <1>3 DEF CInv, LoopInv, Busy, Writing, Passed,
     Listed, Dead
<1>23. BlockedOnlyOnConnect'
  BY <1>1 DEF CInv, BlockedOnlyOnConnect, ServerInv, Writing, ClientInv
<1>24. AnswerOnItsWay'
  <2> SUFFICES ASSUME NEW c \in Clients, restarts = 0,
                      cpc[c] \in {"open", "opening", "read"}
               PROVE  AnswerDue(c)'
    BY <1>1 DEF AnswerOnItsWay
  <2>1. AnswerDue(c)
    BY <1>2 DEF CInv, AnswerOnItsWay, ServerUp
  <2>2. CASE \E k \in DOMAIN fifo[c] : IsAnswer(fifo[c][k])
    BY <1>1, <2>2 DEF AnswerDue
  <2>3. CASE \E k \in DOMAIN sfifo : sfifo[k].from = c
    <3>1. PICK k \in 1..Len(sfifo) : sfifo[k].from = c
      BY <2>3, Shapes
    <3>2. CASE k = 1
      BY <1>1, <3>1, <3>2 DEF AnswerDue
    <3>3. CASE k # 1
      BY <1>2, <3>1, <3>3 DEF AnswerDue
    <3> QED BY <3>2, <3>3
  <2> QED BY <1>2, <2>1, <2>2, <2>3 DEF AnswerDue
<1> QED
  BY <1>10, <1>11, <1>12, <1>13, <1>14, <1>15, <1>16, <1>17, <1>18, <1>19,
     <1>20, <1>21, <1>22, <1>23, <1>24 DEF CInv

(* A message to everybody.                                                   *)
LEMMA GlobalStep ==
  ASSUME CInv, global_message
  PROVE  CInv'
<1>1. /\ req' = sfifo[1]
      /\ sfifo[1].dest = GLOBAL
      /\ spc' = "global" /\ p' = 1 /\ msg_success' = TRUE /\ delivered' = {}
      /\ UNCHANGED <<fifo, exists, list, forgotten, restarts, target, resp,
                     phase, cpc, call, dest, text, int_sys_flag, fds, hup,
                     choices>>
  <2>1. Head(sfifo) = sfifo[1]
    BY RequestRead DEF global_message
  <2> QED
    BY <2>1 DEF global_message, read_request, send_sys_response, fifoVars,
       serverVars, listVars, draft, clientVars
<1>2. /\ ~Busy /\ spc = "read" /\ p = 1 /\ Len(sfifo) \in Nat /\ 1 \in 1..Len(sfifo)
      /\ sfifo[1] \in Sent /\ sfifo[1].op = "message" /\ sfifo[1].from \in Clients
      /\ sfifo' \in Seq(Sent) /\ Len(sfifo') = Len(sfifo) - 1
      /\ DOMAIN sfifo' = 1..(Len(sfifo) - 1)
      /\ \A k \in 1..(Len(sfifo) - 1) :
           k + 1 \in 1..Len(sfifo) /\ k + 1 # 1 /\ sfifo'[k] = sfifo[k + 1]
      /\ \A k \in 1..Len(sfifo) : k # 1 =>
           k - 1 \in 1..(Len(sfifo) - 1) /\ sfifo'[k - 1] = sfifo[k]
  BY RequestRead DEF global_message
<1>10. ClientType'
  BY <1>1, BoundsAssumption DEF CInv, ClientType, ClientPoints, Calls, Dests
<1>11. FifoType'
  BY <1>1, <1>2 DEF CInv, FifoType
<1>12. ServerType'
  BY <1>1, BoundsAssumption, <1>2, Shapes DEF CInv, ServerType, Sent
<1>13. ListInv'
  BY <1>1 DEF CInv, ListInv
<1>14. ServerInv'
  BY <1>1, Shapes, <1>2 DEF CInv, ServerInv, Busy, Writing, Listed, Dead,
     Sent, OK, FAIL, IsAnswer, Response, answer
<1>15. ClientInv'
  BY <1>1 DEF CInv, ClientInv, Dead, ClientType
<1>16. FreshInv'
  BY <1>1 DEF CInv, FreshInv, Fresh, Known, Listed, ClientInv
<1>17. RequestInv'
  BY <1>1, RequestsLeft DEF global_message, Known, Listed
<1>18. HandInv'
  BY <1>1, Shapes, <1>2 DEF CInv, HandInv, Busy, Fresh, ClientInv,
     RequestInv
<1>19. ConnectedInv'
  BY <1>1, <1>2 DEF CInv, ConnectedInv, Alive, Known, Listed, Busy, Writing,
     ClientInv, RequestInv
<1>20. QuitInv'
  BY <1>1, QuittersLeft DEF global_message, Listed
<1>21. UnopenedInv'
  BY <1>1, <1>2 DEF CInv, UnopenedInv, Dead, Listed, ClientInv, FreshInv,
     Fresh, Known
<1>22. LoopInv'
  BY <1>1, Shapes, <1>2 DEF CInv, LoopInv, Busy, Writing, Passed, Listed,
     Dead
<1>23. BlockedOnlyOnConnect'
  BY <1>1 DEF CInv, BlockedOnlyOnConnect, ServerInv, Writing, ClientInv
<1>24. AnswerOnItsWay'
  <2> SUFFICES ASSUME NEW c \in Clients, restarts = 0,
                      cpc[c] \in {"open", "opening", "read"}
               PROVE  AnswerDue(c)'
    BY <1>1 DEF AnswerOnItsWay
  <2>1. AnswerDue(c)
    BY <1>2 DEF CInv, AnswerOnItsWay, ServerUp
  <2>2. CASE \E k \in DOMAIN fifo[c] : IsAnswer(fifo[c][k])
    BY <1>1, <2>2 DEF AnswerDue
  <2>3. CASE \E k \in DOMAIN sfifo : sfifo[k].from = c
    <3>1. PICK k \in 1..Len(sfifo) : sfifo[k].from = c
      BY <2>3, Shapes
    <3>2. CASE k = 1
      BY <1>1, <3>1, <3>2 DEF AnswerDue
    <3>3. CASE k # 1
      BY <1>2, <3>1, <3>3 DEF AnswerDue
    <3> QED BY <3>2, <3>3
  <2> QED BY <1>2, <2>1, <2>2, <2>3 DEF AnswerDue
<1> QED
  BY <1>10, <1>11, <1>12, <1>13, <1>14, <1>15, <1>16, <1>17, <1>18, <1>19,
     <1>20, <1>21, <1>22, <1>23, <1>24 DEF CInv

(* disconnect_client takes the client off the list.                          *)
LEMMA DisconnectStep ==
  ASSUME CInv, disconnect_client
  PROVE  CInv'
<1>1. /\ req' = sfifo[1]
      /\ list' = client_remove(sfifo[1].from)
      /\ spc' = "open" /\ phase' = "reply" /\ target' = sfifo[1].from
      /\ resp' = answer(sfifo[1].from \in Listed)
      /\ UNCHANGED <<fifo, exists, forgotten, restarts, p, msg_success,
                     delivered, cpc, call, dest, text, int_sys_flag, fds, hup,
                     choices>>
  <2>1. Head(sfifo) = sfifo[1]
    BY RequestRead DEF disconnect_client
  <2> QED
    BY <2>1 DEF disconnect_client, read_request, send_sys_response,
       fifoVars, serverVars, listVars, draft, clientVars
<1>2. /\ ~Busy /\ spc = "read" /\ p = 1 /\ Len(sfifo) \in Nat /\ 1 \in 1..Len(sfifo)
      /\ sfifo[1] \in Sent /\ sfifo[1].op = "disconnect_client" /\ sfifo[1].from \in Clients
      /\ sfifo' \in Seq(Sent) /\ Len(sfifo') = Len(sfifo) - 1
      /\ DOMAIN sfifo' = 1..(Len(sfifo) - 1)
      /\ \A k \in 1..(Len(sfifo) - 1) :
           k + 1 \in 1..Len(sfifo) /\ k + 1 # 1 /\ sfifo'[k] = sfifo[k + 1]
      /\ \A k \in 1..Len(sfifo) : k # 1 =>
           k - 1 \in 1..(Len(sfifo) - 1) /\ sfifo'[k - 1] = sfifo[k]
  BY RequestRead DEF disconnect_client
<1>3. /\ list' \in Seq(Clients) /\ Len(list') \in Nat /\ Len(list') <= Len(list)
      /\ \A k, m \in 1..Len(list') : list'[k] = list'[m] => k = m
      /\ Listed' = Listed \ {sfifo[1].from}
  BY <1>1, <1>2, ListRemoved
<1>4. \A d \in Clients : Known(d)' => Known(d)
  BY <1>1, <1>3 DEF Known
<1>10. ClientType'
  BY <1>1, BoundsAssumption DEF CInv, ClientType, ClientPoints, Calls, Dests
<1>11. FifoType'
  BY <1>1, <1>2 DEF CInv, FifoType
<1>12. ServerType'
  BY <1>1, <1>2, Shapes DEF CInv, ServerType, Sent, Responses, OK, FAIL,
     Response, answer
<1>13. ListInv'
  BY <1>1, <1>3, Shapes, BoundsAssumption DEF CInv, ListInv
<1>14. ServerInv'
  BY <1>1, <1>2, <1>3 DEF ServerInv, Busy, Writing, OK, FAIL, IsAnswer, Response, answer
<1>15. ClientInv'
  BY <1>1 DEF CInv, ClientInv, Dead, ClientType
<1>16. FreshInv'
  BY <1>1, <1>4 DEF CInv, FreshInv, Fresh
<1>17. RequestInv'
  BY <1>4, RequestsLeft DEF disconnect_client
<1>18. HandInv'
  BY <1>1, Shapes, <1>2 DEF CInv, HandInv, Busy, Fresh, ClientInv,
     RequestInv
<1>19. ConnectedInv'
  <2>1. call[sfifo[1].from] = "disconnect_client"
    BY <1>2 DEF CInv, RequestInv
  <2>2. \A d \in Clients : d # sfifo[1].from => (Known(d)' <=> Known(d))
    BY <1>1, <1>3 DEF Known
  <2> QED BY <1>1, <1>2, <2>1, <2>2 DEF CInv, ConnectedInv, Alive, Busy, Writing
<1>20. QuitInv'
  BY <1>3, QuittersLeft DEF disconnect_client
<1>21. UnopenedInv'
  BY <1>1, <1>2, <1>3 DEF CInv, UnopenedInv, Dead
<1>22. LoopInv'
  BY <1>1, Shapes, <1>2 DEF CInv, LoopInv, Busy, Writing, Passed, Listed,
     Dead
<1>23. BlockedOnlyOnConnect'
  BY <1>1 DEF CInv, BlockedOnlyOnConnect, ServerInv, Writing, ClientInv
<1>24. AnswerOnItsWay'
  <2> SUFFICES ASSUME NEW c \in Clients, restarts = 0,
                      cpc[c] \in {"open", "opening", "read"}
               PROVE  AnswerDue(c)'
    BY <1>1 DEF AnswerOnItsWay
  <2>1. AnswerDue(c)
    BY <1>2 DEF CInv, AnswerOnItsWay, ServerUp
  <2>2. CASE \E k \in DOMAIN fifo[c] : IsAnswer(fifo[c][k])
    BY <1>1, <2>2 DEF AnswerDue
  <2>3. CASE \E k \in DOMAIN sfifo : sfifo[k].from = c
    <3>1. PICK k \in 1..Len(sfifo) : sfifo[k].from = c
      BY <2>3, Shapes
    <3>2. CASE k = 1
      BY <1>1, <3>1, <3>2 DEF AnswerDue
    <3>3. CASE k # 1
      BY <1>2, <3>1, <3>3 DEF AnswerDue
    <3> QED BY <3>2, <3>3
  <2> QED BY <1>2, <2>1, <2>2, <2>3 DEF AnswerDue
<1> QED
  BY <1>10, <1>11, <1>12, <1>13, <1>14, <1>15, <1>16, <1>17, <1>18, <1>19,
     <1>20, <1>21, <1>22, <1>23, <1>24 DEF CInv

(* new_client puts the client into the list.                                 *)
LEMMA NewClientStep ==
  ASSUME CInv, new_client /\ sfifo[1].from \notin Listed /\ list_has_room
  PROVE  CInv'
<1>1. /\ req' = sfifo[1]
      /\ list' = Append(list, sfifo[1].from)
      /\ spc' = "open" /\ phase' = "reply" /\ target' = sfifo[1].from /\ resp' = OK
      /\ UNCHANGED <<fifo, exists, forgotten, restarts, p, msg_success,
                     delivered, cpc, call, dest, text, int_sys_flag, fds, hup,
                     choices>>
  <2>1. Head(sfifo) = sfifo[1]
    BY RequestRead DEF new_client
  <2> QED
    BY <2>1 DEF new_client, read_request, send_sys_response, fifoVars,
       serverVars, listVars, draft, clientVars, answer
<1>2. /\ ~Busy /\ spc = "read" /\ p = 1 /\ Len(sfifo) \in Nat /\ 1 \in 1..Len(sfifo)
      /\ sfifo[1] \in Sent /\ sfifo[1].op = "new_client" /\ sfifo[1].from \in Clients
      /\ sfifo' \in Seq(Sent) /\ Len(sfifo') = Len(sfifo) - 1
      /\ DOMAIN sfifo' = 1..(Len(sfifo) - 1)
      /\ \A k \in 1..(Len(sfifo) - 1) :
           k + 1 \in 1..Len(sfifo) /\ k + 1 # 1 /\ sfifo'[k] = sfifo[k + 1]
      /\ \A k \in 1..Len(sfifo) : k # 1 =>
           k - 1 \in 1..(Len(sfifo) - 1) /\ sfifo'[k - 1] = sfifo[k]
  BY RequestRead DEF new_client
<1>3. /\ list' \in Seq(Clients) /\ Len(list') \in Nat /\ Len(list') = Len(list) + 1
      /\ Len(list') <= MAX_NUM_CLIENTS
      /\ \A k, m \in 1..Len(list') : list'[k] = list'[m] => k = m
      /\ Listed' = Listed \cup {sfifo[1].from}
  BY <1>1, <1>2, ListAppended
<1>4. \A d \in Clients : Known(d)' <=> Known(d) \/ d = sfifo[1].from
  BY <1>1, <1>3 DEF Known
<1>5. /\ call[sfifo[1].from] = "new_client" /\ ~Fresh(sfifo[1].from)
      /\ \A k \in 1..Len(sfifo) : sfifo[k].from = sfifo[1].from => k = 1
  BY <1>2 DEF CInv, RequestInv
<1>10. ClientType'
  BY <1>1, BoundsAssumption DEF CInv, ClientType, ClientPoints, Calls, Dests
<1>11. FifoType'
  BY <1>1, <1>2 DEF CInv, FifoType
<1>12. ServerType'
  BY <1>1, <1>2, Shapes DEF CInv, ServerType, Sent, Responses, OK, FAIL,
     Response, answer
<1>13. ListInv'
  BY <1>1, <1>3 DEF CInv, ListInv
<1>14. ServerInv'
  BY <1>1, <1>2, <1>3, Shapes DEF CInv, ServerInv, Busy, Writing, OK, IsAnswer, Response
<1>15. ClientInv'
  BY <1>1 DEF CInv, ClientInv, Dead, ClientType
<1>16. FreshInv'
  BY <1>1, <1>4, <1>5 DEF CInv, FreshInv, Fresh
<1>17. RequestInv'
  BY <1>4, RequestsLeft DEF new_client
<1>18. HandInv'
  BY <1>1, Shapes, <1>2 DEF CInv, HandInv, Busy, Fresh, ClientInv,
     RequestInv
<1>19. ConnectedInv'
  BY <1>1, <1>2, <1>4 DEF CInv, ConnectedInv, Alive, Busy, Writing
<1>20. QuitInv'
  BY <1>3, QuittersLeft DEF new_client
<1>21. UnopenedInv'
  BY <1>1, <1>2, <1>3 DEF CInv, UnopenedInv, Dead
<1>22. LoopInv'
  BY <1>1, Shapes, <1>2 DEF CInv, LoopInv, Busy, Writing, Passed, Listed,
     Dead
<1>23. BlockedOnlyOnConnect'
  BY <1>1 DEF CInv, BlockedOnlyOnConnect, ServerInv, Writing, ClientInv
<1>24. AnswerOnItsWay'
  <2> SUFFICES ASSUME NEW c \in Clients, restarts = 0,
                      cpc[c] \in {"open", "opening", "read"}
               PROVE  AnswerDue(c)'
    BY <1>1 DEF AnswerOnItsWay
  <2>1. AnswerDue(c)
    BY <1>2 DEF CInv, AnswerOnItsWay, ServerUp
  <2>2. CASE \E k \in DOMAIN fifo[c] : IsAnswer(fifo[c][k])
    BY <1>1, <2>2 DEF AnswerDue
  <2>3. CASE \E k \in DOMAIN sfifo : sfifo[k].from = c
    <3>1. PICK k \in 1..Len(sfifo) : sfifo[k].from = c
      BY <2>3, Shapes
    <3>2. CASE k = 1
      BY <1>1, <3>1, <3>2 DEF AnswerDue
    <3>3. CASE k # 1
      BY <1>2, <3>1, <3>3 DEF AnswerDue
    <3> QED BY <3>2, <3>3
  <2> QED BY <1>2, <2>1, <2>2, <2>3 DEF AnswerDue
<1> QED
  BY <1>10, <1>11, <1>12, <1>13, <1>14, <1>15, <1>16, <1>17, <1>18, <1>19,
     <1>20, <1>21, <1>22, <1>23, <1>24 DEF CInv

(* ... unless it is there, or there is no room.                              *)
LEMMA NewClientFullStep ==
  ASSUME CInv, new_client /\ ~(sfifo[1].from \notin Listed /\ list_has_room)
  PROVE  CInv'
<1>1. /\ req' = sfifo[1]
      /\ spc' = "open" /\ phase' = "reply" /\ target' = sfifo[1].from /\ resp' = FAIL
      /\ UNCHANGED <<fifo, exists, list, forgotten, restarts, p, msg_success,
                     delivered, cpc, call, dest, text, int_sys_flag, fds, hup,
                     choices>>
  <2>1. Head(sfifo) = sfifo[1]
    BY RequestRead DEF new_client
  <2> QED
    BY <2>1 DEF new_client, read_request, send_sys_response, fifoVars,
       serverVars, listVars, draft, clientVars, answer
<1>2. /\ ~Busy /\ spc = "read" /\ p = 1 /\ Len(sfifo) \in Nat /\ 1 \in 1..Len(sfifo)
      /\ sfifo[1] \in Sent /\ sfifo[1].op = "new_client" /\ sfifo[1].from \in Clients
      /\ sfifo' \in Seq(Sent) /\ Len(sfifo') = Len(sfifo) - 1
      /\ DOMAIN sfifo' = 1..(Len(sfifo) - 1)
      /\ \A k \in 1..(Len(sfifo) - 1) :
           k + 1 \in 1..Len(sfifo) /\ k + 1 # 1 /\ sfifo'[k] = sfifo[k + 1]
      /\ \A k \in 1..Len(sfifo) : k # 1 =>
           k - 1 \in 1..(Len(sfifo) - 1) /\ sfifo'[k - 1] = sfifo[k]
  BY RequestRead DEF new_client
<1>10. ClientType'
  BY <1>1, BoundsAssumption DEF CInv, ClientType, ClientPoints, Calls, Dests
<1>11. FifoType'
  BY <1>1, <1>2 DEF CInv, FifoType
<1>12. ServerType'
  BY <1>1, <1>2, Shapes DEF CInv, ServerType, Sent, Responses, OK, FAIL,
     Response, answer
<1>13. ListInv'
  BY <1>1 DEF CInv, ListInv
<1>14. ServerInv'
  BY <1>1, Shapes, <1>2 DEF CInv, ServerInv, Busy, Writing, Listed, Dead,
     Sent, OK, FAIL, IsAnswer, Response, answer
<1>15. ClientInv'
  BY <1>1 DEF CInv, ClientInv, Dead, ClientType
<1>16. FreshInv'
  BY <1>1 DEF CInv, FreshInv, Fresh, Known, Listed, ClientInv
<1>17. RequestInv'
  BY <1>1, RequestsLeft DEF new_client, Known, Listed
<1>18. HandInv'
  BY <1>1, Shapes, <1>2 DEF CInv, HandInv, Busy, Fresh, ClientInv,
     RequestInv
<1>19. ConnectedInv'
  BY <1>1 DEF CInv, ConnectedInv, Alive, Known, Listed, Busy, Writing,
     ClientInv, FAIL, Response
<1>20. QuitInv'
  BY <1>1, QuittersLeft DEF new_client, Listed
<1>21. UnopenedInv'
  BY <1>1, <1>2 DEF CInv, UnopenedInv, Dead, Listed, ClientInv, FreshInv,
     Fresh, Known
<1>22. LoopInv'
  BY <1>1, Shapes, <1>2 DEF CInv, LoopInv, Busy, Writing, Passed, Listed,
     Dead
<1>23. BlockedOnlyOnConnect'
  BY <1>1 DEF CInv, BlockedOnlyOnConnect, ServerInv, Writing, ClientInv
<1>24. AnswerOnItsWay'
  <2> SUFFICES ASSUME NEW c \in Clients, restarts = 0,
                      cpc[c] \in {"open", "opening", "read"}
               PROVE  AnswerDue(c)'
    BY <1>1 DEF AnswerOnItsWay
  <2>1. AnswerDue(c)
    BY <1>2 DEF CInv, AnswerOnItsWay, ServerUp
  <2>2. CASE \E k \in DOMAIN fifo[c] : IsAnswer(fifo[c][k])
    BY <1>1, <2>2 DEF AnswerDue
  <2>3. CASE \E k \in DOMAIN sfifo : sfifo[k].from = c
    <3>1. PICK k \in 1..Len(sfifo) : sfifo[k].from = c
      BY <2>3, Shapes
    <3>2. CASE k = 1
      BY <1>1, <3>1, <3>2 DEF AnswerDue
    <3>3. CASE k # 1
      BY <1>2, <3>1, <3>3 DEF AnswerDue
    <3> QED BY <3>2, <3>3
  <2> QED BY <1>2, <2>1, <2>2, <2>3 DEF AnswerDue
<1> QED
  BY <1>10, <1>11, <1>12, <1>13, <1>14, <1>15, <1>16, <1>17, <1>18, <1>19,
     <1>20, <1>21, <1>22, <1>23, <1>24 DEF CInv

(* The loop over the list has come to its end.                               *)
LEMMA LoopEndsStep ==
  ASSUME CInv, next_recipient, p > Len(list)
  PROVE  CInv'
<1>1. /\ spc = "global" /\ p > Len(list) /\ spc' = "open" /\ phase' = "reply"
      /\ target' = req.from /\ resp' = answer(msg_success)
      /\ UNCHANGED <<sfifo, fifo, exists, list, forgotten, restarts, req, p,
                     msg_success, delivered, cpc, call, dest, text,
                     int_sys_flag, fds, hup, choices>>
  <2>1. p \in Nat /\ Len(list) \in Nat
    BY Shapes DEF CInv, ServerInv
  <2>2. ~(p <= Len(list))
    BY <2>1
  <2> QED
    BY <2>2 DEF next_recipient, send_sys_response, fifoVars, serverVars, listVars, draft, clientVars
<1>2. p = Len(list) + 1 /\ Len(list) \in Nat /\ p \in Nat
  BY <1>1, Shapes DEF CInv, ServerInv
<1>3. /\ Busy /\ req \in Sent /\ req.from \in Clients /\ req.op = "message"
      /\ req.dest = GLOBAL /\ call[req.from] # "new_client"
  BY <1>1, Shapes DEF CInv, ServerInv, Busy, HandInv
<1>10. ClientType'
  BY <1>1, BoundsAssumption DEF CInv, ClientType, ClientPoints, Calls, Dests
<1>11. FifoType'
  BY <1>1 DEF CInv, FifoType
<1>12. ServerType'
  BY <1>1, <1>3 DEF CInv, ServerType, answer, OK, FAIL, Response, Responses
<1>13. ListInv'
  BY <1>1 DEF CInv, ListInv
<1>14. ServerInv'
  BY <1>1, Shapes, <1>3 DEF CInv, ServerInv, Busy, Writing, Listed, Dead,
     answer, OK, FAIL, Response, IsAnswer
<1>15. ClientInv'
  BY <1>1 DEF CInv, ClientInv, Dead, ClientType
<1>16. FreshInv'
  BY <1>1 DEF CInv, FreshInv, Fresh, Known, Listed, ClientInv
<1>17. RequestInv'
  BY <1>1, Shapes DEF CInv, RequestInv, Fresh, Known, Listed, ClientInv
<1>18. HandInv'
  BY <1>1, Shapes DEF CInv, HandInv, Busy, Fresh, ClientInv
<1>19. ConnectedInv'
  BY <1>1, <1>3 DEF CInv, ConnectedInv, Alive, Known, Listed, Busy, Writing,
     ClientInv
<1>20. QuitInv'
  BY <1>1 DEF CInv, QuitInv, ServerUp, Listed
<1>21. UnopenedInv'
  BY <1>1 DEF CInv, UnopenedInv, Dead, Listed, ClientInv, FreshInv, Fresh,
     Known
<1>22. LoopInv'
  <2>1. Passed = Len(list)
    BY <1>1, <1>2 DEF Passed, Writing
  <2>2. /\ req.from \notin delivered
        /\ \A k \in 1..Len(list) :
             list[k] \in delivered \cup {req.from} \/ Dead(list[k])
        /\ msg_success => delivered = Listed \ {req.from}
    BY <1>1, <1>3, <2>1, Shapes DEF CInv, LoopInv
  <2>3. \A c \in Listed : c \in delivered \cup {req.from} \/ Dead(c)
    BY <2>2, Shapes
  <2>4. resp' = OK => msg_success
    BY <1>1 DEF answer, OK, FAIL, Response
  <2> QED BY <1>1, <2>2, <2>3, <2>4 DEF LoopInv, Busy, Dead, Listed
<1>23. BlockedOnlyOnConnect'
  BY <1>1 DEF CInv, BlockedOnlyOnConnect, ServerInv, Writing, ClientInv
<1>24. AnswerOnItsWay'
  BY <1>1 DEF CInv, AnswerOnItsWay, AnswerDue, ServerUp
<1> QED
  BY <1>10, <1>11, <1>12, <1>13, <1>14, <1>15, <1>16, <1>17, <1>18, <1>19,
     <1>20, <1>21, <1>22, <1>23, <1>24 DEF CInv

(* The sender does not get its own message.                                  *)
LEMMA LoopSkipsStep ==
  ASSUME CInv, next_recipient, p <= Len(list), is_sender(list[p])
  PROVE  CInv'
<1>1. /\ spc = "global" /\ p <= Len(list) /\ list[p] = req.from
      /\ p' = p + 1
      /\ UNCHANGED <<sfifo, fifo, exists, list, forgotten, restarts, spc, req,
                     target, resp, phase, msg_success, delivered, cpc, call,
                     dest, text, int_sys_flag, fds, hup, choices>>
  <2>1. p \in Nat /\ Len(list) \in Nat
    BY Shapes DEF CInv, ServerInv
  <2>2. ~(p > Len(list))
    BY <2>1
  <2> QED
    BY <2>2 DEF next_recipient, is_sender, fifoVars, serverVars, listVars, draft, clientVars
<1>2. p \in 1..Len(list) /\ Len(list) \in Nat /\ Len(list) <= MAX_NUM_CLIENTS
  BY <1>1, Shapes DEF CInv, ServerInv, ListInv
<1>10. ClientType'
  BY <1>1, BoundsAssumption DEF CInv, ClientType, ClientPoints, Calls, Dests
<1>11. FifoType'
  BY <1>1 DEF CInv, FifoType
<1>12. ServerType'
  BY <1>1, <1>2, BoundsAssumption DEF CInv, ServerType
<1>13. ListInv'
  BY <1>1 DEF CInv, ListInv
<1>14. ServerInv'
  BY <1>1, Shapes, <1>2 DEF CInv, ServerInv, Busy, Writing, Listed, Dead
<1>15. ClientInv'
  BY <1>1 DEF CInv, ClientInv, Dead, ClientType
<1>16. FreshInv'
  BY <1>1 DEF CInv, FreshInv, Fresh, Known, Listed, ClientInv
<1>17. RequestInv'
  BY <1>1, Shapes DEF CInv, RequestInv, Fresh, Known, Listed, ClientInv
<1>18. HandInv'
  BY <1>1, Shapes DEF CInv, HandInv, Busy, Fresh, ClientInv
<1>19. ConnectedInv'
  BY <1>1 DEF CInv, ConnectedInv, Alive, Known, Listed, Busy, Writing,
     ClientInv
<1>20. QuitInv'
  BY <1>1 DEF CInv, QuitInv, ServerUp, Listed
<1>21. UnopenedInv'
  BY <1>1 DEF CInv, UnopenedInv, Dead, Listed, ClientInv, FreshInv, Fresh,
     Known
<1>22. LoopInv'
  <2>1. Passed = p - 1 /\ Passed' = p
    BY <1>1, <1>2 DEF Passed, Writing
  <2>2. \A k \in 1..p : k \in 1..(p - 1) \/ k = p
    BY <1>2
  <2>3. \A k \in 1..(p - 1) : k \in 1..p
    BY <1>2
  <2>4. {list[k] : k \in 1..(p - 1)} \ {req.from} = {list[k] : k \in 1..p} \ {req.from}
    BY <1>1, <2>2, <2>3
  <2>5. Busy /\ req.op = "message" /\ req.dest = GLOBAL
    BY <1>1 DEF CInv, ServerInv, Busy
  <2>6. /\ req.from \notin delivered
        /\ \A k \in 1..(p - 1) : list[k] \in delivered \cup {req.from} \/ Dead(list[k])
        /\ msg_success => delivered = {list[k] : k \in 1..(p - 1)} \ {req.from}
    BY <1>1, <2>1, <2>5 DEF CInv, LoopInv
  <2>7. \A k \in 1..p : list[k] \in delivered \cup {req.from} \/ Dead(list[k])
    BY <1>1, <2>2, <2>6
  <2> QED BY <1>1, <2>1, <2>4, <2>6, <2>7 DEF LoopInv, Dead
<1>23. BlockedOnlyOnConnect'
  BY <1>1 DEF CInv, BlockedOnlyOnConnect, ServerInv, Writing, ClientInv
<1>24. AnswerOnItsWay'
  BY <1>1 DEF CInv, AnswerOnItsWay, AnswerDue, ServerUp
<1> QED
  BY <1>10, <1>11, <1>12, <1>13, <1>14, <1>15, <1>16, <1>17, <1>18, <1>19,
     <1>20, <1>21, <1>22, <1>23, <1>24 DEF CInv

(* The next client in the list gets the message.                             *)
LEMMA LoopServesStep ==
  ASSUME CInv, next_recipient, p <= Len(list), ~is_sender(list[p])
  PROVE  CInv'
<1>1. /\ spc = "global" /\ p <= Len(list) /\ list[p] # req.from
      /\ spc' = "open" /\ phase' = "global" /\ target' = list[p]
      /\ resp' = Response("message", req.text)
      /\ UNCHANGED <<sfifo, fifo, exists, list, forgotten, restarts, req, p,
                     msg_success, delivered, cpc, call, dest, text,
                     int_sys_flag, fds, hup, choices>>
  <2>1. p \in Nat /\ Len(list) \in Nat
    BY Shapes DEF CInv, ServerInv
  <2>2. ~(p > Len(list))
    BY <2>1
  <2> QED
    BY <2>2 DEF next_recipient, is_sender, fifoVars, serverVars, listVars, draft, clientVars
<1>2. p \in 1..Len(list) /\ list[p] \in Clients /\ list[p] \in Listed
  BY <1>1, Shapes DEF CInv, ServerInv
<1>3. /\ Busy /\ req \in Sent /\ req.op = "message" /\ req.dest = GLOBAL
  BY <1>1 DEF CInv, ServerInv, Busy
<1>10. ClientType'
  BY <1>1, BoundsAssumption DEF CInv, ClientType, ClientPoints, Calls, Dests
<1>11. FifoType'
  BY <1>1 DEF CInv, FifoType
<1>12. ServerType'
  BY <1>1, <1>2, <1>3 DEF CInv, ServerType, Response, Responses, Sent
<1>13. ListInv'
  BY <1>1 DEF CInv, ListInv
<1>14. ServerInv'
  BY <1>1, Shapes, <1>2, <1>3 DEF CInv, ServerInv, Busy, Writing, Listed,
     Dead
<1>15. ClientInv'
  BY <1>1 DEF CInv, ClientInv, Dead, ClientType
<1>16. FreshInv'
  BY <1>1 DEF CInv, FreshInv, Fresh, Known, Listed, ClientInv
<1>17. RequestInv'
  BY <1>1, Shapes DEF CInv, RequestInv, Fresh, Known, Listed, ClientInv
<1>18. HandInv'
  BY <1>1, Shapes DEF CInv, HandInv, Busy, Fresh, ClientInv
<1>19. ConnectedInv'
  BY <1>1, <1>2 DEF CInv, ConnectedInv, Alive, Known, Listed, Busy, Writing,
     ClientInv
<1>20. QuitInv'
  BY <1>1 DEF CInv, QuitInv, ServerUp, Listed
<1>21. UnopenedInv'
  BY <1>1 DEF CInv, UnopenedInv, Dead, Listed, ClientInv, FreshInv, Fresh,
     Known
<1>22. LoopInv'
  <2>1. Passed' = Passed
    BY <1>1 DEF Passed, Writing
  <2> QED BY <1>1, <1>3, <2>1 DEF CInv, LoopInv, Dead
<1>23. BlockedOnlyOnConnect'
  BY <1>1 DEF CInv, BlockedOnlyOnConnect, ServerInv, Writing, ClientInv
<1>24. AnswerOnItsWay'
  BY <1>1 DEF CInv, AnswerOnItsWay, AnswerDue, ServerUp
<1> QED
  BY <1>10, <1>11, <1>12, <1>13, <1>14, <1>15, <1>16, <1>17, <1>18, <1>19,
     <1>20, <1>21, <1>22, <1>23, <1>24 DEF CInv

(* The client to be answered has removed its FIFO.                           *)
LEMMA AnswerLostStep ==
  ASSUME CInv, open_fails, phase = "reply"
  PROVE  CInv'
<1>1. /\ spc = "open" /\ ~exists[target] /\ phase = "reply"
      /\ spc' = "read" /\ req' = NoRequest /\ target' = Nobody
      /\ resp' = OK /\ phase' = "reply" /\ p' = 1
      /\ msg_success' = FALSE /\ delivered' = {}
      /\ UNCHANGED <<sfifo, fifo, exists, list, forgotten, restarts, cpc, call,
                     dest, text, int_sys_flag, fds, hup, choices>>
  BY DEF open_fails, next_request, fifoVars, serverVars, listVars, draft,
     clientVars
<1>2. /\ target \in Clients /\ Busy /\ Writing
  BY <1>1 DEF CInv, ServerInv, Busy, Writing
<1>3. cpc[target] \in {"unlinked", "gone", "killed"}
  <2>1. cpc[target] \in {"off", "unlinked", "gone", "killed"}
    BY <1>1, <1>2 DEF CInv, ClientInv
  <2>2. cpc[target] # "off"
    BY <1>2, FreshNotTarget DEF Fresh
  <2> QED BY <2>1, <2>2
<1>10. ClientType'
  BY <1>1, BoundsAssumption DEF CInv, ClientType, ClientPoints, Calls, Dests
<1>11. FifoType'
  BY <1>1 DEF CInv, FifoType
<1>12. ServerType'
  <2>1. 1 \in 1..(MAX_NUM_CLIENTS + 1)
    BY BoundsAssumption
  <2>2. forgotten' \subseteq Clients /\ restarts' \in 0..MaxRestarts
    BY <1>1, Shapes DEF CInv, ServerType
  <2>3. req' \in Requests /\ resp' \in Responses /\ target' \in Clients \cup {Nobody}
    BY <1>1, NoValues
  <2>4. /\ spc' \in {"read", "global", "open", "opening", "write", "close", "stopped"}
        /\ phase' \in {"reply", "direct", "global"} /\ msg_success' \in BOOLEAN
        /\ delivered' \subseteq Clients /\ p' = 1
    BY <1>1
  <2> QED BY <2>1, <2>2, <2>3, <2>4 DEF ServerType
<1>13. ListInv'
  BY <1>1 DEF CInv, ListInv
<1>14. ServerInv'
  BY <1>1, Shapes DEF ServerInv, Busy, Writing
<1>15. ClientInv'
  BY <1>1 DEF CInv, ClientInv, Dead, ClientType
<1>16. FreshInv'
  BY <1>1 DEF CInv, FreshInv, Fresh, Known, Listed, ClientInv
<1>17. RequestInv'
  BY <1>1, Shapes DEF CInv, RequestInv, Fresh, Known, Listed, ClientInv
<1>18. HandInv'
  BY <1>1, Shapes DEF CInv, HandInv, Busy, Fresh, ClientInv
<1>19. ConnectedInv'
  BY <1>1 DEF CInv, ConnectedInv, Alive, Known, Listed, Busy, Writing,
     ClientInv
<1>20. QuitInv'
  BY <1>1 DEF CInv, QuitInv, ServerUp, Listed
<1>21. UnopenedInv'
  BY <1>1, <1>2, <1>3 DEF CInv, UnopenedInv, Dead, Listed, ClientInv,
     FreshInv, Fresh, Known
<1>22. LoopInv'
  BY <1>1, Shapes DEF CInv, LoopInv, Busy, Writing, Passed, Listed, Dead
<1>23. BlockedOnlyOnConnect'
  BY <1>1 DEF CInv, BlockedOnlyOnConnect, ServerInv, Writing, ClientInv
<1>24. AnswerOnItsWay'
  BY <1>1, <1>2, <1>3 DEF CInv, AnswerOnItsWay, AnswerDue, ServerUp, ServerInv
<1> QED
  BY <1>10, <1>11, <1>12, <1>13, <1>14, <1>15, <1>16, <1>17, <1>18, <1>19,
     <1>20, <1>21, <1>22, <1>23, <1>24 DEF CInv

(* The client to be written to has removed its FIFO.                         *)
LEMMA DirectLostStep ==
  ASSUME CInv, open_fails, phase = "direct"
  PROVE  CInv'
<1>1. /\ spc = "open" /\ phase = "direct"
      /\ msg_success' = FALSE /\ spc' = "open" /\ phase' = "reply"
      /\ target' = req.from /\ resp' = FAIL
      /\ UNCHANGED <<sfifo, fifo, exists, list, forgotten, restarts, req, p,
                     delivered, cpc, call, dest, text, int_sys_flag, fds, hup,
                     choices>>
  BY DEF open_fails, sent_direct, send_sys_response, answer, fifoVars,
     serverVars, listVars, draft, clientVars
<1>2. /\ Busy /\ req \in Sent /\ req.from \in Clients /\ req.op = "message"
      /\ req.dest # GLOBAL /\ call[req.from] # "new_client"
  BY <1>1, Shapes DEF CInv, ServerInv, Busy, Writing, HandInv
<1>10. ClientType'
  BY <1>1, BoundsAssumption DEF CInv, ClientType, ClientPoints, Calls, Dests
<1>11. FifoType'
  BY <1>1 DEF CInv, FifoType
<1>12. ServerType'
  BY <1>1, <1>2 DEF CInv, ServerType, OK, FAIL, Response, Responses
<1>13. ListInv'
  BY <1>1 DEF CInv, ListInv
<1>14. ServerInv'
  BY <1>1, Shapes, <1>2 DEF CInv, ServerInv, Busy, Writing, Listed, Dead,
     OK, FAIL, Response, IsAnswer
<1>15. ClientInv'
  BY <1>1 DEF CInv, ClientInv, Dead, ClientType
<1>16. FreshInv'
  BY <1>1 DEF CInv, FreshInv, Fresh, Known, Listed, ClientInv
<1>17. RequestInv'
  BY <1>1, Shapes DEF CInv, RequestInv, Fresh, Known, Listed, ClientInv
<1>18. HandInv'
  BY <1>1, Shapes DEF CInv, HandInv, Busy, Fresh, ClientInv
<1>19. ConnectedInv'
  BY <1>1, <1>2 DEF CInv, ConnectedInv, Alive, Known, Listed, Busy, Writing,
     ClientInv
<1>20. QuitInv'
  BY <1>1 DEF CInv, QuitInv, ServerUp, Listed
<1>21. UnopenedInv'
  BY <1>1 DEF CInv, UnopenedInv, Dead, Listed, ClientInv, FreshInv, Fresh,
     Known
<1>22. LoopInv'
  BY <1>1, Shapes, <1>2 DEF CInv, LoopInv, Busy, Writing, Passed, Listed,
     Dead
<1>23. BlockedOnlyOnConnect'
  BY <1>1 DEF CInv, BlockedOnlyOnConnect, ServerInv, Writing, ClientInv
<1>24. AnswerOnItsWay'
  BY <1>1 DEF CInv, AnswerOnItsWay, AnswerDue, ServerUp
<1> QED
  BY <1>10, <1>11, <1>12, <1>13, <1>14, <1>15, <1>16, <1>17, <1>18, <1>19,
     <1>20, <1>21, <1>22, <1>23, <1>24 DEF CInv

(* ... and a global message takes it off the list.                           *)
LEMMA RemovedStep ==
  ASSUME CInv, open_fails, phase = "global"
  PROVE  CInv'
<1>1. /\ spc = "open" /\ ~exists[target] /\ phase = "global"
      /\ spc' = "global" /\ list' = client_remove(target) /\ msg_success' = FALSE
      /\ UNCHANGED <<sfifo, fifo, exists, forgotten, restarts, req, target,
                     resp, phase, p, delivered, cpc, call, dest, text,
                     int_sys_flag, fds, hup, choices>>
  BY DEF open_fails, next_node, fifoVars, serverVars, listVars, draft,
     clientVars
<1>2. /\ target \in Clients /\ Busy /\ Writing
  BY <1>1 DEF CInv, ServerInv, Busy, Writing
<1>3. cpc[target] \in {"unlinked", "gone", "killed"}
  <2>1. cpc[target] \in {"off", "unlinked", "gone", "killed"}
    BY <1>1, <1>2 DEF CInv, ClientInv
  <2>2. cpc[target] # "off"
    BY <1>2, FreshNotTarget DEF Fresh
  <2> QED BY <2>1, <2>2
<1>4. /\ list' \in Seq(Clients) /\ Len(list') \in Nat /\ Len(list') <= Len(list)
      /\ \A k, m \in 1..Len(list') : list'[k] = list'[m] => k = m
      /\ Listed' = Listed \ {target}
      /\ \A k \in 1..Len(list) : list[k] = target =>
           /\ Len(list') = Len(list) - 1
           /\ \A m \in 1..(k - 1) : list'[m] = list[m]
  BY <1>1, <1>2, ListRemoved
<1>5. /\ p \in 1..Len(list) /\ list[p] = target /\ Len(list) \in Nat
      /\ req.op = "message" /\ req.dest = GLOBAL
  BY <1>1, <1>2, Shapes DEF CInv, ServerInv
<1>6. Len(list') = Len(list) - 1 /\ \A m \in 1..(p - 1) : list'[m] = list[m]
  BY <1>4, <1>5
<1>7. \A d \in Clients :
        /\ Known(d)' => Known(d)
        /\ d # target => (Known(d)' <=> Known(d))
  BY <1>1, <1>4 DEF Known
<1>10. ClientType'
  BY <1>1, BoundsAssumption DEF CInv, ClientType, ClientPoints, Calls, Dests
<1>11. FifoType'
  BY <1>1 DEF CInv, FifoType
<1>12. ServerType'
  BY <1>1 DEF CInv, ServerType
<1>13. ListInv'
  BY <1>1, <1>4, <1>6, Shapes, BoundsAssumption DEF CInv, ListInv
<1>14. ServerInv'
  BY <1>1, <1>2, <1>5, <1>6 DEF CInv, ServerInv, Busy, Writing
<1>15. ClientInv'
  BY <1>1 DEF CInv, ClientInv, Dead, ClientType
<1>16. FreshInv'
  BY <1>1, <1>7 DEF CInv, FreshInv, Fresh
<1>17. RequestInv'
  <2>1. \A k \in 1..Len(sfifo) :
          (~Fresh(sfifo[k].from))' /\ (~Known(sfifo[k].from) => (~Known(sfifo[k].from))')
    BY <1>1, <1>4, Shapes DEF CInv, RequestInv, Fresh, Known
  <2> QED BY <1>1, <2>1 DEF CInv, RequestInv
<1>18. HandInv'
  BY <1>1, Shapes DEF CInv, HandInv, Busy, Fresh, ClientInv
<1>19. ConnectedInv'
  BY <1>1, <1>3, <1>7 DEF CInv, ConnectedInv, Alive, Writing
<1>20. QuitInv'
  BY <1>1, <1>4 DEF CInv, QuitInv, ServerUp
<1>21. UnopenedInv'
  BY <1>1, <1>4 DEF CInv, UnopenedInv, Dead
<1>22. LoopInv'
  <2>1. Passed = p - 1 /\ Passed' = p - 1
    BY <1>1 DEF Passed, Writing
  <2>2. /\ req.from \notin delivered
        /\ \A k \in 1..(p - 1) : list[k] \in delivered \cup {req.from} \/ Dead(list[k])
    BY <1>1, <1>2, <1>5, <2>1 DEF CInv, LoopInv
  <2> QED BY <1>1, <1>6, <2>1, <2>2 DEF LoopInv, Dead
<1>23. BlockedOnlyOnConnect'
  BY <1>1 DEF CInv, BlockedOnlyOnConnect, ServerInv, Writing, ClientInv
<1>24. AnswerOnItsWay'
  BY <1>1 DEF CInv, AnswerOnItsWay, AnswerDue, ServerUp
<1> QED
  BY <1>10, <1>11, <1>12, <1>13, <1>14, <1>15, <1>16, <1>17, <1>18, <1>19,
     <1>20, <1>21, <1>22, <1>23, <1>24 DEF CInv

(* The server ends.                                                          *)
LEMMA StopStep ==
  ASSUME CInv, stop
  PROVE  CInv'
<1>1. PICK S :
        /\ S \in SUBSET {c \in Clients : cpc[c] = "request"}
        /\ cpc' = [c \in Clients |-> IF c \in S THEN "killed" ELSE cpc[c]]
        /\ fds' = [c \in Clients |-> fds[c] /\ c \notin S]
        /\ fifo' = [c \in Clients |-> IF c \in S THEN <<>> ELSE fifo[c]]
        /\ dest' = [c \in Clients |-> IF c \in S THEN Nobody ELSE dest[c]]
        /\ text' = [c \in Clients |-> IF c \in S THEN NoText ELSE text[c]]
        /\ hup' = [c \in Clients |-> hup[c] /\ c \notin S]
        /\ spc' = "stopped" /\ req' = NoRequest /\ list' = <<>>
        /\ forgotten' = forgotten \cup Listed /\ target' = Nobody /\ resp' = OK
        /\ phase' = "reply" /\ p' = 1 /\ msg_success' = FALSE /\ delivered' = {}
        /\ UNCHANGED <<sfifo, exists, restarts, call, int_sys_flag, choices>>
  BY DEF stop, die, fifoVars, serverVars, listVars, draft, clientVars
<1>2. \A d \in Clients :
        /\ cpc'[d] = IF d \in S THEN "killed" ELSE cpc[d]
        /\ fds'[d] = (fds[d] /\ d \notin S)
        /\ fifo'[d] = IF d \in S THEN <<>> ELSE fifo[d]
        /\ text'[d] = IF d \in S THEN NoText ELSE text[d]
        /\ call'[d] = call[d] /\ exists'[d] = exists[d]
        /\ int_sys_flag'[d] = int_sys_flag[d]
  BY <1>1
<1>3. Listed' = {} /\ \A d \in Clients : Known(d)' <=> Known(d)
  <2>1. DOMAIN <<>> = {}
    BY EmptySeq, LenProperties
  <2>2. Listed' = {}
    BY <1>1, <2>1 DEF Listed, ToSet
  <2> QED BY <1>1, <2>2 DEF Known
<1>4. Len(list') = 0 /\ list' \in Seq(Clients) /\ 1..Len(list') = {}
  <2>1. list' = <<>> /\ <<>> \in Seq(Clients) /\ Len(<<>>) = 0
    BY <1>1, EmptySeq
  <2> QED BY <2>1
<1>5. \A d \in Clients : Fresh(d)' => Fresh(d)
  BY <1>1, <1>2 DEF Fresh
<1>6. <<>> \in Seq(Responses) /\ Len(<<>>) = 0
  BY EmptySeq
<1>10. ClientType'
  BY <1>1, BoundsAssumption DEF CInv, ClientType, ClientPoints, Calls, Dests
<1>11. FifoType'
  BY <1>1, <1>2, <1>6, BoundsAssumption DEF CInv, FifoType
<1>12. ServerType'
  <2>1. 1 \in 1..(MAX_NUM_CLIENTS + 1)
    BY BoundsAssumption
  <2>2. forgotten' \subseteq Clients /\ restarts' \in 0..MaxRestarts
    BY <1>1, Shapes DEF CInv, ServerType
  <2>3. req' \in Requests /\ resp' \in Responses /\ target' \in Clients \cup {Nobody}
    BY <1>1, NoValues
  <2>4. /\ spc' \in {"read", "global", "open", "opening", "write", "close", "stopped"}
        /\ phase' \in {"reply", "direct", "global"} /\ msg_success' \in BOOLEAN
        /\ delivered' \subseteq Clients /\ p' = 1
    BY <1>1
  <2> QED BY <2>1, <2>2, <2>3, <2>4 DEF ServerType
<1>13. ListInv'
  BY <1>1, <1>4, BoundsAssumption DEF CInv, ListInv
<1>14. ServerInv'
  BY <1>1, <1>4 DEF ServerInv, Busy, Writing
<1>15. ClientInv'
  BY <1>1, <1>2 DEF CInv, ClientInv, Dead, ClientType
<1>16. FreshInv'
  BY <1>2, <1>3, <1>5 DEF CInv, FreshInv
<1>17. RequestInv'
  <2>1. \A k \in 1..Len(sfifo) : (~Known(sfifo[k].from) => (~Known(sfifo[k].from))')
    BY <1>1, <1>3, Shapes DEF Known
  <2>2. \A k \in 1..Len(sfifo) : (~Fresh(sfifo[k].from))'
    BY <1>1, <1>2, Shapes DEF CInv, RequestInv, Fresh
  <2>3. \A k \in 1..Len(sfifo) :
          fifo[sfifo[k].from] = <<>> => fifo'[sfifo[k].from] = <<>>
    BY <1>2, Shapes
  <2> QED BY <1>1, <2>1, <2>2, <2>3 DEF CInv, RequestInv
<1>18. HandInv'
  BY <1>1, Shapes DEF CInv, HandInv, Busy, Fresh, ClientInv
<1>19. ConnectedInv'
  BY <1>1, <1>2, <1>3 DEF CInv, ConnectedInv, Alive, Busy
<1>20. QuitInv'
  BY <1>1 DEF CInv, QuitInv, ServerUp, Listed
<1>21. UnopenedInv'
  BY <1>3 DEF UnopenedInv
<1>22. LoopInv'
  BY <1>1, Shapes DEF CInv, LoopInv, Busy, Writing, Passed, Listed, Dead
<1>23. BlockedOnlyOnConnect'
  BY <1>1 DEF CInv, BlockedOnlyOnConnect, ServerInv, Writing, ClientInv
<1>24. AnswerOnItsWay'
  BY <1>1 DEF CInv, AnswerOnItsWay, AnswerDue, ServerUp
<1> QED
  BY <1>10, <1>11, <1>12, <1>13, <1>14, <1>15, <1>16, <1>17, <1>18, <1>19,
     <1>20, <1>21, <1>22, <1>23, <1>24 DEF CInv

(* The server is started again while somebody has its FIFO open.             *)
LEMMA RestartStep ==
  ASSUME CInv, restart_server, sfifo' = sfifo
  PROVE  CInv'
<1>1. /\ spc = "stopped" /\ restarts < MaxRestarts
      /\ spc' = "read" /\ restarts' = restarts + 1
      /\ UNCHANGED <<sfifo, fifo, exists, list, forgotten, req, target, resp,
                     phase, p, msg_success, delivered, cpc, call, dest, text,
                     int_sys_flag, fds, hup, choices>>
  BY DEF restart_server, ServerUp, fifoVars, serverVars, listVars, draft,
     clientVars
<1>2. list = <<>> /\ Listed = {}
  <2>1. list = <<>> /\ DOMAIN <<>> = {}
    BY <1>1, EmptySeq, LenProperties DEF CInv, ListInv
  <2> QED BY <2>1 DEF Listed, ToSet
<1>3. restarts' # 0 /\ restarts' \in 0..MaxRestarts
  BY <1>1, BoundsAssumption DEF CInv, ServerType
<1>10. ClientType'
  BY <1>1, BoundsAssumption DEF CInv, ClientType, ClientPoints, Calls, Dests
<1>11. FifoType'
  BY <1>1 DEF CInv, FifoType
<1>12. ServerType'
  BY <1>1, <1>3 DEF CInv, ServerType
<1>13. ListInv'
  BY <1>1 DEF CInv, ListInv
<1>14. ServerInv'
  BY <1>1, Shapes DEF CInv, ServerInv, Busy, Writing, Listed, Dead
<1>15. ClientInv'
  BY <1>1 DEF CInv, ClientInv, Dead, ClientType
<1>16. FreshInv'
  BY <1>1 DEF CInv, FreshInv, Fresh, Known, Listed, ClientInv
<1>17. RequestInv'
  BY <1>1, Shapes DEF CInv, RequestInv, Fresh, Known, Listed, ClientInv
<1>18. HandInv'
  BY <1>1, Shapes DEF CInv, HandInv, Busy, Fresh, ClientInv
<1>19. ConnectedInv'
  BY <1>1 DEF CInv, ConnectedInv, Alive, Known, Listed, Busy, Writing,
     ClientInv
<1>20. QuitInv'
  BY <1>1, <1>2 DEF QuitInv, Listed
<1>21. UnopenedInv'
  BY <1>1, <1>2 DEF UnopenedInv, Listed
<1>22. LoopInv'
  BY <1>1, Shapes DEF CInv, LoopInv, Busy, Writing, Passed, Listed, Dead
<1>23. BlockedOnlyOnConnect'
  BY <1>1 DEF CInv, BlockedOnlyOnConnect, ServerInv, Writing, ClientInv
<1>24. AnswerOnItsWay'
  BY <1>3 DEF AnswerOnItsWay
<1> QED
  BY <1>10, <1>11, <1>12, <1>13, <1>14, <1>15, <1>16, <1>17, <1>18, <1>19,
     <1>20, <1>21, <1>22, <1>23, <1>24 DEF CInv

(* ... or while nobody has.                                                  *)
LEMMA RestartEmptyStep ==
  ASSUME CInv, restart_server, sfifo' = <<>>
  PROVE  CInv'
<1>1. /\ spc = "stopped" /\ restarts < MaxRestarts
      /\ spc' = "read" /\ restarts' = restarts + 1
      /\ sfifo' = <<>>
      /\ UNCHANGED <<fifo, exists, list, forgotten, req, target, resp, phase,
                     p, msg_success, delivered, cpc, call, dest, text,
                     int_sys_flag, fds, hup, choices>>
  BY DEF restart_server, ServerUp, fifoVars, serverVars, listVars, draft,
     clientVars
<1>2. list = <<>> /\ Listed = {}
  <2>1. list = <<>> /\ DOMAIN <<>> = {}
    BY <1>1, EmptySeq, LenProperties DEF CInv, ListInv
  <2> QED BY <2>1 DEF Listed, ToSet
<1>3. restarts' # 0 /\ restarts' \in 0..MaxRestarts
  BY <1>1, BoundsAssumption DEF CInv, ServerType
<1>4. sfifo' \in Seq(Sent) /\ Len(sfifo') = 0 /\ 1..Len(sfifo') = {}
  <2>1. sfifo' = <<>> /\ <<>> \in Seq(Sent) /\ Len(<<>>) = 0
    BY <1>1, EmptySeq
  <2> QED BY <2>1
<1>10. ClientType'
  BY <1>1, BoundsAssumption DEF CInv, ClientType, ClientPoints, Calls, Dests
<1>11. FifoType'
  BY <1>1, <1>4 DEF CInv, FifoType
<1>12. ServerType'
  BY <1>1, <1>3 DEF CInv, ServerType
<1>13. ListInv'
  BY <1>1 DEF CInv, ListInv
<1>14. ServerInv'
  BY <1>1, Shapes DEF CInv, ServerInv, Busy, Writing, Listed, Dead
<1>15. ClientInv'
  BY <1>1 DEF CInv, ClientInv, Dead, ClientType
<1>16. FreshInv'
  BY <1>1 DEF CInv, FreshInv, Fresh, Known, Listed, ClientInv
<1>17. RequestInv'
  BY <1>4 DEF RequestInv
<1>18. HandInv'
  BY <1>1, Shapes DEF CInv, HandInv, Busy, Fresh, ClientInv
<1>19. ConnectedInv'
  BY <1>1 DEF CInv, ConnectedInv, Alive, Known, Listed, Busy, Writing,
     ClientInv
<1>20. QuitInv'
  BY <1>1, <1>2 DEF QuitInv, Listed
<1>21. UnopenedInv'
  BY <1>1, <1>2 DEF UnopenedInv, Listed
<1>22. LoopInv'
  BY <1>1, Shapes DEF CInv, LoopInv, Busy, Writing, Passed, Listed, Dead
<1>23. BlockedOnlyOnConnect'
  BY <1>1 DEF CInv, BlockedOnlyOnConnect, ServerInv, Writing, ClientInv
<1>24. AnswerOnItsWay'
  BY <1>3 DEF AnswerOnItsWay
<1> QED
  BY <1>10, <1>11, <1>12, <1>13, <1>14, <1>15, <1>16, <1>17, <1>18, <1>19,
     <1>20, <1>21, <1>22, <1>23, <1>24 DEF CInv

(* The server opens the FIFO, or waits for a reader.                         *)
LEMMA OpenStep ==
  ASSUME CInv, open_client_fifo
  PROVE  CInv'
<1>1. /\ spc = "open" /\ exists[target]
      /\ spc' = IF HasReader(target) THEN "write" ELSE "opening"
      /\ hup' = [hup EXCEPT ![target] =
                     cpc[target] \in {"reading", "reading_first"}]
      /\ \/ /\ cpc[target] = "opening" /\ cpc' = [cpc EXCEPT ![target] = "read"]
            /\ fds' = [fds EXCEPT ![target] = TRUE]
         \/ cpc[target] # "opening" /\ UNCHANGED <<cpc, fds>>
      /\ UNCHANGED <<sfifo, fifo, exists, list, forgotten, restarts, req,
                     target, resp, phase, p, msg_success, delivered, call,
                     dest, text, int_sys_flag, choices>>
  BY DEF open_client_fifo, fifoVars, serverVars, listVars, draft, clientVars
<1>2. /\ target \in Clients /\ Busy /\ Writing
  BY <1>1 DEF CInv, ServerInv, Busy, Writing
<1>3. \A d \in Clients :
        /\ cpc'[d] = IF d = target /\ cpc[target] = "opening" THEN "read" ELSE cpc[d]
        /\ fds'[d] = IF d = target /\ cpc[target] = "opening" THEN TRUE ELSE fds[d]
  BY <1>1, <1>2 DEF CInv, ClientType
<1>4. spc' = "write" => fds'[target]
  BY <1>1, <1>2, <1>3 DEF HasReader
<1>5. spc' \in {"write", "opening"} /\ Passed' = Passed /\ Listed' = Listed
  BY <1>1 DEF Passed, Writing, Listed
<1>6. \A d \in Clients : (Fresh(d)' <=> Fresh(d)) /\ (Dead(d)' <=> Dead(d))
  BY <1>1, <1>3 DEF Fresh, Dead
<1>10. ClientType'
  <2>1. (cpc[target] \in {"reading", "reading_first"}) \in BOOLEAN
    OBVIOUS
  <2>2. hup' \in [Clients -> BOOLEAN]
    BY <1>1, <2>1 DEF CInv, ClientType
  <2>3. cpc' \in [Clients -> ClientPoints] /\ fds' \in [Clients -> BOOLEAN]
    BY <1>1 DEF CInv, ClientType, ClientPoints
  <2> QED BY <1>1, <2>2, <2>3 DEF CInv, ClientType
<1>11. FifoType'
  BY <1>1 DEF CInv, FifoType
<1>12. ServerType'
  BY <1>1, <1>5 DEF CInv, ServerType
<1>13. ListInv'
  BY <1>1, <1>5 DEF CInv, ListInv
<1>14. ServerInv'
  BY <1>1, Shapes, <1>2, <1>4, <1>5 DEF CInv, ServerInv, Busy, Writing,
     Listed, Dead
<1>15. ClientInv'
  BY <1>1, <1>2, <1>3 DEF CInv, ClientInv, Dead, ClientType
<1>16. FreshInv'
  BY <1>1, <1>5, <1>6 DEF CInv, FreshInv, Known
<1>17. RequestInv'
  <2>1. \A k \in 1..Len(sfifo) : (~Fresh(sfifo[k].from))'
    BY <1>1, <1>3, Shapes DEF CInv, RequestInv, Fresh
  <2>2. \A k \in 1..Len(sfifo) : (~Known(sfifo[k].from) => (~Known(sfifo[k].from))')
    BY <1>1, <1>5 DEF Known
  <2> QED BY <1>1, <2>1, <2>2 DEF CInv, RequestInv
<1>18. HandInv'
  BY <1>1, <1>2, <1>3, Shapes DEF CInv, HandInv, Fresh
<1>19. ConnectedInv'
  <2>1. \A d \in Clients : Known(d)' <=> Known(d)
    BY <1>1, <1>5 DEF Known
  <2> QED BY <1>1, <1>2, <1>3, <1>5, <2>1 DEF CInv, ConnectedInv, Alive, Writing
<1>20. QuitInv'
  BY <1>1, <1>3, <1>5 DEF CInv, QuitInv, ServerUp
<1>21. UnopenedInv'
  BY <1>1, <1>3, <1>4, <1>5 DEF CInv, UnopenedInv, Dead
<1>22. LoopInv'
  <2>1. Passed \in 0..Len(list) \/ phase # "global"
    BY <1>1, <1>2, Shapes DEF CInv, ServerInv, Passed
  <2>2. \A k \in 1..Len(list) : Dead(list[k]) => Dead(list[k])'
    BY <1>1, <1>3, Shapes DEF Dead
  <2>3. \A c \in Listed : Dead(c) => Dead(c)'
    BY <1>6, Shapes
  <2> QED BY <1>1, <1>2, <1>5, <2>1, <2>2, <2>3, Shapes DEF CInv, LoopInv, Busy
<1>23. BlockedOnlyOnConnect'
  <2> SUFFICES ASSUME spc' = "opening", cpc[target] # "killed", ~int_sys_flag[target]
               PROVE  /\ cpc'[target] = "open" /\ call[target] = "new_client"
                      /\ phase = "reply"
    BY <1>1, <1>2, <1>3 DEF BlockedOnlyOnConnect
  <2>1. ~fds[target] /\ cpc[target] # "opening"
    BY <1>1 DEF HasReader
  <2>2. ~Fresh(target)
    BY <1>2, FreshNotTarget
  <2>3. cpc[target] = "open" /\ call[target] = "new_client"
    BY <1>1, <1>2, <2>1, <2>2 DEF CInv, ClientInv, Fresh
  <2>4. phase = "reply"
    BY <1>1, <1>2, <2>1, <2>3 DEF CInv, ServerInv, UnopenedInv, Dead
  <2> QED BY <1>2, <1>3, <2>3, <2>4
<1>24. AnswerOnItsWay'
  BY <1>1, <1>3, <1>5 DEF CInv, AnswerOnItsWay, AnswerDue, ServerUp
<1> QED
  BY <1>10, <1>11, <1>12, <1>13, <1>14, <1>15, <1>16, <1>17, <1>18, <1>19,
     <1>20, <1>21, <1>22, <1>23, <1>24 DEF CInv

(* The server writes a record.                                               *)
LEMMA WriteStep ==
  ASSUME CInv, write_client_fifo
  PROVE  CInv'
<1>1. /\ spc = "write" /\ Len(fifo[target]) < CAPACITY
      /\ fifo' = [fifo EXCEPT ![target] = Append(fifo[target], resp)]
      /\ delivered' = IF phase = "reply" THEN delivered
                      ELSE delivered \cup {target}
      /\ spc' = "close"
      /\ UNCHANGED <<sfifo, exists, list, forgotten, restarts, req, target,
                     resp, phase, p, msg_success, cpc, call, dest, text,
                     int_sys_flag, fds, hup, choices>>
  BY DEF write_client_fifo, fifoVars, serverVars, listVars, draft,
     clientVars
<1>2. /\ target \in Clients /\ Busy /\ Writing /\ ~Fresh(target) /\ resp \in Responses
  BY <1>1, FreshNotTarget DEF CInv, ServerInv, Busy, Writing, ServerType
<1>3. \A d \in Clients : d # target => fifo'[d] = fifo[d]
  BY <1>1 DEF CInv, FifoType
<1>4. /\ fifo'[target] \in Seq(Responses) /\ Len(fifo'[target]) = Len(fifo[target]) + 1
      /\ Len(fifo[target]) \in Nat /\ DOMAIN fifo'[target] = 1..(Len(fifo[target]) + 1)
      /\ \A k \in 1..Len(fifo[target]) : fifo'[target][k] = fifo[target][k]
      /\ fifo'[target][Len(fifo[target]) + 1] = resp
  <2> DEFINE s == fifo[target]
  <2>1. s \in Seq(Responses) /\ Len(s) \in Nat /\ fifo'[target] = Append(s, resp)
    BY <1>1, <1>2, Shapes DEF CInv, FifoType
  <2> HIDE DEF s
  <2>2. /\ Append(s, resp) \in Seq(Responses) /\ Len(Append(s, resp)) = Len(s) + 1
        /\ \A k \in 1..Len(s) : Append(s, resp)[k] = s[k]
        /\ Append(s, resp)[Len(s) + 1] = resp
    BY <1>2, <2>1, AppendProperties
  <2>3. DOMAIN Append(s, resp) = 1..(Len(s) + 1)
    BY <2>1, <2>2, LenProperties
  <2> QED BY <2>1, <2>2, <2>3 DEF s
<1>5. Listed' = Listed /\ \A d \in Clients : Known(d)' <=> Known(d)
  BY <1>1 DEF Known, Listed
<1>6. fifo' \in [Clients -> Seq(Responses)]
  <2>1. fifo'[target] = Append(fifo[target], resp)
    BY <1>1, <1>2 DEF CInv, FifoType
  <2> QED BY <1>1, <1>4, <2>1 DEF CInv, FifoType
<1>10. ClientType'
  BY <1>1, BoundsAssumption DEF CInv, ClientType, ClientPoints, Calls, Dests
<1>11. FifoType'
  BY <1>1, <1>3, <1>4, <1>6, BoundsAssumption DEF CInv, FifoType
<1>12. ServerType'
  BY <1>1, <1>2 DEF CInv, ServerType
<1>13. ListInv'
  BY <1>1 DEF CInv, ListInv
<1>14. ServerInv'
  BY <1>1, Shapes DEF CInv, ServerInv, Busy, Writing, Listed, Dead
<1>15. ClientInv'
  BY <1>1 DEF CInv, ClientInv, Dead, ClientType
<1>16. FreshInv'
  BY <1>1, <1>2, <1>3, <1>5 DEF CInv, FreshInv, Fresh
<1>17. RequestInv'
  <2>1. ASSUME NEW k \in 1..Len(sfifo), sfifo[k].op = "new_client"
        PROVE  sfifo[k].from # target
    <3>1. call[sfifo[k].from] = "new_client" /\ ~Known(sfifo[k].from)
      BY <2>1 DEF CInv, RequestInv
    <3>2. CASE phase = "reply"
      BY <1>2, <3>1, <3>2 DEF CInv, ServerInv, HandInv
    <3>3. CASE phase # "reply"
      BY <1>2, <3>1, <3>3 DEF CInv, ServerInv, Known
    <3> QED BY <3>2, <3>3
  <2>2. \A k \in 1..Len(sfifo) : (~Known(sfifo[k].from) => (~Known(sfifo[k].from))')
    BY <1>1, <1>5 DEF Known
  <2> QED BY <1>1, <1>3, <2>1, <2>2, Shapes DEF CInv, RequestInv, Fresh
<1>18. HandInv'
  BY <1>1, <1>2 DEF CInv, HandInv, Fresh
<1>19. ConnectedInv'
  <2> SUFFICES ASSUME NEW c \in Clients, Alive(c)
               PROVE  /\ call[c] \in {"check_connection", "message"} => Known(c)
                      /\ call[c] = "new_client" =>
                           \A k \in 1..Len(fifo'[c]) :
                             fifo'[c][k].text = "OK" => Known(c)
    BY <1>1, <1>5 DEF ConnectedInv, Alive
  <2>1. CASE c # target
    BY <1>3, <2>1 DEF CInv, ConnectedInv
  <2>2. CASE c = target
    <3>1. \A k \in 1..Len(fifo'[c]) :
            k \in 1..Len(fifo[c]) \/ k = Len(fifo[c]) + 1
      BY <1>4, <2>2
    <3> QED BY <1>1, <1>2, <1>4, <2>2, <3>1 DEF CInv, ConnectedInv
  <2> QED BY <2>1, <2>2
<1>20. QuitInv'
  BY <1>1 DEF CInv, QuitInv, ServerUp, Listed
<1>21. UnopenedInv'
  BY <1>1, <1>5 DEF CInv, UnopenedInv, Dead
<1>22. LoopInv'
  <2> SUFFICES ASSUME req.op = "message", req.dest = GLOBAL
               PROVE  LoopInv'
    BY <1>1 DEF LoopInv
  <2>1. CASE phase = "reply"
    BY <1>1, <1>2, <1>5, <2>1 DEF CInv, LoopInv, Busy, Dead
  <2>2. CASE phase = "global"
    <3>1. /\ p \in 1..Len(list) /\ target = list[p] /\ target # req.from
          /\ Len(list) \in Nat
      BY <1>2, <2>2, Shapes DEF CInv, ServerInv
    <3>2. Passed = p - 1 /\ Passed' = p
      BY <1>1, <1>2, <2>2 DEF Passed, Writing
    <3>3. /\ req.from \notin delivered
          /\ \A k \in 1..(p - 1) : list[k] \in delivered \cup {req.from} \/ Dead(list[k])
          /\ msg_success => delivered = {list[k] : k \in 1..(p - 1)} \ {req.from}
      BY <1>2, <2>2, <3>2 DEF CInv, LoopInv
    <3>4. (\A k \in 1..p : k \in 1..(p - 1) \/ k = p) /\ p \in 1..p
          /\ \A k \in 1..(p - 1) : k \in 1..p
      BY <3>1
    <3>5. {list[k] : k \in 1..p} = {list[k] : k \in 1..(p - 1)} \cup {target}
      BY <3>1, <3>4
    <3>6. delivered' = delivered \cup {target}
      BY <1>1, <2>2
    <3>7. /\ req.from \notin delivered'
          /\ \A k \in 1..p : list[k] \in delivered' \cup {req.from} \/ Dead(list[k])
          /\ msg_success => delivered' = {list[k] : k \in 1..p} \ {req.from}
      BY <3>1, <3>3, <3>4, <3>5, <3>6
    <3> QED BY <1>1, <2>2, <3>2, <3>7 DEF LoopInv, Dead
  <2>3. phase \in {"reply", "global"}
    BY <1>2 DEF CInv, ServerInv, ServerType
  <2> QED BY <2>1, <2>2, <2>3
<1>23. BlockedOnlyOnConnect'
  BY <1>1 DEF CInv, BlockedOnlyOnConnect, ServerInv, Writing, ClientInv
<1>24. AnswerOnItsWay'
  <2> SUFFICES ASSUME NEW c \in Clients, restarts = 0,
                      cpc[c] \in {"open", "opening", "read"}
               PROVE  AnswerDue(c)'
    BY <1>1 DEF AnswerOnItsWay
  <2>1. AnswerDue(c)
    BY <1>1 DEF CInv, AnswerOnItsWay, ServerUp
  <2>2. CASE \E k \in DOMAIN fifo[c] : IsAnswer(fifo[c][k])
    <3>1. PICK k \in DOMAIN fifo[c] : IsAnswer(fifo[c][k])
      BY <2>2
    <3>2. k \in DOMAIN fifo'[c] /\ fifo'[c][k] = fifo[c][k]
      BY SMTT(60), <1>3, <1>4, <3>1, Shapes
    <3> QED BY <3>1, <3>2 DEF AnswerDue, IsAnswer
  <2>3. CASE \E k \in DOMAIN sfifo : sfifo[k].from = c
    BY <1>1, <2>3 DEF AnswerDue
  <2>4. CASE req.from = c /\ phase # "reply"
    BY <1>1, <2>4 DEF AnswerDue
  <2>5. CASE req.from = c /\ phase = "reply"
    <3>1. c = target /\ IsAnswer(resp)
      BY <1>2, <2>5 DEF CInv, ServerInv
    <3>2. Len(fifo[c]) + 1 \in DOMAIN fifo'[c] /\ fifo'[c][Len(fifo[c]) + 1] = resp
      BY <1>4, <3>1
    <3> QED BY <3>1, <3>2 DEF AnswerDue, IsAnswer
  <2> QED BY <2>1, <2>2, <2>3, <2>4, <2>5 DEF AnswerDue
<1> QED
  BY <1>10, <1>11, <1>12, <1>13, <1>14, <1>15, <1>16, <1>17, <1>18, <1>19,
     <1>20, <1>21, <1>22, <1>23, <1>24 DEF CInv

(* The client to be answered has gone since.                                 *)
LEMMA AnswerUnreadStep ==
  ASSUME CInv, write_fails, phase = "reply"
  PROVE  CInv'
<1>1. /\ spc = "write" /\ ~HasReader(target) /\ phase = "reply"
      /\ spc' = "read" /\ req' = NoRequest /\ target' = Nobody
      /\ resp' = OK /\ phase' = "reply" /\ p' = 1
      /\ msg_success' = FALSE /\ delivered' = {}
      /\ UNCHANGED <<sfifo, fifo, exists, list, forgotten, restarts, cpc, call,
                     dest, text, int_sys_flag, fds, hup, choices>>
  BY DEF write_fails, next_request, fifoVars, serverVars, listVars, draft,
     clientVars
<1>2. target \in Clients /\ Busy /\ Writing /\ Dead(target)
  BY <1>1 DEF CInv, ServerInv, Busy, Writing, HasReader
<1>10. ClientType'
  BY <1>1, BoundsAssumption DEF CInv, ClientType, ClientPoints, Calls, Dests
<1>11. FifoType'
  BY <1>1 DEF CInv, FifoType
<1>12. ServerType'
  <2>1. 1 \in 1..(MAX_NUM_CLIENTS + 1)
    BY BoundsAssumption
  <2>2. forgotten' \subseteq Clients /\ restarts' \in 0..MaxRestarts
    BY <1>1, Shapes DEF CInv, ServerType
  <2>3. req' \in Requests /\ resp' \in Responses /\ target' \in Clients \cup {Nobody}
    BY <1>1, NoValues
  <2>4. /\ spc' \in {"read", "global", "open", "opening", "write", "close", "stopped"}
        /\ phase' \in {"reply", "direct", "global"} /\ msg_success' \in BOOLEAN
        /\ delivered' \subseteq Clients /\ p' = 1
    BY <1>1
  <2> QED BY <2>1, <2>2, <2>3, <2>4 DEF ServerType
<1>13. ListInv'
  BY <1>1 DEF CInv, ListInv
<1>14. ServerInv'
  BY <1>1, Shapes DEF ServerInv, Busy, Writing
<1>15. ClientInv'
  BY <1>1 DEF CInv, ClientInv, Dead, ClientType
<1>16. FreshInv'
  BY <1>1 DEF CInv, FreshInv, Fresh, Known, Listed, ClientInv
<1>17. RequestInv'
  BY <1>1, Shapes DEF CInv, RequestInv, Fresh, Known, Listed, ClientInv
<1>18. HandInv'
  BY <1>1, Shapes DEF CInv, HandInv, Busy, Fresh, ClientInv
<1>19. ConnectedInv'
  BY <1>1 DEF CInv, ConnectedInv, Alive, Known, Listed, Busy, Writing,
     ClientInv
<1>20. QuitInv'
  BY <1>1 DEF CInv, QuitInv, ServerUp, Listed
<1>21. UnopenedInv'
  BY <1>1 DEF CInv, UnopenedInv, Dead, Listed, ClientInv, FreshInv, Fresh,
     Known
<1>22. LoopInv'
  BY <1>1, Shapes DEF CInv, LoopInv, Busy, Writing, Passed, Listed, Dead
<1>23. BlockedOnlyOnConnect'
  BY <1>1 DEF CInv, BlockedOnlyOnConnect, ServerInv, Writing, ClientInv
<1>24. AnswerOnItsWay'
  BY <1>1, <1>2 DEF CInv, AnswerOnItsWay, AnswerDue, ServerUp, ServerInv, Dead
<1> QED
  BY <1>10, <1>11, <1>12, <1>13, <1>14, <1>15, <1>16, <1>17, <1>18, <1>19,
     <1>20, <1>21, <1>22, <1>23, <1>24 DEF CInv

(* The client to be written to has gone since.                               *)
LEMMA DirectUnreadStep ==
  ASSUME CInv, write_fails, phase = "direct"
  PROVE  CInv'
<1>1. /\ spc = "write" /\ phase = "direct"
      /\ msg_success' = FALSE /\ spc' = "open" /\ phase' = "reply"
      /\ target' = req.from /\ resp' = FAIL
      /\ UNCHANGED <<sfifo, fifo, exists, list, forgotten, restarts, req, p,
                     delivered, cpc, call, dest, text, int_sys_flag, fds, hup,
                     choices>>
  BY DEF write_fails, sent_direct, send_sys_response, answer, fifoVars,
     serverVars, listVars, draft, clientVars
<1>2. /\ Busy /\ req \in Sent /\ req.from \in Clients /\ req.op = "message"
      /\ req.dest # GLOBAL /\ call[req.from] # "new_client"
  BY <1>1, Shapes DEF CInv, ServerInv, Busy, Writing, HandInv
<1>10. ClientType'
  BY <1>1, BoundsAssumption DEF CInv, ClientType, ClientPoints, Calls, Dests
<1>11. FifoType'
  BY <1>1 DEF CInv, FifoType
<1>12. ServerType'
  BY <1>1, <1>2 DEF CInv, ServerType, OK, FAIL, Response, Responses
<1>13. ListInv'
  BY <1>1 DEF CInv, ListInv
<1>14. ServerInv'
  BY <1>1, Shapes, <1>2 DEF CInv, ServerInv, Busy, Writing, Listed, Dead,
     OK, FAIL, Response, IsAnswer
<1>15. ClientInv'
  BY <1>1 DEF CInv, ClientInv, Dead, ClientType
<1>16. FreshInv'
  BY <1>1 DEF CInv, FreshInv, Fresh, Known, Listed, ClientInv
<1>17. RequestInv'
  BY <1>1, Shapes DEF CInv, RequestInv, Fresh, Known, Listed, ClientInv
<1>18. HandInv'
  BY <1>1, Shapes DEF CInv, HandInv, Busy, Fresh, ClientInv
<1>19. ConnectedInv'
  BY <1>1, <1>2 DEF CInv, ConnectedInv, Alive, Known, Listed, Busy, Writing,
     ClientInv
<1>20. QuitInv'
  BY <1>1 DEF CInv, QuitInv, ServerUp, Listed
<1>21. UnopenedInv'
  BY <1>1 DEF CInv, UnopenedInv, Dead, Listed, ClientInv, FreshInv, Fresh,
     Known
<1>22. LoopInv'
  BY <1>1, Shapes, <1>2 DEF CInv, LoopInv, Busy, Writing, Passed, Listed,
     Dead
<1>23. BlockedOnlyOnConnect'
  BY <1>1 DEF CInv, BlockedOnlyOnConnect, ServerInv, Writing, ClientInv
<1>24. AnswerOnItsWay'
  BY <1>1 DEF CInv, AnswerOnItsWay, AnswerDue, ServerUp
<1> QED
  BY <1>10, <1>11, <1>12, <1>13, <1>14, <1>15, <1>16, <1>17, <1>18, <1>19,
     <1>20, <1>21, <1>22, <1>23, <1>24 DEF CInv

(* ... and a global message goes on to the next.                             *)
LEMMA GlobalUnreadStep ==
  ASSUME CInv, write_fails, phase = "global"
  PROVE  CInv'
<1>1. /\ spc = "write" /\ ~HasReader(target) /\ phase = "global"
      /\ spc' = "close" /\ msg_success' = FALSE
      /\ UNCHANGED <<sfifo, fifo, exists, list, forgotten, restarts, req,
                     target, resp, phase, p, delivered, cpc, call, dest, text,
                     int_sys_flag, fds, hup, choices>>
  BY DEF write_fails, fifoVars, serverVars, listVars, draft, clientVars
<1>2. target \in Clients /\ Busy /\ Writing /\ Dead(target)
  BY <1>1 DEF CInv, ServerInv, Busy, Writing, HasReader
<1>10. ClientType'
  BY <1>1, BoundsAssumption DEF CInv, ClientType, ClientPoints, Calls, Dests
<1>11. FifoType'
  BY <1>1 DEF CInv, FifoType
<1>12. ServerType'
  BY <1>1 DEF CInv, ServerType
<1>13. ListInv'
  BY <1>1 DEF CInv, ListInv
<1>14. ServerInv'
  BY <1>1, Shapes DEF CInv, ServerInv, Busy, Writing, Listed, Dead
<1>15. ClientInv'
  BY <1>1 DEF CInv, ClientInv, Dead, ClientType
<1>16. FreshInv'
  BY <1>1 DEF CInv, FreshInv, Fresh, Known, Listed, ClientInv
<1>17. RequestInv'
  BY <1>1, Shapes DEF CInv, RequestInv, Fresh, Known, Listed, ClientInv
<1>18. HandInv'
  BY <1>1, Shapes DEF CInv, HandInv, Busy, Fresh, ClientInv
<1>19. ConnectedInv'
  BY <1>1 DEF CInv, ConnectedInv, Alive, Known, Listed, Busy, Writing,
     ClientInv
<1>20. QuitInv'
  BY <1>1 DEF CInv, QuitInv, ServerUp, Listed
<1>21. UnopenedInv'
  BY <1>1 DEF CInv, UnopenedInv, Dead, Listed, ClientInv, FreshInv, Fresh,
     Known
<1>22. LoopInv'
  <2> SUFFICES ASSUME req.op = "message", req.dest = GLOBAL
               PROVE  LoopInv'
    BY <1>1 DEF LoopInv
  <2>1. p \in 1..Len(list) /\ target = list[p] /\ Len(list) \in Nat
    BY <1>1, <1>2, Shapes DEF CInv, ServerInv
  <2>2. Passed = p - 1 /\ Passed' = p
    BY <1>1 DEF Passed, Writing
  <2>3. /\ req.from \notin delivered
        /\ \A k \in 1..(p - 1) : list[k] \in delivered \cup {req.from} \/ Dead(list[k])
    BY <1>1, <1>2, <2>2 DEF CInv, LoopInv
  <2>4. \A k \in 1..p : k \in 1..(p - 1) \/ k = p
    BY <2>1
  <2>5. \A k \in 1..p : list[k] \in delivered \cup {req.from} \/ Dead(list[k])
    BY <1>2, <2>1, <2>3, <2>4
  <2> QED BY <1>1, <2>2, <2>3, <2>5 DEF LoopInv, Dead
<1>23. BlockedOnlyOnConnect'
  BY <1>1 DEF CInv, BlockedOnlyOnConnect, ServerInv, Writing, ClientInv
<1>24. AnswerOnItsWay'
  BY <1>1 DEF CInv, AnswerOnItsWay, AnswerDue, ServerUp
<1> QED
  BY <1>10, <1>11, <1>12, <1>13, <1>14, <1>15, <1>16, <1>17, <1>18, <1>19,
     <1>20, <1>21, <1>22, <1>23, <1>24 DEF CInv

(* The request is answered.                                                  *)
LEMMA AnsweredStep ==
  ASSUME CInv, close_client_fifo, phase = "reply"
  PROVE  CInv'
<1>1. /\ spc = "close" /\ phase = "reply"
      /\ spc' = "read" /\ req' = NoRequest /\ target' = Nobody
      /\ resp' = OK /\ phase' = "reply" /\ p' = 1
      /\ msg_success' = FALSE /\ delivered' = {}
      /\ UNCHANGED <<sfifo, fifo, exists, list, forgotten, restarts, cpc, call,
                     dest, text, int_sys_flag, fds, hup, choices>>
  BY DEF close_client_fifo, next_request, fifoVars, serverVars, listVars,
     draft, clientVars
<1>10. ClientType'
  BY <1>1, BoundsAssumption DEF CInv, ClientType, ClientPoints, Calls, Dests
<1>11. FifoType'
  BY <1>1 DEF CInv, FifoType
<1>12. ServerType'
  <2>1. 1 \in 1..(MAX_NUM_CLIENTS + 1)
    BY BoundsAssumption
  <2>2. forgotten' \subseteq Clients /\ restarts' \in 0..MaxRestarts
    BY <1>1, Shapes DEF CInv, ServerType
  <2>3. req' \in Requests /\ resp' \in Responses /\ target' \in Clients \cup {Nobody}
    BY <1>1, NoValues
  <2>4. /\ spc' \in {"read", "global", "open", "opening", "write", "close", "stopped"}
        /\ phase' \in {"reply", "direct", "global"} /\ msg_success' \in BOOLEAN
        /\ delivered' \subseteq Clients /\ p' = 1
    BY <1>1
  <2> QED BY <2>1, <2>2, <2>3, <2>4 DEF ServerType
<1>13. ListInv'
  BY <1>1 DEF CInv, ListInv
<1>14. ServerInv'
  BY <1>1, Shapes DEF ServerInv, Busy, Writing
<1>15. ClientInv'
  BY <1>1 DEF CInv, ClientInv, Dead, ClientType
<1>16. FreshInv'
  BY <1>1 DEF CInv, FreshInv, Fresh, Known, Listed, ClientInv
<1>17. RequestInv'
  BY <1>1, Shapes DEF CInv, RequestInv, Fresh, Known, Listed, ClientInv
<1>18. HandInv'
  BY <1>1, Shapes DEF CInv, HandInv, Busy, Fresh, ClientInv
<1>19. ConnectedInv'
  BY <1>1 DEF CInv, ConnectedInv, Alive, Known, Listed, Busy, Writing,
     ClientInv
<1>20. QuitInv'
  BY <1>1 DEF CInv, QuitInv, ServerUp, Listed
<1>21. UnopenedInv'
  BY <1>1 DEF CInv, UnopenedInv, Dead, Listed, ClientInv, FreshInv, Fresh,
     Known
<1>22. LoopInv'
  BY <1>1, Shapes DEF CInv, LoopInv, Busy, Writing, Passed, Listed, Dead
<1>23. BlockedOnlyOnConnect'
  BY <1>1 DEF CInv, BlockedOnlyOnConnect, ServerInv, Writing, ClientInv
<1>24. AnswerOnItsWay'
  BY <1>1 DEF CInv, AnswerOnItsWay, AnswerDue, ServerUp
<1> QED
  BY <1>10, <1>11, <1>12, <1>13, <1>14, <1>15, <1>16, <1>17, <1>18, <1>19,
     <1>20, <1>21, <1>22, <1>23, <1>24 DEF CInv

(* The message was written, and its sender is answered.                      *)
LEMMA DirectDoneStep ==
  ASSUME CInv, close_client_fifo, phase = "direct"
  PROVE  CInv'
<1>1. /\ spc = "close" /\ phase = "direct"
      /\ msg_success' = TRUE /\ spc' = "open" /\ phase' = "reply"
      /\ target' = req.from /\ resp' = OK
      /\ UNCHANGED <<sfifo, fifo, exists, list, forgotten, restarts, req, p,
                     delivered, cpc, call, dest, text, int_sys_flag, fds, hup,
                     choices>>
  BY DEF close_client_fifo, sent_direct, send_sys_response, answer,
     fifoVars, serverVars, listVars, draft, clientVars
<1>2. /\ Busy /\ req \in Sent /\ req.from \in Clients /\ req.op = "message"
      /\ req.dest # GLOBAL /\ call[req.from] # "new_client"
  BY <1>1, Shapes DEF CInv, ServerInv, Busy, Writing, HandInv
<1>10. ClientType'
  BY <1>1, BoundsAssumption DEF CInv, ClientType, ClientPoints, Calls, Dests
<1>11. FifoType'
  BY <1>1 DEF CInv, FifoType
<1>12. ServerType'
  BY <1>1, <1>2 DEF CInv, ServerType, OK, FAIL, Response, Responses
<1>13. ListInv'
  BY <1>1 DEF CInv, ListInv
<1>14. ServerInv'
  BY <1>1, Shapes, <1>2 DEF CInv, ServerInv, Busy, Writing, Listed, Dead,
     OK, FAIL, Response, IsAnswer
<1>15. ClientInv'
  BY <1>1 DEF CInv, ClientInv, Dead, ClientType
<1>16. FreshInv'
  BY <1>1 DEF CInv, FreshInv, Fresh, Known, Listed, ClientInv
<1>17. RequestInv'
  BY <1>1, Shapes DEF CInv, RequestInv, Fresh, Known, Listed, ClientInv
<1>18. HandInv'
  BY <1>1, Shapes DEF CInv, HandInv, Busy, Fresh, ClientInv
<1>19. ConnectedInv'
  BY <1>1, <1>2 DEF CInv, ConnectedInv, Alive, Known, Listed, Busy, Writing,
     ClientInv
<1>20. QuitInv'
  BY <1>1 DEF CInv, QuitInv, ServerUp, Listed
<1>21. UnopenedInv'
  BY <1>1 DEF CInv, UnopenedInv, Dead, Listed, ClientInv, FreshInv, Fresh,
     Known
<1>22. LoopInv'
  BY <1>1, Shapes, <1>2 DEF CInv, LoopInv, Busy, Writing, Passed, Listed,
     Dead
<1>23. BlockedOnlyOnConnect'
  BY <1>1 DEF CInv, BlockedOnlyOnConnect, ServerInv, Writing, ClientInv
<1>24. AnswerOnItsWay'
  BY <1>1 DEF CInv, AnswerOnItsWay, AnswerDue, ServerUp
<1> QED
  BY <1>10, <1>11, <1>12, <1>13, <1>14, <1>15, <1>16, <1>17, <1>18, <1>19,
     <1>20, <1>21, <1>22, <1>23, <1>24 DEF CInv

(* ... or the next client in the list is looked at.                          *)
LEMMA GlobalDoneStep ==
  ASSUME CInv, close_client_fifo, phase = "global"
  PROVE  CInv'
<1>1. /\ spc = "close" /\ phase = "global"
      /\ spc' = "global" /\ p' = p + 1
      /\ UNCHANGED <<sfifo, fifo, exists, list, forgotten, restarts, req,
                     target, resp, phase, msg_success, delivered, cpc, call,
                     dest, text, int_sys_flag, fds, hup, choices>>
  BY DEF close_client_fifo, fifoVars, serverVars, listVars, draft,
     clientVars
<1>2. /\ p \in 1..Len(list) /\ Len(list) \in Nat /\ Len(list) <= MAX_NUM_CLIENTS
      /\ Busy /\ req \in Sent /\ req.op = "message" /\ req.dest = GLOBAL
  BY <1>1, Shapes DEF CInv, ServerInv, ListInv, Busy, Writing
<1>10. ClientType'
  BY <1>1, BoundsAssumption DEF CInv, ClientType, ClientPoints, Calls, Dests
<1>11. FifoType'
  BY <1>1 DEF CInv, FifoType
<1>12. ServerType'
  BY <1>1, <1>2, BoundsAssumption DEF CInv, ServerType
<1>13. ListInv'
  BY <1>1 DEF CInv, ListInv
<1>14. ServerInv'
  BY <1>1, <1>2 DEF ServerInv, Busy, Writing
<1>15. ClientInv'
  BY <1>1 DEF CInv, ClientInv, Dead, ClientType
<1>16. FreshInv'
  BY <1>1 DEF CInv, FreshInv, Fresh, Known, Listed, ClientInv
<1>17. RequestInv'
  BY <1>1, Shapes DEF CInv, RequestInv, Fresh, Known, Listed, ClientInv
<1>18. HandInv'
  BY <1>1, Shapes DEF CInv, HandInv, Busy, Fresh, ClientInv
<1>19. ConnectedInv'
  BY <1>1 DEF CInv, ConnectedInv, Alive, Known, Listed, Busy, Writing,
     ClientInv
<1>20. QuitInv'
  BY <1>1 DEF CInv, QuitInv, ServerUp, Listed
<1>21. UnopenedInv'
  BY <1>1 DEF CInv, UnopenedInv, Dead, Listed, ClientInv, FreshInv, Fresh,
     Known
<1>22. LoopInv'
  <2>1. Passed = p /\ Passed' = p
    BY <1>1, <1>2 DEF Passed, Writing
  <2> QED BY <1>1, <1>2, <2>1 DEF CInv, LoopInv, Dead
<1>23. BlockedOnlyOnConnect'
  BY <1>1 DEF CInv, BlockedOnlyOnConnect, ServerInv, Writing, ClientInv
<1>24. AnswerOnItsWay'
  BY <1>1 DEF CInv, AnswerOnItsWay, AnswerDue, ServerUp
<1> QED
  BY <1>10, <1>11, <1>12, <1>13, <1>14, <1>15, <1>16, <1>17, <1>18, <1>19,
     <1>20, <1>21, <1>22, <1>23, <1>24 DEF CInv

-------------------------------------------------------------------------------
(* The clients that are connected at the start are in the list.              *)
LEMMA InitInv == Init => CInv
<1> SUFFICES ASSUME Init PROVE CInv
  OBVIOUS
<1> DEFINE here == [c \in Clients |-> c \in ToSet(Connected)]
<1>1. /\ sfifo = <<>> /\ fifo = [c \in Clients |-> <<>>]
      /\ exists = here /\ fds = here
      /\ list = Connected /\ forgotten = {} /\ restarts = 0
      /\ spc = "read" /\ req = NoRequest
      /\ target = Nobody /\ resp = OK /\ phase = "reply"
      /\ p = 1 /\ msg_success = FALSE /\ delivered = {}
      /\ cpc = [c \in Clients |-> IF here[c] THEN "prompt" ELSE "off"]
      /\ call = [c \in Clients |-> IF here[c] THEN "check_connection"
                                              ELSE "new_client"]
      /\ dest = [c \in Clients |-> Nobody] /\ text = [c \in Clients |-> NoText]
      /\ int_sys_flag = [c \in Clients |-> FALSE]
      /\ hup = [c \in Clients |-> FALSE]
      /\ choices = 0
  BY DEF Init
<1>2. here \in [Clients -> BOOLEAN] /\ \A c \in Clients : here[c] = (c \in Listed)
  BY <1>1 DEF Listed
<1> HIDE DEF here
<1>3. \A c \in Clients :
        /\ exists[c] = (c \in Listed) /\ fds[c] = (c \in Listed)
        /\ cpc[c] = IF c \in Listed THEN "prompt" ELSE "off"
        /\ call[c] = IF c \in Listed THEN "check_connection" ELSE "new_client"
        /\ fifo[c] = <<>> /\ text[c] = NoText
  BY <1>1, <1>2
<1>4. \A S : <<>> \in Seq(S) /\ Len(<<>>) = 0
  BY EmptySeq
<1>5. 1..Len(sfifo) = {} /\ \A c \in Clients : 1..Len(fifo[c]) = {} /\ Len(fifo[c]) = 0
  BY <1>1, <1>3, <1>4
<1>6. ~Busy /\ ~Writing
  BY <1>1 DEF Busy, Writing
<1>10. ClientType
  BY <1>1, <1>2, BoundsAssumption DEF ClientType, ClientPoints, Calls, Dests
<1>11. FifoType
  <2>1. sfifo \in Seq(Sent) /\ fifo \in [Clients -> Seq(Responses)]
    BY <1>1, <1>4
  <2> QED BY <1>5, <2>1, BoundsAssumption DEF FifoType
<1>12. ServerType
  <2>1. 1 \in 1..(MAX_NUM_CLIENTS + 1) /\ 0 \in 0..MaxRestarts
    BY BoundsAssumption
  <2> QED BY <1>1, <2>1, NoValues DEF ServerType
<1>13. ListInv
  <2>1. list \in Seq(Clients) /\ DOMAIN list = 1..Len(list)
    BY <1>1, ConnectedAssumption, LenProperties
  <2> QED BY <1>1, <2>1, ConnectedAssumption DEF ListInv, IsInjective
<1>14. ServerInv
  <2>1. Len(list) \in Nat
    BY <1>13, LenProperties DEF ListInv
  <2> QED BY <1>1, <1>6, <2>1 DEF ServerInv
<1>15. ClientInv
  BY <1>3 DEF ClientInv, Dead
<1>16. FreshInv
  BY <1>1, <1>3 DEF FreshInv, Fresh, Known
<1>17. RequestInv
  BY <1>5 DEF RequestInv
<1>18. HandInv
  BY <1>6 DEF HandInv
<1>19. ConnectedInv
  BY <1>3, <1>5, <1>6 DEF ConnectedInv, Alive, Known
<1>20. QuitInv
  BY <1>3 DEF QuitInv
<1>21. UnopenedInv
  BY <1>3 DEF UnopenedInv
<1>22. LoopInv
  BY <1>6 DEF LoopInv
<1>23. BlockedOnlyOnConnect
  BY <1>1 DEF BlockedOnlyOnConnect
<1>24. AnswerOnItsWay
  BY <1>3 DEF AnswerOnItsWay
<1> QED
  BY <1>10, <1>11, <1>12, <1>13, <1>14, <1>15, <1>16, <1>17, <1>18, <1>19,
     <1>20, <1>21, <1>22, <1>23, <1>24 DEF CInv

(* Every step of the server preserves the invariant.                         *)
LEMMA ServerStep ==
  ASSUME CInv, Server \/ stop_server \/ restart_server
  PROVE  CInv'
<1>1. phase \in {"reply", "direct", "global"} /\ p \in Nat /\ Len(list) \in Nat
  BY Shapes DEF CInv, ServerType, ServerInv
<1>2. CASE new_client
  BY <1>2, NewClientStep, NewClientFullStep
<1>3. CASE disconnect_client
  BY <1>3, DisconnectStep
<1>4. CASE check_connection
  BY <1>4, CheckConnectionStep
<1>5. CASE global_message
  BY <1>5, GlobalStep
<1>6. CASE direct_message
  BY <1>6, DirectStep
<1>7. CASE undeliverable_message
  BY <1>7, UndeliverableStep
<1>8. CASE next_recipient
  BY <1>1, <1>8, LoopEndsStep, LoopSkipsStep, LoopServesStep
<1>9. CASE open_fails
  BY <1>1, <1>9, AnswerLostStep, DirectLostStep, RemovedStep
<1>10. CASE read_freed_node \/ stop_server
  BY <1>10, StopStep DEF read_freed_node, stop_server
<1>11. CASE open_client_fifo
  BY <1>11, OpenStep
<1>12. CASE write_client_fifo
  BY <1>12, WriteStep
<1>13. CASE write_fails
  BY <1>1, <1>13, AnswerUnreadStep, DirectUnreadStep, GlobalUnreadStep
<1>14. CASE close_client_fifo
  BY <1>1, <1>14, AnsweredStep, DirectDoneStep, GlobalDoneStep
<1>15. CASE restart_server
  <2>1. sfifo' = sfifo \/ sfifo' = <<>>
    BY <1>15 DEF restart_server
  <2> QED BY <1>15, <2>1, RestartStep, RestartEmptyStep
<1> QED
  BY <1>2, <1>3, <1>4, <1>5, <1>6, <1>7, <1>8, <1>9, <1>10, <1>11, <1>12,
     <1>13, <1>14, <1>15 DEF Server

(* ... and so does every step of a client.                                   *)
LEMMA ClientStep ==
  ASSUME CInv, NEW c \in Clients, ClientRuns(c) \/ User(c)
  PROVE  CInv'
BY StartStep, SendRequestStep, SendFailsStep, OpenOwnStep, ReadAnswerStep,
   ChooseReadStep, ChooseQuitStep, ReadMessagesStep, ComposeStep, ExitStep,
   EndStep, InterruptStep
DEF ClientRuns, User

(* The state functions that CInv reads are those that vars lists.            *)
LEMMA StutterStep ==
  ASSUME CInv, UNCHANGED vars
  PROVE  CInv'
<1>1. UNCHANGED <<sfifo, fifo, exists, list, forgotten, restarts, spc, req,
                  target, resp, phase, p, msg_success, delivered, cpc, call,
                  dest, text, int_sys_flag, fds, hup, choices>>
  BY DEF vars, fifoVars, serverVars, listVars, clientVars, draft
<1>10. ClientType'
  BY <1>1 DEF CInv, ClientType
<1>11. FifoType'
  BY <1>1 DEF CInv, FifoType
<1>12. ServerType'
  BY <1>1 DEF CInv, ServerType
<1>13. ListInv'
  BY <1>1 DEF CInv, ListInv
<1>14. ServerInv'
  BY <1>1 DEF CInv, ServerInv, Busy, Writing, Listed, Dead
<1>15. ClientInv'
  BY <1>1 DEF CInv, ClientInv, Dead, ClientType
<1>16. FreshInv'
  BY <1>1 DEF CInv, FreshInv, Fresh, Known, Listed, ClientInv
<1>17. RequestInv'
  BY <1>1 DEF CInv, RequestInv, Fresh, Known, Listed, ClientInv
<1>18. HandInv'
  BY <1>1 DEF CInv, HandInv, Busy, Fresh, ClientInv
<1>19. ConnectedInv'
  BY <1>1 DEF CInv, ConnectedInv, Alive, Known, Listed, Busy, Writing, ClientInv
<1>20. QuitInv'
  BY <1>1 DEF CInv, QuitInv, ServerUp, Listed
<1>21. UnopenedInv'
  BY <1>1 DEF CInv, UnopenedInv, Dead, Listed, ClientInv, FreshInv, Fresh, Known
<1>22. LoopInv'
  BY <1>1 DEF CInv, LoopInv, Busy, Writing, Passed, Listed, Dead
<1>23. BlockedOnlyOnConnect'
  BY <1>1 DEF CInv, BlockedOnlyOnConnect, ServerInv, Writing, ClientInv
<1>24. AnswerOnItsWay'
  BY <1>1 DEF CInv, AnswerOnItsWay, AnswerDue, ServerUp
<1> QED
  BY <1>10, <1>11, <1>12, <1>13, <1>14, <1>15, <1>16, <1>17, <1>18, <1>19,
     <1>20, <1>21, <1>22, <1>23, <1>24 DEF CInv

(* CInv is an invariant of the chat room, for any clients, connected at the  *)
(* start or not, killed, interrupted or not, and any stops of the server.    *)
THEOREM Invariance == Spec => []CInv
<1>1. CInv /\ [Next]_vars => CInv'
  <2> SUFFICES ASSUME CInv, [Next]_vars PROVE CInv'
    OBVIOUS
  <2>1. CASE Next
    BY <2>1, ServerStep, ClientStep DEF Next
  <2>2. CASE UNCHANGED vars
    BY <2>2, StutterStep
  <2> QED BY <2>1, <2>2
<1> QED BY <1>1, InitInv, PTL DEF Spec

(* Every variable stays in its type, and the FIFOs and the list within their *)
(* sizes, whatever clients write and users do.                               *)
THEOREM TypeCorrect == Spec => []TypeOK
<1>1. CInv => TypeOK
  <2> SUFFICES ASSUME CInv PROVE TypeOK
    OBVIOUS
  <2>1. ToSet(sfifo) \subseteq Requests
    BY Shapes DEF ToSet, Sent
  <2>2. \A c \in Clients : ToSet(fifo[c]) \subseteq Responses
    <3> SUFFICES ASSUME NEW c \in Clients PROVE ToSet(fifo[c]) \subseteq Responses
      OBVIOUS
    <3>1. fifo[c] \in Seq(Responses) /\ DOMAIN fifo[c] = 1..Len(fifo[c])
      BY Shapes
    <3>2. \A k \in 1..Len(fifo[c]) : fifo[c][k] \in Responses
      BY <3>1, ElementOfSeq
    <3> QED BY <3>1, <3>2 DEF ToSet
  <2>3. Listed \subseteq Clients /\ Len(list) <= MAX_NUM_CLIENTS
    BY Shapes DEF CInv, ListInv
  <2> QED BY <2>1, <2>2, <2>3 DEF TypeOK, CInv, ClientType, FifoType, ServerType
<1> QED BY <1>1, Invariance, PTL

(* new_client/list_push_back: a client whose user sees the prompt is in the  *)
(* server's list, or the server was stopped since.                           *)
THEOREM PromptAlwaysMeansListed == Spec => []PromptMeansListed
<1>1. CInv => PromptMeansListed
  BY DEF PromptMeansListed, CInv, ConnectedInv, ClientInv, Alive, Known
<1> QED BY <1>1, Invariance, PTL

(* client_disconnect/client_remove: a client that asked to be disconnected   *)
(* and exits is off the list, or its request is still in the server's FIFO.  *)
THEOREM QuitAlwaysDisconnects == Spec => []QuitDisconnects
<1>1. CInv => QuitDisconnects
  BY Shapes DEF QuitDisconnects, CInv, QuitInv, ToSet
<1> QED BY <1>1, Invariance, PTL

(* A global message is answered when it has been written to everybody in the *)
(* list that can still read it, and with OK only if to everybody.            *)
THEOREM GlobalAlwaysReachesAll == Spec => []GlobalReachesAll
<1>1. CInv => GlobalReachesAll
  <2> SUFFICES ASSUME CInv, phase = "reply", spc = "open",
                      req.op = "message", req.dest = GLOBAL
               PROVE  /\ \A c \in Listed \ {req.from} :
                           c \in delivered \/ ~HasReader(c)
                      /\ req.from \notin delivered
                      /\ resp = OK => Listed \ {req.from} = delivered
    BY DEF GlobalReachesAll
  <2>1. /\ req.from \notin delivered
        /\ \A c \in Listed : c \in delivered \cup {req.from} \/ Dead(c)
        /\ resp = OK => delivered = Listed \ {req.from}
    BY DEF CInv, LoopInv, Busy
  <2>2. \A c \in Listed : Dead(c) => ~HasReader(c)
    BY Shapes DEF CInv, ClientInv, Dead, HasReader
  <2> QED BY <2>1, <2>2
<1> QED BY <1>1, Invariance, PTL

(* No request goes unanswered as long as the server runs: while a client     *)
(* waits in check_sys_response its answer is on its way.                     *)
THEOREM AnswerAlwaysOnItsWay == Spec => []AnswerOnItsWay
<1>1. CInv => AnswerOnItsWay
  BY DEF CInv
<1> QED BY <1>1, Invariance, PTL

(* The server blocks in open() only for a client that has not yet opened its *)
(* FIFO, or never will.                                                      *)
THEOREM BlocksOnlyOnConnect == Spec => []BlockedOnlyOnConnect
<1>1. CInv => BlockedOnlyOnConnect
  BY DEF CInv
<1> QED BY <1>1, Invariance, PTL
===============================================================================
