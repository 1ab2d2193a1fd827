-------------------------- MODULE MessagingProofs --------------------------
(***************************************************************************)
(* Messages in Python.  Calls (ZmqRpc): for all clients, all kinds of      *)
(* request, all addresses and all numbers of calls and starts.             *)
(* Publications (ZmqPubSub): handlers hear what they subscribed to, for    *)
(* any threads, topics, handlers and numbers of messages, as long as each  *)
(* thread publishes by a publisher of its own.  Logs (LogSubmitter): what  *)
(* arrives is complete and in order, for any threads that log, any size of *)
(* the queue and any number of openings, where close_writer() waits for    *)
(* the worker, as the application calls it.                                *)
(***************************************************************************)
EXTENDS ZmqRpc, ZmqPubSub, LogSubmitter, FiniteSetTheorems, TLAPS

-----------------------------------------------------------------------------
(* Calls: the inductive invariant.                                         *)

\* Whoever starts or stops the server finds it initialized; when it is not, nothing is
\* left of it.
QuietInv ==
    /\ srv.app # "idle" => srv.running
    /\ ~srv.running => ~Alive /\ srv.bound = NoAddress

\* A request that was sent is its client's present one, whether it is still to be read ...
InboxInv ==
    /\ \A i \in DOMAIN inbox :
          /\ clients[inbox[i].client].pc = "wait"
          /\ inbox[i].id = clients[inbox[i].client].id
          /\ replies[inbox[i].client] = <<>>
    /\ \A i, j \in DOMAIN inbox : inbox[i].client = inbox[j].client => i = j

\* ... or is worked on: it is in one place only.
RequestInv ==
    srv.thread = "process" =>
        /\ srv.request \in Request
        /\ clients[srv.request.client].pc = "wait"
        /\ srv.request.id = clients[srv.request.client].id
        /\ replies[srv.request.client] = <<>>
        /\ \A i \in DOMAIN inbox : inbox[i].client # srv.request.client

\* Calls are numbered from 1.
NumberInv == \A c \in RpcClients : clients[c].pc = "send" => clients[c].id # 0

CallsInv == RpcTypeOK /\ NumberInv /\ QuietInv /\ InboxInv /\ RequestInv /\ EachCallItsReply

--------------------------------------------------------------------------
(* Lemmas *)

\* A reply has a status, but for the kinds of request that end the thread.
LEMMA ReplyType ==
    ASSUME NEW r \in Request, Reply(r).status # "none"
    PROVE  Reply(r) \in Answer
  BY RpcAssumption DEF Reply, Request, Outcome, Answer, Status

\* What is in the inbox are requests of clients.
LEMMA InboxType ==
    ASSUME RpcTypeOK
    PROVE  \A i \in DOMAIN inbox : inbox[i] \in Request /\ inbox[i].client \in RpcClients
  <1>1. inbox \in Seq(Request)
    BY DEF RpcTypeOK
  <1>2. \A i \in DOMAIN inbox : inbox[i] \in Request
    BY <1>1
  <1> QED BY <1>2 DEF Request

\* The server is initialized with nothing to do.
LEMMA InitInv == RpcInit => CallsInv
  BY RpcAssumption
     DEF RpcInit, RpcServer, RpcClient, CallsInv, RpcTypeOK, NumberInv, QuietInv, InboxInv, RequestInv, EachCallItsReply, Alive, Request

\* start() makes the socket and sets the flag.
LEMMA StartInv == CallsInv /\ Start => CallsInv'
  <1> SUFFICES ASSUME CallsInv, Start PROVE CallsInv'
    OBVIOUS
  <1>1. srv.starts + 1 \in 0..MaxStarts /\ Bound \in {BindAddress, NoAddress} /\ srv \in RpcServer
    BY RpcAssumption DEF Start, Bound, CallsInv, RpcTypeOK, RpcServer
  <1>2. /\ srv' \in RpcServer /\ srv'.running
        /\ srv'.thread = srv.thread /\ srv'.request = srv.request
        /\ UNCHANGED <<clients, inbox, replies>>
    BY <1>1 DEF Start, RpcServer
  <1> QED
    BY <1>2 DEF CallsInv, RpcTypeOK, NumberInv, QuietInv, InboxInv, RequestInv, EachCallItsReply

\* The rest of start(), stop() and the thread outside its work on a request: neither requests nor
\* replies are touched.
LEMMA ControlInv ==
    ASSUME CallsInv, StartThread \/ Stop \/ Stopped \/ RunInit \/ RunLoop \/ RunFinal
    PROVE  CallsInv'
  <1>1. CASE StartThread
    BY <1>1
       DEF StartThread, RpcServer, CallsInv, RpcTypeOK, NumberInv, QuietInv, InboxInv, RequestInv,
           EachCallItsReply, Alive
  <1>2. CASE Stop
    BY <1>2
       DEF Stop, RpcServer, CallsInv, RpcTypeOK, NumberInv, QuietInv, InboxInv, RequestInv,
           EachCallItsReply, Alive
  <1>3. CASE Stopped
    BY <1>3
       DEF Stopped, RpcServer, CallsInv, RpcTypeOK, NumberInv, QuietInv, InboxInv, RequestInv,
           EachCallItsReply, Alive
  <1>4. CASE RunInit
    BY <1>4
       DEF RunInit, Bound, RpcServer, CallsInv, RpcTypeOK, NumberInv, QuietInv, InboxInv,
           RequestInv, EachCallItsReply, Alive
  <1>5. CASE RunLoop
    BY <1>5
       DEF RunLoop, RpcServer, CallsInv, RpcTypeOK, NumberInv, QuietInv, InboxInv, RequestInv,
           EachCallItsReply, Alive
  <1>6. CASE RunFinal
    BY <1>6
       DEF RunFinal, RpcServer, CallsInv, RpcTypeOK, NumberInv, QuietInv, InboxInv, RequestInv,
           EachCallItsReply, Alive
  <1> QED BY <1>1, <1>2, <1>3, <1>4, <1>5, <1>6

\* A request moves from the socket to the thread.
LEMMA CallReceiveInv == CallsInv /\ Receive => CallsInv'
  <1> SUFFICES ASSUME CallsInv, Receive PROVE CallsInv'
    OBVIOUS
  <1>1. Head(inbox) \in Request /\ Head(inbox) = inbox[1] /\ Tail(inbox) \in Seq(Request)
    BY DEF Receive, CallsInv, RpcTypeOK
  <1>2. /\ DOMAIN inbox' = 1 .. Len(inbox) - 1 /\ DOMAIN inbox = 1 .. Len(inbox)
        /\ Len(inbox) \in Nat \ {0}
        /\ \A i \in DOMAIN inbox' : inbox'[i] = inbox[i + 1]
    BY DEF Receive, CallsInv, RpcTypeOK
  <1>3. RpcTypeOK'
    BY <1>1 DEF Receive, CallsInv, RpcTypeOK, RpcServer
  <1>4. NumberInv' /\ QuietInv' /\ EachCallItsReply'
    BY DEF Receive, CallsInv, RpcTypeOK, RpcServer, NumberInv, QuietInv, EachCallItsReply, Alive
  <1>5. InboxInv'
    BY <1>2 DEF Receive, CallsInv, InboxInv
  <1>6. RequestInv'
    <2>1. srv'.request = inbox[1]
      BY <1>1 DEF Receive, CallsInv, RpcTypeOK, RpcServer
    <2> QED BY <1>1, <1>2, <2>1 DEF Receive, CallsInv, InboxInv, RequestInv
  <1> QED BY <1>3, <1>4, <1>5, <1>6 DEF CallsInv

\* The client whose request was worked on is sent its reply, or nothing.
LEMMA RespondInv == CallsInv /\ Respond => CallsInv'
  <1> SUFFICES ASSUME CallsInv, Respond PROVE CallsInv'
    OBVIOUS
  <1> DEFINE r == srv.request
  <1>1. r \in Request /\ r.client \in RpcClients /\ Reply(r).client = r.client /\ Reply(r).id = r.id
    BY DEF Respond, CallsInv, RequestInv, Request, Reply
  <1>2. /\ srv.thread = "process" /\ srv'.thread \in {"loop", "final"} /\ srv' \in RpcServer
        /\ srv'.app = srv.app /\ srv'.running = srv.running /\ srv'.bound = srv.bound
        /\ UNCHANGED <<clients, inbox>>
    BY DEF Respond, CallsInv, RpcTypeOK, RpcServer
  <1>3. NumberInv' /\ QuietInv' /\ RequestInv'
    BY <1>2 DEF CallsInv, NumberInv, QuietInv, RequestInv, Alive
  <1>4. CASE Reply(r).status = "none"
    <2>1. UNCHANGED replies
      BY <1>4 DEF Respond
    <2> QED BY <1>2, <1>3, <2>1 DEF CallsInv, RpcTypeOK, InboxInv, EachCallItsReply
  <1>5. CASE Reply(r).status # "none"
    <2>1. replies' = [replies EXCEPT ![r.client] = Append(@, Reply(r))]
      BY <1>1, <1>5 DEF Respond
    <2>2. Reply(r) \in Answer
      BY <1>1, <1>5, ReplyType
    <2>3. replies[r.client] = <<>> /\ clients[r.client].pc = "wait" /\ r.id = clients[r.client].id
          /\ \A i \in DOMAIN inbox : inbox[i].client # r.client
      BY <1>2 DEF CallsInv, RequestInv
    <2>4. replies \in [RpcClients -> Seq(Answer)]
      BY DEF CallsInv, RpcTypeOK
    <2>5. replies'[r.client] = Append(<<>>, Reply(r)) /\ \A c \in RpcClients : c # r.client => replies'[c] = replies[c]
      BY <1>1, <2>1, <2>3, <2>4
    <2>6. Append(<<>>, Reply(r)) = <<Reply(r)>>
      BY <2>2
    <2>7. RpcTypeOK'
      <3>1. Append(replies[r.client], Reply(r)) \in Seq(Answer)
        BY <1>1, <2>2, <2>4
      <3>2. replies' \in [RpcClients -> Seq(Answer)]
        BY <1>1, <2>1, <2>4, <3>1
      <3> QED BY <1>2, <3>2 DEF CallsInv, RpcTypeOK
    <2>8. InboxInv'
      BY <1>2, <2>3, <2>5, InboxType DEF CallsInv, InboxInv
    <2>9. EachCallItsReply'
      <3>1. Len(<<Reply(r)>>) = 1 /\ <<Reply(r)>>[1] = Reply(r)
        BY <2>2
      <3>2. Len(replies'[r.client]) <= 1 /\ replies'[r.client][1].id = clients[r.client].id
        BY <1>1, <2>3, <2>5, <2>6, <3>1
      <3>3. r.client \in RpcClients /\ clients[r.client].pc = "wait" /\ clients' = clients
        BY <1>1, <1>2, <2>3
      <3>4. \A c \in RpcClients : c # r.client => replies'[c] = replies[c]
        BY <2>5
      <3> QED
        <4> SUFFICES ASSUME NEW c \in RpcClients
                     PROVE  /\ Len(replies'[c]) <= 1
                            /\ replies'[c] # <<>> => clients[c].pc = "wait" /\ replies'[c][1].id = clients[c].id
          BY <3>3 DEF EachCallItsReply
        <4>1. CASE c = r.client
          BY <3>2, <3>3, <4>1
        <4>2. CASE c # r.client
          BY <3>4, <4>2 DEF CallsInv, EachCallItsReply
        <4> QED BY <4>1, <4>2
    <2> QED BY <1>3, <2>7, <2>8, <2>9 DEF CallsInv
  <1> QED BY <1>4, <1>5

\* A client that does not wait has no request and no reply anywhere.
LEMMA NothingLeft ==
    ASSUME CallsInv, NEW c \in RpcClients, clients[c].pc # "wait"
    PROVE  /\ \A i \in DOMAIN inbox : inbox[i].client # c
           /\ replies[c] = <<>>
           /\ srv.thread = "process" => srv.request.client # c
  BY DEF CallsInv, InboxInv, RequestInv, EachCallItsReply

\* It may therefore change as it likes, as long as it does not wait.
LEMMA IdleInv ==
    ASSUME CallsInv, NEW c \in RpcClients, clients[c].pc # "wait", NEW r \in RpcClient,
           r.pc # "wait", r.pc = "send" => r.id # 0,
           clients' = [clients EXCEPT ![c] = r], UNCHANGED <<srv, inbox, replies>>
    PROVE  CallsInv'
  <1>1. clients'[c] = r /\ \A d \in RpcClients : d # c => clients'[d] = clients[d]
    BY DEF CallsInv, RpcTypeOK
  <1>2. \A i \in DOMAIN inbox : inbox[i].client \in RpcClients /\ inbox[i].client # c
    BY NothingLeft, InboxType DEF CallsInv
  <1>3. RpcTypeOK' /\ NumberInv' /\ QuietInv'
    BY <1>1 DEF CallsInv, RpcTypeOK, NumberInv, QuietInv, Alive
  <1>4. InboxInv'
    BY <1>1, <1>2 DEF CallsInv, InboxInv
  <1>5. RequestInv'
    BY <1>1, NothingLeft DEF CallsInv, RequestInv, Request
  <1>6. EachCallItsReply'
    BY <1>1, NothingLeft DEF CallsInv, EachCallItsReply
  <1> QED BY <1>3, <1>4, <1>5, <1>6 DEF CallsInv

LEMMA ClientInv ==
    ASSUME CallsInv, NEW c \in RpcClients, Connect(c) \/ Disconnect(c) \/ Call(c)
    PROVE  CallsInv'
  <1>1. clients[c] \in RpcClient /\ clients \in [RpcClients -> RpcClient]
    BY DEF CallsInv, RpcTypeOK
  <1>2. CASE Connect(c)
    <2> DEFINE r == [clients[c] EXCEPT !.pc = "idle", !.host = HostAddress(c)]
    <2>1. r \in RpcClient /\ r.pc = "idle" /\ clients[c].pc # "wait"
      BY <1>1, <1>2 DEF Connect, RpcClient
    <2>2. clients' = [clients EXCEPT ![c] = r] /\ UNCHANGED <<srv, inbox, replies>>
      BY <1>1, <1>2 DEF Connect, RpcClient
    <2> QED BY <2>1, <2>2, IdleInv
  <1>3. CASE Disconnect(c)
    <2> DEFINE r == [clients[c] EXCEPT !.pc = "new", !.host = NoAddress]
    <2>1. r \in RpcClient /\ r.pc = "new" /\ clients[c].pc # "wait"
      BY <1>1, <1>3 DEF Disconnect, RpcClient
    <2>2. clients' = [clients EXCEPT ![c] = r] /\ UNCHANGED <<srv, inbox, replies>>
      BY <1>1, <1>3 DEF Disconnect, RpcClient
    <2> QED BY <2>1, <2>2, IdleInv
  <1>4. CASE Call(c)
    <2> DEFINE r == [clients[c] EXCEPT !.pc = "send", !.id = @ + 1]
    <2>1. r \in RpcClient /\ r.pc = "send" /\ r.id # 0 /\ clients[c].pc # "wait"
      BY <1>1, <1>4, RpcAssumption DEF Call, RpcClient
    <2>2. clients' = [clients EXCEPT ![c] = r] /\ UNCHANGED <<srv, inbox, replies>>
      BY <1>1, <1>4 DEF Call, RpcClient
    <2> QED BY <2>1, <2>2, IdleInv
  <1> QED BY <1>2, <1>3, <1>4

\* A client that is sent its reply has no request left.
LEMMA ReceiveReplyInv ==
    ASSUME CallsInv, NEW c \in RpcClients, ReceiveReply(c)
    PROVE  CallsInv'
  <1>1. /\ clients \in [RpcClients -> RpcClient] /\ clients'[c].pc = "idle"
        /\ clients'[c] \in RpcClient
        /\ \A d \in RpcClients : d # c => clients'[d] = clients[d]
        /\ UNCHANGED <<srv, inbox>> /\ replies[c] # <<>>
    BY DEF ReceiveReply, CallsInv, RpcTypeOK, RpcClient
  <1>2. clients' \in [RpcClients -> RpcClient]
    BY <1>1 DEF ReceiveReply
  <1>3. /\ replies' \in [RpcClients -> Seq(Answer)]
        /\ replies'[c] = Tail(replies[c]) /\ \A d \in RpcClients : d # c => replies'[d] = replies[d]
    BY <1>1 DEF ReceiveReply, CallsInv, RpcTypeOK
  <1>4. replies'[c] = <<>>
    BY <1>1, <1>3 DEF CallsInv, RpcTypeOK, EachCallItsReply
  <1>5. /\ \A i \in DOMAIN inbox : inbox[i].client \in RpcClients /\ inbox[i].client # c
        /\ srv.thread = "process" => srv.request.client # c /\ srv.request.client \in RpcClients
    BY <1>1, InboxType DEF CallsInv, InboxInv, RequestInv, Request
  <1>6. RpcTypeOK' /\ NumberInv' /\ QuietInv'
    BY <1>1, <1>2, <1>3 DEF CallsInv, RpcTypeOK, NumberInv, QuietInv, Alive
  <1>7. InboxInv' /\ RequestInv'
    BY <1>1, <1>3, <1>5 DEF CallsInv, InboxInv, RequestInv
  <1>8. EachCallItsReply'
    BY <1>1, <1>3, <1>4 DEF CallsInv, EachCallItsReply
  <1> QED BY <1>6, <1>7, <1>8 DEF CallsInv

\* A client that sends has no other request anywhere.
LEMMA SendInv ==
    ASSUME CallsInv, NEW c \in RpcClients, NEW kind \in Kinds, SendRequest(c, kind)
    PROVE  CallsInv'
  <1> DEFINE r == [client |-> c, id |-> clients[c].id, kind |-> kind]
  <1>1. /\ clients \in [RpcClients -> RpcClient] /\ clients[c] \in RpcClient
        /\ clients[c].pc = "send" /\ inbox' = Append(inbox, r) /\ UNCHANGED <<srv, replies>>
        /\ clients' = [clients EXCEPT ![c] = [clients[c] EXCEPT !.pc = "wait"]]
    BY DEF SendRequest, CallsInv, RpcTypeOK, RpcClient
  <1>2. /\ clients'[c].pc = "wait" /\ clients'[c].id = clients[c].id
        /\ \A d \in RpcClients : d # c => clients'[d] = clients[d]
        /\ clients' \in [RpcClients -> RpcClient]
    BY <1>1 DEF RpcClient
  <1>3. r \in Request
    BY <1>1 DEF CallsInv, NumberInv, Request, RpcClient
  <1>4. /\ DOMAIN inbox = 1 .. Len(inbox) /\ DOMAIN inbox' = 1 .. Len(inbox) + 1 /\ Len(inbox) \in Nat
        /\ inbox' \in Seq(Request) /\ inbox'[Len(inbox) + 1] = r
        /\ \A i \in DOMAIN inbox : inbox'[i] = inbox[i] /\ inbox[i].client \in RpcClients
    BY <1>1, <1>3, InboxType DEF CallsInv, RpcTypeOK
  <1> DEFINE n == Len(inbox) + 1
  <1>n. inbox'[n].client = c /\ inbox'[n].id = clients[c].id
    BY <1>4
  <1>5. /\ \A i \in DOMAIN inbox : inbox[i].client # c
        /\ replies[c] = <<>>
        /\ srv.thread = "process" => srv.request.client # c
    BY <1>1, NothingLeft
  <1>6. RpcTypeOK' /\ NumberInv' /\ QuietInv'
    BY <1>1, <1>2, <1>4 DEF CallsInv, RpcTypeOK, NumberInv, QuietInv, Alive
  <1>7. InboxInv'
    <2>1. \A i \in DOMAIN inbox' :
            /\ clients'[inbox'[i].client].pc = "wait"
            /\ inbox'[i].id = clients'[inbox'[i].client].id
            /\ replies'[inbox'[i].client] = <<>>
      <3> SUFFICES ASSUME NEW i \in DOMAIN inbox'
                   PROVE  /\ clients'[inbox'[i].client].pc = "wait"
                          /\ inbox'[i].id = clients'[inbox'[i].client].id
                          /\ replies'[inbox'[i].client] = <<>>
        OBVIOUS
      <3>1. CASE i = n
        <4>1. inbox'[i].client = c /\ inbox'[i].id = clients[c].id
          BY <1>n, <3>1
        <4>2. replies'[c] = <<>>
          BY <1>1, <1>5
        <4> QED BY <1>2, <4>1, <4>2
      <3>2. CASE i \in DOMAIN inbox
        BY <1>1, <1>2, <1>4, <1>5, <3>2 DEF CallsInv, InboxInv
      <3> QED BY <1>4, <3>1, <3>2
    <2>2. \A i \in DOMAIN inbox : inbox'[i].client # inbox'[Len(inbox) + 1].client
      BY <1>4, <1>5
    <2>3. \A i, j \in DOMAIN inbox' : inbox'[i].client = inbox'[j].client => i = j
      BY <1>4, <2>2 DEF CallsInv, InboxInv
    <2> QED BY <2>1, <2>3 DEF InboxInv
  <1>8. RequestInv'
    <2>1. srv.thread = "process" => srv.request.client \in RpcClients
      BY DEF CallsInv, RequestInv, Request
    <2> QED BY <1>1, <1>2, <1>4, <1>5, <2>1 DEF CallsInv, RequestInv
  <1>9. EachCallItsReply'
    BY <1>1, <1>2, <1>5 DEF CallsInv, EachCallItsReply
  <1> QED BY <1>6, <1>7, <1>8, <1>9 DEF CallsInv

LEMMA NextInv == CallsInv /\ [RpcNext]_rpcVars => CallsInv'
  <1>1. CASE UNCHANGED rpcVars
    BY <1>1
       DEF rpcVars, CallsInv, RpcTypeOK, NumberInv, QuietInv, InboxInv, RequestInv,
           EachCallItsReply, Alive
  <1> QED BY <1>1, StartInv, ControlInv, CallReceiveInv, RespondInv, ClientInv, ReceiveReplyInv, SendInv
     DEF RpcNext

LEMMA Invariant == RpcSpec => []CallsInv
  BY InitInv, NextInv, PTL DEF RpcSpec

--------------------------------------------------------------------------
(* Theorems *)

\* Requests and replies are what the sockets carry, whatever fails.
THEOREM RpcTypes == RpcSpec => []RpcTypeOK
  BY Invariant, PTL DEF CallsInv

\* stop() has ended the thread and released the socket, and no reply is left over for a
\* later call, however the application's and the thread's own use of the flag interleave.
THEOREM Calls == RpcSpec => []CallsHold
  <1>1. CallsInv => CallsHold
    BY DEF CallsInv, CallsHold, QuietInv, StoppedIsQuiet
  <1> QED BY Invariant, <1>1, PTL


-----------------------------------------------------------------------------
(* Publications: the inductive invariant.                                  *)

\* A socket is not shared by threads (ZeroMQ's sockets are not thread safe):
\* the headers of two threads would come to be parts of one message.
OwnPublishers == \A t, u \in Threads : Publisher[t] = Publisher[u] => t = u

Datum == [by : Threads, no : Nat]

\* A complete message: its thread's topic, and the data.
Part == Topics \cup Datum
Publication ==
    {m \in Seq(Part) : Len(m) = 2 /\ m[2] \in Datum /\ m[1] = TopicOf[m[2].by]}

ThreadPoints == {"none", "loop", "receive", "lock", "process", "dead"}

SubType ==
    [handlers : SUBSET Handlers, filters : [Range(FilterOf) -> Nat], keep : BOOLEAN,
     thread : ThreadPoints, message : Publication \cup {<<>>}, todo : SUBSET Handlers,
     app : {"idle", "stopping"}, changes : 0..MaxChanges]

BusShape ==
    /\ writer \in [Threads -> [sent : Nat, header : BOOLEAN]]
    /\ DOMAIN parts = Publishers
    /\ wire \in Seq(Publication)
    /\ sub \in SubType
    /\ heard \in [Handlers -> Seq(Seq(Part))]

\* No filter is counted more often than there were changes.
FilterInv == \A f \in Range(FilterOf) : sub.filters[f] <= sub.changes

\* A publisher has begun a message exactly while its thread has sent a header.
HeaderInv ==
    \A t \in Threads :
        /\ parts[Publisher[t]] = IF writer[t].header THEN <<TopicOf[t]>> ELSE <<>>
        /\ writer[t].header => writer[t].sent > 0

\* Number of the last message that a thread has completed.
Done(t) == IF writer[t].header THEN writer[t].sent - 1 ELSE writer[t].sent

\* Of one thread, the first comes before the second.
Precedes(a, b) == a.by = b.by => a.no < b.no

\* What is on the way was completed, and is in order.
WireInv ==
    \A i \in DOMAIN wire :
        /\ wire[i][2].no <= Done(wire[i][2].by)
        /\ \A j \in 1..(i - 1) : Precedes(wire[j][2], wire[i][2])

Reading == sub.thread \in {"lock", "process"}

\* The message that is read comes before what is on the way.
ReadInv ==
    Reading => /\ sub.message \in Publication
               /\ sub.message[2].no <= Done(sub.message[2].by)
               /\ \A i \in DOMAIN wire : Precedes(sub.message[2], wire[i][2])

\* Those that are to be invoked with it have subscribed to it.
TodoInv ==
    /\ sub.todo \subseteq sub.handlers
    /\ sub.thread # "process" => sub.todo = {}
    /\ \A h \in sub.todo : FilterOf[h] = sub.message[1]

\* What a handler was given comes before what it may yet be given.
HeardInv ==
    \A h \in Handlers : \A i \in DOMAIN heard[h] :
        /\ Len(heard[h][i]) = 1 /\ heard[h][i][1] \in Datum
        /\ TopicOf[heard[h][i][1].by] = FilterOf[h]
        /\ heard[h][i][1].no <= Done(heard[h][i][1].by)
        /\ \A j \in 1..(i - 1) : Precedes(heard[h][j][1], heard[h][i][1])
        /\ \A k \in DOMAIN wire : Precedes(heard[h][i][1], wire[k][2])
        /\ sub.thread = "lock" \/ h \in sub.todo => Precedes(heard[h][i][1], sub.message[2])

BusInv == BusShape /\ FilterInv /\ HeaderInv /\ WireInv /\ ReadInv /\ TodoInv /\ HeardInv

-----------------------------------------------------------------------------
(* Lemmas.                                                                 *)

LEMMA PublicationParts ==
    ASSUME NEW m \in Publication
    PROVE  /\ m[1] = TopicOf[m[2].by] /\ m[2] \in Datum /\ m[2].by \in Threads /\ m[2].no \in Nat
           /\ Head(m) = m[1] /\ Len(m) = 2
           /\ Tail(m) \in Seq(Part) /\ Len(Tail(m)) = 1 /\ Tail(m)[1] = m[2]
<1>1. m \in Seq(Part) /\ Len(m) = 2 /\ m[2] \in Datum /\ m[1] = TopicOf[m[2].by]
  BY DEF Publication
<1>2. Head(m) = m[1] /\ Tail(m) \in Seq(Part) /\ Len(Tail(m)) = 1 /\ Tail(m)[1] = m[2]
  <2> HIDE DEF Part
  <2> QED
    BY <1>1
<1>3. m[2].by \in Threads /\ m[2].no \in Nat
  BY <1>1 DEF Datum
<1> QED
  BY <1>1, <1>2, <1>3

LEMMA NewPublication ==
    ASSUME NEW t \in Threads, NEW n \in Nat, NEW d, d = [by |-> t, no |-> n]
    PROVE  /\ Append(<<TopicOf[t]>>, d) \in Publication
           /\ Append(<<TopicOf[t]>>, d)[1] = TopicOf[t]
           /\ Append(<<TopicOf[t]>>, d)[2] = d
           /\ d.by = t /\ d.no = n
<1>1. d \in Datum /\ TopicOf[t] \in Part /\ d \in Part
  BY DEF Datum, Part, Topics
<1>2. \A x \in Part : /\ Append(<<x>>, d) \in Seq(Part) /\ Len(Append(<<x>>, d)) = 2
                       /\ Append(<<x>>, d)[1] = x /\ Append(<<x>>, d)[2] = d
  BY <1>1
<1>3. d.by = t /\ d.no = n
  OBVIOUS
<1> QED
  BY <1>1, <1>2, <1>3 DEF Publication

\* The elements of a sequence to which one is appended, and those before each.
LEMMA Appended ==
    ASSUME NEW S, NEW s \in Seq(S), NEW e \in S, NEW i \in DOMAIN Append(s, e)
    PROVE  /\ \/ i \in DOMAIN s /\ Append(s, e)[i] = s[i]
              \/ i = Len(s) + 1 /\ Append(s, e)[i] = e
           /\ \A j \in 1..(i - 1) : j \in DOMAIN s /\ Append(s, e)[j] = s[j]
<1>1. Len(Append(s, e)) = Len(s) + 1 /\ Len(s) \in Nat
  OBVIOUS
<1>2. i \in 1..(Len(s) + 1)
  BY <1>1
<1>3. \A j \in 1..Len(s) : Append(s, e)[j] = s[j]
  OBVIOUS
<1> QED
  BY <1>1, <1>2, <1>3

LEMMA WireElements ==
    ASSUME BusShape
    PROVE  \A i \in DOMAIN wire : wire[i] \in Publication /\ wire[i][2] \in Datum
<1>1. \A i \in DOMAIN wire : wire[i] \in Publication
  BY DEF BusShape
<1> QED
  BY <1>1, PublicationParts

\* Min of a count and another one is not more than either.
LEMMA LesserOf ==
    ASSUME NEW a \in Nat, NEW b \in Nat
    PROVE  a - Min({a, b}) \in Nat /\ a - Min({a, b}) <= a
<1>1. \E x \in {a, b} : \A y \in {a, b} : x <= y
  <2>1. CASE a <= b
    BY <2>1
  <2>2. CASE b <= a
    BY <2>2
  <2> QED
    BY <2>1, <2>2
<1>2. Min({a, b}) \in {a, b} /\ \A y \in {a, b} : Min({a, b}) <= y
  BY <1>1 DEF Min
<1> QED
  BY <1>2

\* Steps of the subscriber that leave what was sent and heard as it is.
LEMMA SubMoves ==
    ASSUME BusInv, UNCHANGED <<writer, parts, wire, heard>>,
           sub' \in SubType, FilterInv', TodoInv',
           Reading' => Reading /\ sub'.message = sub.message,
           sub'.thread = "lock" => sub.thread = "lock",
           sub.thread # "lock" => sub'.todo \subseteq sub.todo
    PROVE  BusInv'
<1>1. BusShape' /\ HeaderInv' /\ WireInv'
  BY DEF BusInv, BusShape, HeaderInv, WireInv, Done
<1>2. ReadInv'
  BY DEF BusInv, ReadInv, Done
<1>3. HeardInv'
  <2>1. ASSUME NEW h \in Handlers, NEW i \in DOMAIN heard[h],
               sub'.thread = "lock" \/ h \in sub'.todo
        PROVE  Precedes(heard[h][i][1], sub'.message[2])
    <3>1. Reading' /\ Reading /\ sub'.message = sub.message
      BY <2>1 DEF TodoInv, Reading
    <3>2. sub.thread = "lock" \/ h \in sub.todo
      BY <2>1
    <3> QED
      BY <3>1, <3>2 DEF BusInv, HeardInv
  <2> QED
    BY <2>1 DEF BusInv, HeardInv, Done
<1> QED
  BY <1>1, <1>2, <1>3 DEF BusInv

LEMMA SubFields ==
    ASSUME BusInv
    PROVE  /\ sub \in SubType /\ BusShape /\ FilterInv /\ TodoInv
           /\ ~Locked => sub.todo = {}
  BY DEF BusInv, BusShape, TodoInv, Locked

\* add() and remove() of handlers, and clear(), with the mutex held.
LEMMA ChangeInv ==
    ASSUME BusInv, ~Locked, Change, NEW hs \in SUBSET Handlers,
           NEW fs \in [Range(FilterOf) -> Nat], \A f \in Range(FilterOf) : fs[f] <= sub.changes + 1,
           sub' = [sub EXCEPT !.handlers = hs, !.filters = fs, !.changes = @ + 1]
    PROVE  BusInv'
<1>1. sub \in SubType /\ sub.todo = {} /\ sub.changes + 1 \in 0..MaxChanges
  BY SubFields, PubSubAssumption DEF Change, SubType
<1>2. /\ sub'.handlers = hs /\ sub'.filters = fs /\ sub'.changes = sub.changes + 1
      /\ sub'.thread = sub.thread /\ sub'.todo = sub.todo /\ sub'.message = sub.message
      /\ sub' \in SubType
  BY <1>1 DEF SubType
<1>3. FilterInv' /\ TodoInv'
  BY <1>1, <1>2, SubFields DEF FilterInv, TodoInv
<1> QED
  BY <1>1, <1>2, <1>3, SubMoves DEF Change, Reading

LEMMA AddHandlerInv == ASSUME BusInv, NEW h \in Handlers, AddHandler(h) PROVE BusInv'
<1> DEFINE fs == [sub.filters EXCEPT ![FilterOf[h]] = @ + 1]
           hs == sub.handlers \cup {h}
<1>1. sub \in SubType /\ FilterInv /\ sub.filters \in [Range(FilterOf) -> Nat] /\ sub.changes \in Nat
  BY SubFields DEF SubType
<1>2. fs \in [Range(FilterOf) -> Nat] /\ \A f \in Range(FilterOf) : fs[f] <= sub.changes + 1
  <2>1. ASSUME NEW f \in Range(FilterOf)
        PROVE  fs[f] \in Nat /\ fs[f] <= sub.changes + 1
    <3>1. sub.filters[f] \in Nat /\ sub.filters[f] <= sub.changes
      BY <1>1 DEF FilterInv
    <3>2. fs[f] = sub.filters[f] + 1 \/ fs[f] = sub.filters[f]
      BY <1>1
    <3> QED
      BY <1>1, <3>1, <3>2
  <2>2. DOMAIN fs = Range(FilterOf) /\ fs = [f \in DOMAIN fs |-> fs[f]]
    BY <1>1
  <2> HIDE DEF fs
  <2> QED
    BY <2>1, <2>2
<1>3. hs \in SUBSET Handlers
  BY <1>1 DEF SubType
<1>4. sub' = [sub EXCEPT !.handlers = hs, !.filters = fs, !.changes = @ + 1]
  BY <1>1 DEF AddHandler, SubType
<1>5. ~Locked /\ Change
  BY DEF AddHandler
<1> HIDE DEF fs, hs
<1> QED
  BY <1>2, <1>3, <1>4, <1>5, ChangeInv

LEMMA RemoveHandlerInv == ASSUME BusInv, NEW h \in Handlers, RemoveHandler(h) PROVE BusInv'
<1>1. /\ sub \in SubType /\ FilterInv /\ sub.filters \in [Range(FilterOf) -> Nat]
      /\ sub.changes \in Nat /\ sub.handlers \in SUBSET Handlers
  BY SubFields DEF SubType
<1>2. \A f \in Range(FilterOf) : sub.filters[f] <= sub.changes + 1
  BY <1>1 DEF FilterInv
<1>3. sub' = [sub EXCEPT !.handlers = sub.handlers, !.filters = sub.filters, !.changes = @ + 1]
  BY <1>1 DEF RemoveHandler, SubType
<1>4. ~Locked /\ Change
  BY DEF RemoveHandler
<1> QED
  BY <1>1, <1>2, <1>3, <1>4, ChangeInv

LEMMA ClearInv == ASSUME BusInv, Clear PROVE BusInv'
<1> DEFINE Mine(f) == Cardinality({h \in sub.handlers : FilterOf[h] = f})
           fs == [f \in DOMAIN sub.filters |-> sub.filters[f] - Min({sub.filters[f], Mine(f)})]
<1>1. /\ sub \in SubType /\ FilterInv /\ sub.filters \in [Range(FilterOf) -> Nat]
      /\ sub.changes \in Nat /\ sub.handlers \in SUBSET Handlers
  BY SubFields DEF SubType
<1>2. ASSUME NEW f PROVE Mine(f) \in Nat
  <2>1. IsFiniteSet({h \in sub.handlers : FilterOf[h] = f})
    BY <1>1, PubSubAssumption, FS_Subset
  <2> QED
    BY <2>1, FS_CardinalityType
<1>3. ASSUME NEW f \in Range(FilterOf)
      PROVE  fs[f] \in Nat /\ fs[f] <= sub.filters[f]
  <2>1. fs[f] = sub.filters[f] - Min({sub.filters[f], Mine(f)}) /\ sub.filters[f] \in Nat
    BY <1>1
  <2> HIDE DEF fs, Mine
  <2> QED
    BY <1>2, <2>1, LesserOf
<1>4. fs \in [Range(FilterOf) -> Nat] /\ \A f \in Range(FilterOf) : fs[f] <= sub.changes + 1
  <2>1. ASSUME NEW f \in Range(FilterOf)
        PROVE  fs[f] \in Nat /\ fs[f] <= sub.changes + 1
    <3>1. sub.filters[f] \in Nat /\ sub.filters[f] <= sub.changes
      BY <1>1 DEF FilterInv
    <3> HIDE DEF fs
    <3> QED
      BY <1>1, <1>3, <3>1
  <2>2. DOMAIN fs = Range(FilterOf) /\ fs = [f \in DOMAIN fs |-> fs[f]]
    BY <1>1
  <2> HIDE DEF fs
  <2> QED
    BY <2>1, <2>2
<1>5. sub' = [sub EXCEPT !.handlers = {}, !.filters = fs, !.changes = @ + 1]
  BY <1>1 DEF Clear, SubType
<1>6. ~Locked /\ Change /\ {} \in SUBSET Handlers
  BY DEF Clear
<1> HIDE DEF fs, Mine
<1> QED
  BY <1>4, <1>5, <1>6, ChangeInv

\* The rest of what the application and the thread do with the subscriber.
LEMMA ThreadInv ==
    ASSUME BusInv, UNCHANGED <<writer, parts, wire, heard>>,
           sub' \in SubType, sub'.handlers = sub.handlers, sub'.filters = sub.filters,
           sub'.todo = sub.todo, sub'.changes >= sub.changes,
           sub'.thread \in {"lock", "process"} =>
               sub'.thread = sub.thread /\ sub'.message = sub.message,
           sub.thread = "process" /\ sub'.thread # "process" => sub.todo = {}
    PROVE  BusInv'
<1>1. sub \in SubType /\ FilterInv /\ TodoInv
  BY SubFields
<1>2. FilterInv'
  <2>1. ASSUME NEW f \in Range(FilterOf) PROVE sub.filters[f] <= sub'.changes
    <3>1. /\ sub.filters[f] <= sub.changes /\ sub.filters[f] \in Nat
          /\ sub.changes \in Nat /\ sub'.changes \in Nat
      BY <1>1 DEF FilterInv, SubType
    <3> QED
      BY <3>1
  <2> QED
    BY <2>1 DEF FilterInv
<1>3. TodoInv'
  BY <1>1 DEF TodoInv
<1> QED
  BY <1>1, <1>2, <1>3, SubMoves DEF Reading

LEMMA ApplicationInv ==
    ASSUME BusInv, StartReceiving \/ StopReceiving \/ Joined \/ ReceiveLoop \/ Processed
    PROVE  BusInv'
<1>1. sub \in SubType /\ sub.changes \in Nat /\ (sub.thread # "process" => sub.todo = {})
  BY SubFields DEF SubType, TodoInv
<1>2. CASE StartReceiving
  <2>1. sub.changes + 1 \in 0..MaxChanges
    BY <1>1, <1>2, PubSubAssumption DEF StartReceiving, Change
  <2>2. /\ sub'.handlers = sub.handlers /\ sub'.filters = sub.filters /\ sub'.todo = sub.todo
        /\ sub'.changes = sub.changes + 1 /\ sub'.message = sub.message
        /\ sub'.thread = IF sub.thread \in {"none", "dead"} THEN "loop" ELSE sub.thread
        /\ sub' \in SubType
    BY <1>1, <1>2, <2>1 DEF StartReceiving, SubType, ThreadPoints
  <2> QED
    BY <1>1, <1>2, <2>2, ThreadInv DEF StartReceiving, Change
<1>3. CASE StopReceiving
  <2>1. /\ sub'.handlers = sub.handlers /\ sub'.filters = sub.filters /\ sub'.todo = sub.todo
        /\ sub'.changes = sub.changes /\ sub'.message = sub.message /\ sub'.thread = sub.thread
        /\ sub' \in SubType
    BY <1>1, <1>3 DEF StopReceiving, SubType
  <2> QED
    BY <1>1, <1>3, <2>1, ThreadInv DEF StopReceiving, Change
<1>4. CASE Joined
  <2>1. /\ sub'.handlers = sub.handlers /\ sub'.filters = sub.filters /\ sub'.todo = sub.todo
        /\ sub'.changes = sub.changes /\ sub'.message = sub.message /\ sub'.thread = sub.thread
        /\ sub' \in SubType
    BY <1>1, <1>4 DEF Joined, SubType
  <2> QED
    BY <1>1, <1>4, <2>1, ThreadInv DEF Joined
<1>5. CASE ReceiveLoop
  <2>1. /\ sub'.handlers = sub.handlers /\ sub'.filters = sub.filters /\ sub'.todo = sub.todo
        /\ sub'.changes = sub.changes /\ sub'.message = sub.message
        /\ sub'.thread = IF sub.keep THEN "receive" ELSE "dead"
        /\ sub' \in SubType
    BY <1>1, <1>5 DEF ReceiveLoop, SubType, ThreadPoints
  <2> QED
    BY <1>1, <1>5, <2>1, ThreadInv DEF ReceiveLoop
<1>6. CASE Processed
  <2>1. /\ sub'.handlers = sub.handlers /\ sub'.filters = sub.filters /\ sub'.todo = sub.todo
        /\ sub'.changes = sub.changes /\ sub'.thread = "loop"
        /\ sub' \in SubType
    BY <1>1, <1>6 DEF Processed, SubType, ThreadPoints
  <2> QED
    BY <1>1, <1>6, <2>1, ThreadInv DEF Processed
<1> QED
  BY <1>2, <1>3, <1>4, <1>5, <1>6

LEMMA LockInv == ASSUME BusInv, Lock PROVE BusInv'
<1>1. sub \in SubType /\ FilterInv /\ TodoInv /\ sub.todo = {}
  BY SubFields DEF Lock, TodoInv
<1>2. sub.message \in Publication
  BY DEF BusInv, ReadInv, Reading, Lock
<1>3. ToHandle(sub.message) \subseteq sub.handlers
      /\ \A h \in ToHandle(sub.message) : FilterOf[h] = sub.message[1]
  BY <1>2, PublicationParts DEF ToHandle
<1>4. /\ sub'.handlers = sub.handlers /\ sub'.filters = sub.filters
      /\ sub'.todo = ToHandle(sub.message)
      /\ sub'.changes = sub.changes /\ sub'.thread = "process" /\ sub'.message = sub.message
      /\ sub' \in SubType
  BY <1>1, <1>3 DEF Lock, SubType, ThreadPoints
<1>5. FilterInv' /\ TodoInv'
  BY <1>1, <1>3, <1>4 DEF FilterInv, TodoInv
<1> QED
  BY <1>4, <1>5, SubMoves DEF Reading, Lock

LEMMA ReceiveInv == ASSUME BusInv, ReceiveMessage PROVE BusInv'
<1> DEFINE first == wire[1]
<1>1. /\ sub \in SubType /\ FilterInv /\ TodoInv /\ sub.todo = {}
      /\ BusShape /\ HeaderInv /\ WireInv /\ HeardInv
  BY SubFields DEF ReceiveMessage, TodoInv, BusInv
<1>2. /\ wire \in Seq(Publication) /\ wire # <<>> /\ wire' = Tail(wire)
      /\ UNCHANGED <<writer, parts, heard>>
  BY <1>1 DEF BusShape, ReceiveMessage
<1>3. /\ Head(wire) = first /\ 1 \in DOMAIN wire /\ first \in Publication
      /\ wire' \in Seq(Publication)
      /\ \A i \in DOMAIN wire' : i + 1 \in DOMAIN wire /\ i \in Nat \ {0} /\ wire'[i] = wire[i + 1]
  BY <1>2
<1>4. /\ sub'.handlers = sub.handlers /\ sub'.filters = sub.filters /\ sub'.todo = sub.todo
      /\ sub'.changes = sub.changes /\ sub'.thread = "lock" /\ sub'.message = first
      /\ sub' \in SubType
  <2> HIDE DEF first
  <2> QED
    BY <1>1, <1>3 DEF ReceiveMessage, SubType, ThreadPoints
<1>5. BusShape' /\ FilterInv' /\ HeaderInv' /\ TodoInv'
  BY <1>1, <1>2, <1>3, <1>4 DEF BusShape, FilterInv, HeaderInv, TodoInv
<1> HIDE DEF first
<1>6. \A t : Done(t)' = Done(t)
  BY <1>2 DEF Done
<1>7. WireInv'
  <2>1. ASSUME NEW i \in DOMAIN wire'
        PROVE  /\ wire'[i][2].no <= Done(wire'[i][2].by)
               /\ \A j \in 1..(i - 1) : Precedes(wire'[j][2], wire'[i][2])
    <3>1. wire'[i] = wire[i + 1] /\ i + 1 \in DOMAIN wire /\ i \in Nat \ {0}
      BY <1>3
    <3>2. ASSUME NEW j \in 1..(i - 1) PROVE Precedes(wire'[j][2], wire'[i][2])
      <4>1. j \in DOMAIN wire' /\ j + 1 \in 1..((i + 1) - 1)
        BY <1>2, <3>1
      <4>2. wire'[j] = wire[j + 1]
        BY <1>3, <4>1
      <4> QED
        BY <1>1, <3>1, <4>1, <4>2 DEF WireInv
    <3> QED
      BY <1>1, <3>1, <3>2 DEF WireInv
  <2> QED
    BY <1>6, <2>1 DEF WireInv
<1>8. \A i \in DOMAIN wire' : Precedes(first[2], wire'[i][2])
  <2>1. ASSUME NEW i \in DOMAIN wire' PROVE Precedes(first[2], wire'[i][2])
    <3>1. wire'[i] = wire[i + 1] /\ i + 1 \in DOMAIN wire /\ 1 \in 1..((i + 1) - 1)
      BY <1>3
    <3>2. Precedes(wire[1][2], wire[i + 1][2])
      BY <1>1, <3>1 DEF WireInv
    <3> QED
      BY <3>1, <3>2 DEF first
  <2> QED
    BY <2>1
<1>9. ReadInv'
  <2>1. first[2].no <= Done(first[2].by)
    BY <1>1, <1>3 DEF WireInv, first
  <2> QED
    BY <1>3, <1>4, <1>6, <1>8, <2>1 DEF ReadInv
<1>10. HeardInv'
  <2>1. ASSUME NEW h \in Handlers, NEW i \in DOMAIN heard[h]
        PROVE  /\ \A k \in DOMAIN wire' : Precedes(heard[h][i][1], wire'[k][2])
               /\ Precedes(heard[h][i][1], first[2])
    <3>1. \A k \in DOMAIN wire : Precedes(heard[h][i][1], wire[k][2])
      BY <1>1 DEF HeardInv
    <3> QED
      BY <1>3, <3>1 DEF first
  <2> QED
    BY <1>1, <1>2, <1>4, <1>6, <2>1 DEF HeardInv
<1> QED
  BY <1>5, <1>7, <1>9, <1>10 DEF BusInv

\* A handler is given a message.
LEMMA HandleInv == ASSUME BusInv, NEW h \in Handlers, Handle(h) PROVE BusInv'
<1> DEFINE m == sub.message
<1>1. /\ sub \in SubType /\ FilterInv /\ TodoInv /\ BusShape /\ HeaderInv /\ WireInv /\ HeardInv
      /\ ReadInv /\ Reading /\ h \in sub.todo
  BY DEF Handle, BusInv, BusShape, Reading
<1>2. /\ m \in Publication /\ m[2].no <= Done(m[2].by) /\ FilterOf[h] = m[1]
      /\ \A i \in DOMAIN wire : Precedes(m[2], wire[i][2])
  BY <1>1 DEF ReadInv, TodoInv
<1>3. /\ sub'.handlers = sub.handlers /\ sub'.filters = sub.filters
      /\ sub'.todo = sub.todo \ {h}
      /\ sub'.changes = sub.changes /\ sub'.thread = "process" /\ sub.thread = "process"
      /\ sub'.message = m /\ sub' \in SubType
      /\ UNCHANGED <<writer, parts, wire>>
  BY <1>1 DEF Handle, SubType
<1> HIDE DEF m
<1>4. /\ Tail(m) \in Seq(Part) /\ Len(Tail(m)) = 1 /\ Tail(m)[1] = m[2]
      /\ m[2] \in Datum /\ m[1] = TopicOf[m[2].by]
  BY <1>2, PublicationParts
<1>5. /\ heard' \in [Handlers -> Seq(Seq(Part))]
      /\ \A g \in Handlers \ {h} : heard'[g] = heard[g]
      /\ heard'[h] = Append(heard[h], Tail(m))
      /\ heard[h] \in Seq(Seq(Part))
  BY <1>1, <1>4 DEF Handle, BusShape, m
<1>6. BusShape' /\ FilterInv' /\ HeaderInv' /\ WireInv' /\ ReadInv' /\ TodoInv'
  BY <1>1, <1>2, <1>3, <1>5
     DEF BusShape, FilterInv, HeaderInv, WireInv, ReadInv, TodoInv, Done, Reading
<1>7. \A t : Done(t)' = Done(t)
  BY <1>3 DEF Done
<1>a. \A i \in DOMAIN heard'[h] :
          /\ \/ i \in DOMAIN heard[h] /\ heard'[h][i] = heard[h][i]
             \/ i = Len(heard[h]) + 1 /\ heard'[h][i] = Tail(m)
          /\ \A j \in 1..(i - 1) : j \in DOMAIN heard[h] /\ heard'[h][j] = heard[h][j]
  BY <1>4, <1>5, Appended
<1>8. ASSUME NEW g \in Handlers, NEW i \in DOMAIN heard'[g]
      PROVE  /\ Len(heard'[g][i]) = 1 /\ heard'[g][i][1] \in Datum
             /\ TopicOf[heard'[g][i][1].by] = FilterOf[g]
             /\ heard'[g][i][1].no <= Done(heard'[g][i][1].by)
             /\ \A j \in 1..(i - 1) : Precedes(heard'[g][j][1], heard'[g][i][1])
             /\ \A k \in DOMAIN wire : Precedes(heard'[g][i][1], wire[k][2])
             /\ g \in sub.todo \ {h} => Precedes(heard'[g][i][1], m[2])
  <2>1. CASE g # h
    <3>1. heard'[g] = heard[g]
      BY <1>5, <2>1
    <3> QED
      BY <1>1, <3>1 DEF HeardInv, m
  <2>2. CASE g = h /\ i \in DOMAIN heard[h] /\ heard'[h][i] = heard[h][i]
    <3>1. heard'[g][i] = heard[h][i] /\ \A j \in 1..(i - 1) : heard'[g][j] = heard[h][j]
      BY <1>a, <2>2
    <3> QED
      BY <1>1, <2>2, <3>1 DEF HeardInv
  <2>3. CASE g = h /\ i = Len(heard[h]) + 1 /\ heard'[h][i] = Tail(m)
    <3>1. \A j \in 1..(i - 1) : j \in DOMAIN heard[h] /\ heard'[g][j] = heard[h][j]
      BY <1>a, <2>3
    <3>2. \A j \in 1..(i - 1) : Precedes(heard[h][j][1], m[2])
      BY <1>1, <3>1 DEF HeardInv, m
    <3> QED
      BY <1>2, <1>4, <2>3, <3>1, <3>2
  <2> QED
    BY <1>a, <2>1, <2>2, <2>3
<1>9. HeardInv'
  BY <1>3, <1>7, <1>8 DEF HeardInv
<1> QED
  BY <1>6, <1>9 DEF BusInv

LEMMA HeaderStep == ASSUME BusInv, NEW t \in Threads, OwnPublishers, SendHeader(t) PROVE BusInv'
<1> DEFINE n == writer[t].sent
<1>1. /\ BusShape /\ HeaderInv /\ WireInv /\ HeardInv /\ ReadInv
      /\ n \in Nat /\ ~writer[t].header /\ Publisher[t] \in Publishers
      /\ UNCHANGED <<wire, sub, heard>>
  BY DEF BusInv, BusShape, SendHeader, Publishers
<1>2. /\ writer' \in [Threads -> [sent : Nat, header : BOOLEAN]]
      /\ \A u \in Threads \ {t} : writer'[u] = writer[u]
      /\ writer'[t].header = TRUE /\ writer'[t].sent = n + 1
  BY <1>1 DEF BusShape, SendHeader
<1>3. DOMAIN parts' = Publishers /\ \A u \in Threads \ {t} : parts'[Publisher[u]] = parts[Publisher[u]]
  BY <1>1 DEF SendHeader, BusShape, OwnPublishers
<1>4. parts'[Publisher[t]] = <<TopicOf[t]>>
  <2>1. parts[Publisher[t]] = <<>>
    BY <1>1 DEF HeaderInv
  <2>2. parts'[Publisher[t]] = Append(<<>>, TopicOf[t])
    BY <1>1, <2>1 DEF SendHeader, BusShape
  <2> QED
    BY <2>2
<1>5. HeaderInv'
  <2>1. ASSUME NEW u \in Threads
        PROVE  /\ parts'[Publisher[u]] = IF writer'[u].header THEN <<TopicOf[u]>> ELSE <<>>
               /\ writer'[u].header => writer'[u].sent > 0
    <3>1. CASE u = t
      BY <1>1, <1>2, <1>4, <3>1
    <3>2. CASE u # t
      BY <1>1, <1>2, <1>3, <3>2 DEF HeaderInv
    <3> QED
      BY <3>1, <3>2
  <2> QED
    BY <2>1 DEF HeaderInv
<1>b. BusShape'
  BY <1>1, <1>2, <1>3 DEF BusShape
<1>6. ASSUME NEW u \in Threads PROVE Done(u)' = Done(u)
  BY <1>1, <1>2 DEF Done
<1>7. WireInv' /\ ReadInv' /\ FilterInv' /\ TodoInv'
  <2>1. \A i \in DOMAIN wire : wire[i][2].by \in Threads
    BY <1>1, WireElements DEF Datum
  <2>2. Reading => sub.message[2].by \in Threads
    BY <1>1, PublicationParts DEF ReadInv
  <2> QED
    BY <1>1, <1>6, <2>1, <2>2 DEF WireInv, ReadInv, FilterInv, TodoInv, BusInv, Reading
<1>8. HeardInv'
  BY <1>1, <1>6 DEF HeardInv, Datum
<1> QED
  BY <1>b, <1>5, <1>7, <1>8 DEF BusInv

LEMMA DataStep == ASSUME BusInv, NEW t \in Threads, OwnPublishers, SendData(t) PROVE BusInv'
<1> DEFINE n == writer[t].sent
           d == [by |-> t, no |-> n]
           m == Append(<<TopicOf[t]>>, d)
<1>1. /\ BusShape /\ HeaderInv /\ WireInv /\ HeardInv /\ ReadInv
      /\ n \in Nat /\ writer[t].header /\ Publisher[t] \in Publishers
      /\ UNCHANGED <<sub, heard>>
  BY DEF BusInv, BusShape, SendData, Publishers
<1>2. /\ writer' \in [Threads -> [sent : Nat, header : BOOLEAN]]
      /\ \A u \in Threads \ {t} : writer'[u] = writer[u]
      /\ writer'[t].header = FALSE /\ writer'[t].sent = n
  BY <1>1 DEF BusShape, SendData
<1>3. /\ DOMAIN parts' = Publishers /\ parts'[Publisher[t]] = <<>>
      /\ \A u \in Threads \ {t} : parts'[Publisher[u]] = parts[Publisher[u]]
  BY <1>1 DEF SendData, BusShape, OwnPublishers
<1>4. m \in Publication /\ m[2] = d /\ d.by = t /\ d.no = n
  BY <1>1, NewPublication
<1>5. wire' = Append(wire, m) \/ wire' = wire
  <2>1. parts[Publisher[t]] = <<TopicOf[t]>>
    BY <1>1 DEF HeaderInv
  <2> QED
    BY <2>1 DEF SendData
<1> HIDE DEF m, d
<1>6. BusShape' /\ FilterInv' /\ TodoInv'
  <2>1. wire \in Seq(Publication) /\ sub \in SubType /\ heard \in [Handlers -> Seq(Seq(Part))]
    BY <1>1 DEF BusShape
  <2>2. wire' \in Seq(Publication)
    BY <1>4, <1>5, <2>1
  <2> QED
    BY <1>1, <1>2, <1>3, <2>1, <2>2 DEF BusShape, FilterInv, TodoInv, BusInv
<1>b. HeaderInv'
  <2>1. ASSUME NEW u \in Threads
        PROVE  /\ parts'[Publisher[u]] = IF writer'[u].header THEN <<TopicOf[u]>> ELSE <<>>
               /\ writer'[u].header => writer'[u].sent > 0
    <3>1. CASE u = t
      BY <1>2, <1>3, <3>1
    <3>2. CASE u # t
      BY <1>1, <1>2, <1>3, <3>2 DEF HeaderInv
    <3> QED
      BY <3>1, <3>2
  <2> QED
    BY <2>1 DEF HeaderInv
<1> DEFINE Now(u) == IF writer'[u].header THEN writer'[u].sent - 1 ELSE writer'[u].sent
<1>7. ASSUME NEW u \in Threads
      PROVE  /\ Done(u) \in Int /\ Now(u) \in Int /\ Done(u) <= Now(u)
             /\ u = t => Done(u) < n /\ Now(u) = n
  <2>1. writer[u].sent \in Nat /\ writer[u].header \in BOOLEAN
    BY <1>1 DEF BusShape
  <2> QED
    BY <1>1, <1>2, <2>1 DEF Done
<1> HIDE DEF Now
\* What had been completed before comes before the message.
<1>8. ASSUME NEW e \in Datum, e.no <= Done(e.by)
      PROVE  Precedes(e, d) /\ e.no <= Now(e.by)
  <2>1. e.by \in Threads /\ e.no \in Nat
    BY DEF Datum
  <2> QED
    BY <1>4, <1>7, <1>8, <2>1 DEF Precedes
<1>9. \A i \in DOMAIN wire' :
          /\ \/ i \in DOMAIN wire /\ wire'[i] = wire[i]
             \/ wire'[i] = m
          /\ \A j \in 1..(i - 1) : j \in DOMAIN wire /\ wire'[j] = wire[j]
  <2>1. CASE wire' = Append(wire, m)
    BY <1>1, <1>4, <2>1, Appended DEF BusShape
  <2>2. CASE wire' = wire
    BY <1>1, <2>2 DEF BusShape
  <2> QED
    BY <1>5, <2>1, <2>2
<1>10. \A i \in DOMAIN wire : wire[i][2] \in Datum /\ wire[i][2].no <= Done(wire[i][2].by)
  BY <1>1, WireElements DEF WireInv
<1>11. WireInv'
  <2>1. ASSUME NEW i \in DOMAIN wire'
        PROVE  /\ wire'[i][2].no <= Now(wire'[i][2].by)
               /\ \A j \in 1..(i - 1) : Precedes(wire'[j][2], wire'[i][2])
    <3>1. CASE wire'[i] = m
      <4>1. wire'[i][2].no <= Now(wire'[i][2].by)
        BY <1>1, <1>4, <1>7, <3>1
      <4> QED
        BY <1>4, <1>8, <1>9, <1>10, <3>1, <4>1
    <3>2. CASE i \in DOMAIN wire /\ wire'[i] = wire[i]
      BY <1>1, <1>8, <1>9, <1>10, <3>2 DEF WireInv
    <3> QED
      BY <1>9, <3>1, <3>2
  <2> QED
    BY <2>1 DEF WireInv, Done, Now
<1>12. ReadInv'
  <2>1. CASE Reading
    <3>1. sub.message[2] \in Datum /\ sub.message[2].no <= Done(sub.message[2].by)
      BY <1>1, <2>1, PublicationParts DEF ReadInv
    <3> QED
      BY <1>1, <1>4, <1>8, <1>9, <2>1, <3>1 DEF ReadInv, Reading, Done, Now
  <2> QED
    BY <1>1, <2>1 DEF ReadInv, Reading
<1>13. HeardInv'
  <2>1. ASSUME NEW h \in Handlers, NEW i \in DOMAIN heard[h]
        PROVE  /\ heard[h][i][1].no <= Now(heard[h][i][1].by)
               /\ \A k \in DOMAIN wire' : Precedes(heard[h][i][1], wire'[k][2])
    BY <1>1, <1>4, <1>8, <1>9 DEF HeardInv
  <2> QED
    BY <1>1, <2>1 DEF HeardInv, Done, Now
<1> QED
  BY <1>6, <1>b, <1>11, <1>12, <1>13 DEF BusInv

LEMMA BusInitInv == BusInit => BusInv
<1> SUFFICES ASSUME BusInit PROVE BusInv
  OBVIOUS
<1>1. sub \in SubType
  BY PubSubAssumption DEF BusInit, SubType, ThreadPoints
<1>2. FilterInv /\ TodoInv /\ ~Reading /\ sub.thread # "lock" /\ sub.todo = {}
  BY PubSubAssumption DEF BusInit, FilterInv, TodoInv, Reading
<1>3. BusShape
  BY <1>1 DEF BusInit, BusShape
<1>4. HeaderInv
  BY DEF BusInit, HeaderInv, Publishers
<1>5. WireInv /\ HeardInv /\ ReadInv
  BY <1>2 DEF BusInit, WireInv, HeardInv, ReadInv
<1> QED
  BY <1>1, <1>2, <1>3, <1>4, <1>5 DEF BusInv

LEMMA BusNextInv == OwnPublishers /\ BusInv /\ [BusNext]_busVars => BusInv'
<1> SUFFICES ASSUME OwnPublishers, BusInv, [BusNext]_busVars PROVE BusInv'
  OBVIOUS
<1>1. CASE UNCHANGED busVars
  BY <1>1 DEF busVars, BusInv, BusShape, FilterInv, HeaderInv, WireInv, ReadInv, TodoInv,
              HeardInv, Done, Reading
<1> QED
  BY <1>1, HeaderStep, DataStep, AddHandlerInv, RemoveHandlerInv, HandleInv, ClearInv,
     ApplicationInv, ReceiveInv, LockInv DEF BusNext

\* The subscriber, what is on the way and what handlers were given keep their type, and no
\* filter is counted below zero, however often handlers come and go.
THEOREM BusTypes == ASSUME OwnPublishers PROVE BusSpec => []BusTypeOK
<1>2. BusInv /\ [BusNext]_busVars => BusInv'
  BY BusNextInv
<1>1. BusInv => BusTypeOK
  <2> SUFFICES ASSUME BusInv PROVE BusTypeOK
    OBVIOUS
  <2>1. \A i \in DOMAIN wire : Len(wire[i]) >= 2
    BY WireElements, PublicationParts DEF BusInv
  <2>2. DOMAIN sub.filters = Range(FilterOf)
        /\ \A f \in Range(FilterOf) : sub.filters[f] \in 0..MaxChanges
    <3>1. ASSUME NEW f \in Range(FilterOf) PROVE sub.filters[f] \in 0..MaxChanges
      <4>1. sub.filters[f] \in Nat /\ sub.changes \in 0..MaxChanges /\ sub.filters[f] <= sub.changes
        BY DEF BusInv, BusShape, SubType, FilterInv
      <4> QED
        BY <4>1, PubSubAssumption
    <3> QED
      BY <3>1 DEF BusInv, BusShape, SubType
  <2> QED
    BY <2>1, <2>2 DEF BusInv, BusShape, SubType, ThreadPoints, BusTypeOK
<1> QED
  BY <1>1, <1>2, BusInitInv, PTL DEF BusSpec

\* Handlers are given the data of their own topic only, in the order in which each thread
\* published it and none of it twice, and only while they are subscribed, whichever way
\* publishing, the reader's thread and add(), remove(), clear(), start and stop interleave.
THEOREM Heard == ASSUME OwnPublishers PROVE BusSpec => []HandlersHearTheirs
<1>2. BusInv /\ [BusNext]_busVars => BusInv'
  BY BusNextInv
<1>1. BusInv => HandlersHearTheirs
  BY DEF BusInv, TodoInv, HeardInv, Precedes, HandlersHearTheirs, HearsItsTopic,
         HandledAreSubscribed
<1> QED
  BY <1>1, <1>2, BusInitInv, PTL DEF BusSpec

-----------------------------------------------------------------------------
(* Logs: the inductive invariant.  What is left in a queue is the tail of  *)
(* what was put in it.  Each message is followed along the three places    *)
(* where it can be: taken from the queue (Gone), in the hand of the        *)
(* queue's only worker (HandInv), arrived (ArrivedInv).                    *)

WorkerPCs == {"none", "check", "stream", "get", "send", "end"}

ClientType == [queue : Nat, thread : Nat, pc : {"idle", "end", "join"}, closing : Nat,
               channel : BOOLEAN]
WorkerType == [pc : WorkerPCs, q : Nat, item : Nat, life : Nat]
ServerType == [up : BOOLEAN, log : Seq(Nat \ {End})]
CountType == [messages : Nat, opens : Nat, downs : Nat]
PastType == [put : [Opens -> Seq(Nat)], discarded : SUBSET Nat, lost : SUBSET Nat]

LogShape ==
    /\ client \in ClientType
    /\ queues \in [Opens -> Seq(Nat)]
    /\ workers \in [Opens -> WorkerType]
    /\ stale \in [Opens -> Nat]
    /\ loggers \in [Loggers -> [q : Nat, item : Nat]]
    /\ server \in ServerType
    /\ count \in CountType
    /\ past \in PastType

\* At most one worker lives: that of the open writer, or that which close_writer() waits for.
LiveInv ==
    /\ count.opens <= MaxOpens
    /\ client.queue = client.thread /\ client.queue <= count.opens
    /\ client.closing <= count.opens
    /\ client.pc = "idle" <=> client.closing = 0
    /\ client.pc # "idle" => client.queue = 0
    /\ \A w \in Opens : ~Ended(w) => w \in {client.thread, client.closing}
    /\ \A w \in Opens : w > count.opens => workers[w].pc = "none" /\ workers[w].q = 0

\* How many items were taken from a queue, by whomever.
Gone(q) == Len(past.put[q]) - Len(queues[q])

TailInv ==
    \A q \in Opens :
        /\ Gone(q) \in Nat
        /\ \A i \in 1..Len(queues[q]) : queues[q][i] = past.put[q][i + Gone(q)]

\* A message is put once.
PutInv ==
    /\ \A q \in Opens : past.put[q] # <<>> => q <= count.opens
    /\ \A q \in Opens : \A i \in DOMAIN past.put[q] : past.put[q][i] <= count.messages
    /\ \A q, r \in Opens : \A i \in DOMAIN past.put[q], j \in DOMAIN past.put[r] :
           past.put[q][i] = past.put[r][j] => (q = r /\ i = j) \/ (q # r /\ past.put[q][i] = End)

\* A logging thread has a message of its own, that is nowhere yet.
LoggerInv ==
    \A t \in Loggers : loggers[t].q # 0 =>
        /\ loggers[t].q <= count.opens
        /\ loggers[t].item \in 1..count.messages
        /\ \A u \in Loggers : loggers[u].q # 0 /\ loggers[u].item = loggers[t].item => u = t
        /\ \A q \in Opens : \A i \in DOMAIN past.put[q] : past.put[q][i] # loggers[t].item

\* None is put once, when the writer is closed.
EndInv ==
    \A q \in Opens : \A i \in DOMAIN past.put[q] : past.put[q][i] = End =>
        /\ q # client.queue
        /\ ~ (client.pc = "end" /\ client.closing = q)

\* A worker reads its own queue only; what it has in hand is newer than what has arrived.
HandInv ==
    \A w \in Opens :
        /\ workers[w].q \in {0, w}
        /\ workers[w].pc \in {"get", "send"} => workers[w].q = w
        /\ workers[w].pc = "send" =>
               \E k \in 1..Gone(w) :
                   /\ past.put[w][k] = workers[w].item /\ workers[w].item # End
                   /\ \A m \in DOMAIN server.log : \A i \in DOMAIN past.put[w] :
                          server.log[m] = past.put[w][i] => i < k

ArrivedInv ==
    \A q \in Opens : \A i \in DOMAIN past.put[q] : \A m \in DOMAIN server.log :
        server.log[m] = past.put[q][i] => i <= Gone(q)

\* What has arrived was put.
LoggedInv ==
    \A m \in DOMAIN server.log : \E q \in Opens : \E i \in DOMAIN past.put[q] :
        past.put[q][i] = server.log[m]

NoFaults == count.downs = 0 /\ client.channel

\* As long as nothing failed, what was taken has arrived, but for what was discarded and what
\* the worker has in hand, and a worker that has stopped reading has seen None.
FlushInv ==
    NoFaults =>
        /\ server.up
        /\ \A q \in Opens : stale[q] = 0
        /\ \A w \in Opens : \A i \in 1..Gone(w) :
               \/ past.put[w][i] \in Range(server.log) \cup past.discarded \cup {End}
               \/ workers[w].pc = "send" /\ workers[w].item = past.put[w][i]
        /\ \A w \in Opens : workers[w].q = w /\ workers[w].pc \in {"check", "stream", "end"} =>
               \E i \in 1..Gone(w) : past.put[w][i] = End

LogInv == /\ LogShape /\ LiveInv /\ TailInv /\ PutInv /\ LoggerInv /\ EndInv
          /\ HandInv /\ ArrivedInv /\ LoggedInv /\ InOrder /\ FlushInv

--------------------------------------------------------------------------
LEMMA LogInitInv == LogInit => LogInv
<1> SUFFICES ASSUME LogInit PROVE LogInv
  OBVIOUS
<1>1. LogShape
  BY LogAssumption DEF LogInit, LogShape, ClientType, WorkerType, ServerType, CountType, PastType, WorkerPCs, Opens, End
<1>2. /\ client.queue = 0 /\ client.thread = 0 /\ client.pc = "idle" /\ client.closing = 0
      /\ \A q \in Opens : queues[q] = <<>> /\ past.put[q] = <<>> /\ stale[q] = 0
      /\ \A w \in Opens : workers[w].pc = "none" /\ workers[w].q = 0
      /\ \A t \in Loggers : loggers[t].q = 0
      /\ server.up /\ server.log = <<>> /\ count.opens = 0
  BY DEF LogInit
<1>3. LiveInv /\ HandInv
  BY <1>2, LogAssumption DEF LiveInv, HandInv, Ended
<1>4. \A q \in Opens : Gone(q) = 0
  BY <1>2 DEF Gone
<1>5. TailInv /\ PutInv /\ LoggerInv /\ EndInv
  BY <1>2, <1>4 DEF TailInv, PutInv, LoggerInv, EndInv
<1>6. ArrivedInv /\ LoggedInv /\ InOrder /\ FlushInv
  BY <1>2, <1>4 DEF ArrivedInv, LoggedInv, InOrder, FlushInv
<1> QED BY <1>1, <1>3, <1>5, <1>6 DEF LogInv

--------------------------------------------------------------------------
LEMMA LastOrBefore == \A n \in Nat : \A i \in 1..(n + 1) : i = n + 1 \/ i \in 1..n
  OBVIOUS

LEMMA Beyond == \A g, l, n \in Nat : g + l = n => \A i \in 1..l : i + g \in 1..n
  OBVIOUS

LEMMA Shapes ==
    ASSUME LogInv
    PROVE  /\ client.queue \in Nat /\ client.thread \in Nat /\ client.closing \in Nat
           /\ count.messages \in Nat /\ count.opens \in Nat /\ count.downs \in Nat
           /\ server.log \in Seq(Nat \ {End}) /\ server.up \in BOOLEAN
           /\ \A q \in Opens :
                  /\ q \in Nat /\ q > 0 /\ q <= MaxOpens /\ stale[q] \in Nat
                  /\ queues[q] \in Seq(Nat) /\ past.put[q] \in Seq(Nat)
                  /\ workers[q].pc \in WorkerPCs /\ workers[q].q \in Nat
                  /\ workers[q].item \in Nat /\ workers[q].life \in Nat
           /\ \A t \in Loggers : loggers[t].q \in Nat /\ loggers[t].item \in Nat
<1> USE LogAssumption DEF LogInv, LogShape
<1>1. /\ client.queue \in Nat /\ client.thread \in Nat /\ client.closing \in Nat
      /\ count.messages \in Nat /\ count.opens \in Nat /\ count.downs \in Nat
  BY DEF ClientType, CountType
<1>2. server.log \in Seq(Nat \ {End}) /\ server.up \in BOOLEAN
  BY DEF ServerType
<1>3. ASSUME NEW q \in Opens
      PROVE  /\ q \in Nat /\ q > 0 /\ q <= MaxOpens /\ stale[q] \in Nat
             /\ queues[q] \in Seq(Nat) /\ past.put[q] \in Seq(Nat)
             /\ workers[q].pc \in WorkerPCs /\ workers[q].q \in Nat
             /\ workers[q].item \in Nat /\ workers[q].life \in Nat
  <2>1. q \in Nat /\ q > 0 /\ q <= MaxOpens
    BY DEF Opens
  <2>2. stale[q] \in Nat /\ queues[q] \in Seq(Nat)
    OBVIOUS
  <2>3. past.put[q] \in Seq(Nat)
    BY DEF PastType
  <2>4. /\ workers[q].pc \in WorkerPCs /\ workers[q].q \in Nat
        /\ workers[q].item \in Nat /\ workers[q].life \in Nat
    BY DEF WorkerType
  <2> QED BY <2>1, <2>2, <2>3, <2>4
<1>4. \A t \in Loggers : loggers[t].q \in Nat /\ loggers[t].item \in Nat
  OBVIOUS
<1> QED BY <1>1, <1>2, <1>3, <1>4

LEMMA Lens ==
    ASSUME LogInv, NEW q \in Opens
    PROVE  /\ past.put[q] \in Seq(Nat) /\ queues[q] \in Seq(Nat)
           /\ Len(past.put[q]) \in Nat /\ Len(queues[q]) \in Nat
           /\ DOMAIN past.put[q] = 1..Len(past.put[q])
           /\ DOMAIN queues[q] = 1..Len(queues[q])
           /\ Gone(q) \in Nat /\ Gone(q) <= Len(past.put[q])
           /\ Gone(q) + Len(queues[q]) = Len(past.put[q])
<1>1. past.put[q] \in Seq(Nat) /\ queues[q] \in Seq(Nat)
  BY Shapes
<1>2. /\ Len(past.put[q]) \in Nat /\ Len(queues[q]) \in Nat
      /\ DOMAIN past.put[q] = 1..Len(past.put[q])
      /\ DOMAIN queues[q] = 1..Len(queues[q])
  BY <1>1
<1>3. Gone(q) \in Nat
  BY DEF LogInv, TailInv
<1>4. Gone(q) + Len(queues[q]) = Len(past.put[q])
  BY <1>2 DEF Gone
<1> QED BY <1>1, <1>2, <1>3, <1>4

--------------------------------------------------------------------------
(* Steps that leave the queues and the log as they are. *)

Rests ==
    /\ queues' = queues /\ past'.put = past.put /\ server'.log = server.log
    /\ count.opens <= count'.opens /\ count.messages <= count'.messages
    /\ count'.opens \in Nat /\ count'.messages \in Nat

LEMMA RestGone == ASSUME Rests PROVE \A q \in Opens : Gone(q)' = Gone(q)
  BY DEF Rests, Gone

LEMMA RestQueues ==
    ASSUME LogInv, Rests
    PROVE  TailInv' /\ PutInv' /\ ArrivedInv' /\ LoggedInv' /\ InOrder'
<1>1. TailInv'
  BY RestGone DEF Rests, LogInv, TailInv
<1>2. PutInv'
  <2>1. /\ \A q \in Opens : past.put[q] \in Seq(Nat) /\ q \in Int
        /\ count.opens \in Nat /\ count.messages \in Nat
    BY Shapes
  <2>a. \A q \in Opens : \A i \in DOMAIN past.put[q] : past.put[q][i] \in Nat
    BY <2>1
  <2>2. \A q \in Opens : past'.put[q] # <<>> => q <= count'.opens
    BY <2>1 DEF LogInv, Rests, PutInv
  <2>3. \A q \in Opens : \A i \in DOMAIN past'.put[q] : past'.put[q][i] <= count'.messages
    BY <2>1, <2>a DEF LogInv, Rests, PutInv
  <2>4. \A q, r \in Opens : \A i \in DOMAIN past'.put[q], j \in DOMAIN past'.put[r] :
            past'.put[q][i] = past'.put[r][j]
                => (q = r /\ i = j) \/ (q # r /\ past'.put[q][i] = End)
    BY DEF LogInv, Rests, PutInv
  <2> QED BY <2>2, <2>3, <2>4 DEF PutInv
<1>3. ArrivedInv'
  BY RestGone DEF Rests, LogInv, ArrivedInv
<1>4. InOrder'
  BY DEF Rests, LogInv, InOrder
<1>5. LoggedInv'
  BY DEF Rests, LogInv, LoggedInv
<1> QED BY <1>1, <1>2, <1>3, <1>4, <1>5

LEMMA RestLoggers == ASSUME LogInv, Rests, loggers' = loggers PROVE LoggerInv'
<1>1. SUFFICES ASSUME NEW t \in Loggers, loggers[t].q # 0
      PROVE  /\ loggers[t].q <= count'.opens
             /\ loggers[t].item \in 1..count'.messages
             /\ \A u \in Loggers : loggers[u].q # 0 /\ loggers[u].item = loggers[t].item => u = t
             /\ \A q \in Opens : \A i \in DOMAIN past.put[q] : past.put[q][i] # loggers[t].item
  BY DEF LoggerInv, Rests
<1>2. /\ count.opens \in Nat /\ count.messages \in Nat /\ loggers[t].q \in Nat
      /\ loggers[t].item \in Nat
  BY DEF LogInv, LogShape, CountType
<1> QED BY <1>1, <1>2 DEF LogInv, LoggerInv, Rests

LEMMA RestEnds == ASSUME LogInv, Rests, client' = client PROVE EndInv'
  BY DEF LogInv, Rests, EndInv

\* A worker's hand is empty, or holds what it held.
LEMMA RestHands ==
    ASSUME LogInv, Rests,
           \A w \in Opens :
               /\ workers'[w].q \in {0, w}
               /\ workers'[w].pc \in {"get", "send"} => workers'[w].q = w
               /\ workers'[w].pc = "send" =>
                      workers[w].pc = "send" /\ workers'[w].item = workers[w].item
    PROVE  HandInv'
  BY RestGone DEF Rests, LogInv, HandInv

LoopStopped(w) == workers[w].q = w /\ workers[w].pc \in {"check", "stream", "end"}

LEMMA RestFlush ==
    ASSUME LogInv, Rests,
           NoFaults' => /\ NoFaults /\ server'.up /\ stale' = stale
                        /\ past'.discarded = past.discarded
                        /\ \A w \in Opens :
                               /\ workers[w].pc = "send" =>
                                      workers'[w].pc = "send" /\ workers'[w].item = workers[w].item
                               /\ LoopStopped(w)' => LoopStopped(w)
    PROVE  FlushInv'
  BY RestGone DEF Rests, LogInv, FlushInv, LoopStopped

--------------------------------------------------------------------------

(* The application. *)

LEMMA OpenWriterInv == ASSUME LogInv, OpenWriter PROVE LogInv'
<1> DEFINE n == count.opens + 1
<1>1. n \in Opens /\ n \in Nat
  BY LogAssumption DEF OpenWriter, Opens, LogInv, LogShape, CountType
<1>2. /\ client'.queue = n /\ client'.thread = n /\ client'.pc = "idle"
      /\ client'.closing = client.closing /\ client'.channel = client.channel
      /\ client.pc = "idle" /\ client' \in ClientType
  BY <1>1 DEF OpenWriter, LogInv, LogShape, ClientType
<1>3. /\ count'.opens = n /\ count'.messages = count.messages /\ count'.downs = count.downs
      /\ count' \in CountType
  BY <1>1 DEF OpenWriter, LogInv, LogShape, CountType
<1>4. /\ workers'[n].pc = "check" /\ workers'[n].q = workers[n].q
      /\ \A v \in Opens : v # n => workers'[v] = workers[v]
      /\ workers' \in [Opens -> WorkerType]
  BY <1>1 DEF OpenWriter, LogInv, LogShape, WorkerType, WorkerPCs
<1>5. /\ queues' = queues /\ past' = past /\ loggers' = loggers /\ server' = server
      /\ stale' = stale
  BY DEF OpenWriter
<1>6. Rests
  BY <1>3, <1>5 DEF Rests, LogInv, LogShape, CountType
<1>7. workers[n].pc = "none" /\ workers[n].q = 0
  BY <1>1 DEF LogInv, LogShape, LiveInv, CountType
<1>8. LogShape'
  BY <1>2, <1>3, <1>4, <1>5 DEF LogInv, LogShape
<1>9. \A w \in Opens : Ended(w)
  <2> SUFFICES ASSUME NEW w \in Opens, ~Ended(w) PROVE FALSE
    OBVIOUS
  <2>1. w \in {client.thread, client.closing}
    BY DEF LogInv, LiveInv
  <2>2. client.closing = 0 /\ w # 0
    BY <1>2 DEF LogInv, LiveInv, Opens
  <2> QED BY <2>1, <2>2 DEF OpenWriter, IsWriterOpen
<1>10. LiveInv'
  <2>1. \A w \in Opens : w # n => Ended(w)'
    BY <1>4, <1>9 DEF Ended
  <2>2. \A w \in Opens : w > count'.opens => workers'[w].pc = "none" /\ workers'[w].q = 0
    BY <1>1, <1>3, <1>4 DEF LogInv, LogShape, LiveInv, Opens, CountType
  <2> QED BY <1>1, <1>2, <1>3, <2>1, <2>2, LogAssumption DEF LogInv, LogShape, LiveInv, Opens, CountType
<1>11. LoggerInv'
  BY <1>5, <1>6, RestLoggers
<1>12. EndInv'
  <2>1. \A i \in DOMAIN past.put[n] : FALSE
    BY <1>1, Shapes DEF LogInv, PutInv
  <2> QED BY <1>2, <1>5, <2>1 DEF LogInv, EndInv
<1>13. HandInv'
  BY <1>4, <1>6, <1>7, RestHands DEF LogInv, HandInv
<1>14. FlushInv'
  BY <1>1, <1>2, <1>3, <1>4, <1>5, <1>6, <1>7, RestFlush DEF LogInv, FlushInv, NoFaults, LoopStopped, Opens
<1> QED BY <1>6, <1>8, <1>10, <1>11, <1>12, <1>13, <1>14, RestQueues DEF LogInv

LEMMA CloseWriterInv == ASSUME LogInv, CloseWriter PROVE LogInv'
<1>1. /\ client'.queue = 0 /\ client'.thread = 0 /\ client'.pc = "end"
      /\ client'.closing = client.closing + client.queue /\ client'.channel = client.channel
      /\ client.pc = "idle" /\ client.queue # 0
      /\ client' \in ClientType
  <2>1. client.closing + client.queue \in Nat
    BY Shapes
  <2> QED BY <2>1 DEF CloseWriter, LogInv, LogShape, ClientType
<1>2. client.closing = 0 /\ client'.closing = client.queue
  BY <1>1, Shapes DEF LogInv, LiveInv
<1>3. /\ queues' = queues /\ past' = past /\ loggers' = loggers /\ server' = server
      /\ stale' = stale /\ workers' = workers /\ count' = count
  BY DEF CloseWriter
<1>4. Rests
  BY <1>3, Shapes DEF Rests
<1>5. LogShape'
  BY <1>1, <1>3 DEF LogInv, LogShape
<1>6. LiveInv'
  <2>1. \A w \in Opens : ~Ended(w)' => w \in {client'.thread, client'.closing}
    BY <1>1, <1>2, <1>3, Shapes DEF LogInv, LiveInv, Ended
  <2> QED BY <1>1, <1>2, <1>3, <2>1, Shapes DEF LogInv, LiveInv
<1>7. LoggerInv'
  BY <1>3, <1>4, RestLoggers
<1>8. EndInv'
  BY <1>1, <1>2, <1>3, Shapes DEF LogInv, EndInv
<1>9. HandInv'
  BY <1>3, <1>4, RestHands DEF LogInv, HandInv
<1>10. FlushInv'
  BY <1>1, <1>3, <1>4, RestFlush DEF LogInv, FlushInv, NoFaults, LoopStopped
<1> QED BY <1>4, <1>5, <1>6, <1>7, <1>8, <1>9, <1>10, RestQueues DEF LogInv

LEMMA JoinInv == ASSUME LogInv, Join PROVE LogInv'
<1>1. /\ client'.queue = client.queue /\ client'.thread = client.thread /\ client'.pc = "idle"
      /\ client'.closing = 0 /\ client'.channel = client.channel
      /\ client.pc = "join" /\ Ended(client.closing) /\ client' \in ClientType
  BY DEF Join, LogInv, LogShape, ClientType
<1>2. /\ queues' = queues /\ past' = past /\ loggers' = loggers /\ server' = server
      /\ stale' = stale /\ workers' = workers /\ count' = count
  BY DEF Join
<1>3. Rests
  BY <1>2, Shapes DEF Rests
<1>4. LogShape'
  BY <1>1, <1>2 DEF LogInv, LogShape
<1>5. LiveInv'
  <2>1. \A w \in Opens : ~Ended(w)' => w \in {client'.thread, client'.closing}
    BY <1>1, <1>2 DEF LogInv, LiveInv, Ended
  <2> QED BY <1>1, <1>2, <2>1, Shapes DEF LogInv, LiveInv
<1>6. LoggerInv'
  BY <1>2, <1>3, RestLoggers
<1>7. EndInv'
  BY <1>1, <1>2 DEF LogInv, EndInv
<1>8. HandInv'
  BY <1>2, <1>3, RestHands DEF LogInv, HandInv
<1>9. FlushInv'
  BY <1>1, <1>2, <1>3, RestFlush DEF LogInv, FlushInv, NoFaults, LoopStopped
<1> QED BY <1>3, <1>4, <1>5, <1>6, <1>7, <1>8, <1>9, RestQueues DEF LogInv

LEMMA CloseChannelInv == ASSUME LogInv, CloseChannel PROVE LogInv'
<1>1. /\ client'.queue = client.queue /\ client'.thread = client.thread
      /\ client'.pc = client.pc /\ client'.closing = client.closing /\ ~client'.channel
      /\ client' \in ClientType
  BY DEF CloseChannel, LogInv, LogShape, ClientType
<1>2. /\ queues' = queues /\ past' = past /\ loggers' = loggers /\ server' = server
      /\ stale' = stale /\ workers' = workers /\ count' = count
  BY DEF CloseChannel
<1>3. Rests
  BY <1>2, Shapes DEF Rests
<1>4. LogShape'
  BY <1>1, <1>2 DEF LogInv, LogShape
<1>5. LiveInv'
  BY <1>1, <1>2 DEF LogInv, LiveInv, Ended
<1>6. LoggerInv'
  BY <1>2, <1>3, RestLoggers
<1>7. EndInv'
  BY <1>1, <1>2 DEF LogInv, EndInv
<1>8. HandInv'
  BY <1>2, <1>3, RestHands DEF LogInv, HandInv
<1>9. FlushInv'
  BY <1>1 DEF FlushInv, NoFaults
<1> QED BY <1>3, <1>4, <1>5, <1>6, <1>7, <1>8, <1>9, RestQueues DEF LogInv

LEMMA SubmitInv == ASSUME LogInv, NEW t \in Loggers, Submit(t) PROVE LogInv'
<1> DEFINE n == count.messages + 1
<1>1. /\ count'.messages = n /\ count'.opens = count.opens /\ count'.downs = count.downs
      /\ count' \in CountType
  <2>1. n \in Nat
    BY Shapes
  <2> QED BY <2>1 DEF Submit, LogInv, LogShape, CountType
<1>2. /\ queues' = queues /\ past' = past /\ client' = client /\ server' = server
      /\ stale' = stale /\ workers' = workers
  BY DEF Submit
<1>3. /\ loggers' \in [Loggers -> [q : Nat, item : Nat]]
      /\ loggers'[t].q = client.queue /\ loggers'[t].item = n
      /\ \A u \in Loggers : u # t => loggers'[u] = loggers[u]
  BY Shapes DEF Submit, LogInv, LogShape
<1>4. Rests
  BY <1>1, <1>2, Shapes DEF Rests
<1>5. LogShape'
  BY <1>1, <1>2, <1>3 DEF LogInv, LogShape
<1>6. LiveInv'
  BY <1>1, <1>2 DEF LogInv, LiveInv, Ended
<1>7. LoggerInv'
  <2>1. client.queue <= count.opens
    BY DEF LogInv, LiveInv
  <2>2. \A q \in Opens : \A i \in DOMAIN past.put[q] : past.put[q][i] < n
    BY Shapes DEF LogInv, PutInv
  <2>3. \A u \in Loggers : loggers[u].q # 0 => loggers[u].item < n /\ loggers[u].item > 0
    BY Shapes DEF LogInv, LoggerInv
  <2> SUFFICES ASSUME NEW u \in Loggers, loggers'[u].q # 0
               PROVE  /\ loggers'[u].q <= count'.opens
                      /\ loggers'[u].item \in 1..count'.messages
                      /\ \A v \in Loggers : loggers'[v].q # 0 /\ loggers'[v].item = loggers'[u].item
                                                => v = u
                      /\ \A q \in Opens : \A i \in DOMAIN past.put[q] :
                             past.put[q][i] # loggers'[u].item
    BY <1>2 DEF LoggerInv
  <2>n. n \in Nat /\ n > 0
    BY Shapes
  <2> HIDE DEF n
  <2>4. CASE u = t
    <3>1. \A q \in Opens : \A i \in DOMAIN past.put[q] : past.put[q][i] # n
      BY <2>2, <2>n, Shapes
    <3>2. \A v \in Loggers : loggers'[v].q # 0 /\ loggers'[v].item = n => v = t
      BY <1>3, <2>3, <2>n, Shapes
    <3> QED BY <1>1, <1>3, <2>1, <2>4, <2>n, <3>1, <3>2
  <2>5. CASE u # t
    <3>1. loggers'[u] = loggers[u] /\ loggers[u].item < n /\ loggers[u].item > 0
      BY <1>3, <2>3, <2>5
    <3>2. /\ loggers[u].q <= count.opens /\ loggers[u].item \in Nat
          /\ \A v \in Loggers : loggers[v].q # 0 /\ loggers[v].item = loggers[u].item => v = u
          /\ \A q \in Opens : \A i \in DOMAIN past.put[q] : past.put[q][i] # loggers[u].item
      BY <3>1, Shapes DEF LogInv, LoggerInv
    <3>3. \A v \in Loggers : loggers'[v].q # 0 /\ loggers'[v].item = loggers[u].item => v = u
      BY <1>3, <3>1, <3>2, <2>n
    <3> QED BY <1>1, <3>1, <3>2, <3>3, <2>n
  <2> QED BY <2>4, <2>5
<1>8. EndInv'
  BY <1>2, <1>4, RestEnds
<1>9. HandInv'
  BY <1>2, <1>4, RestHands DEF LogInv, HandInv
<1>10. FlushInv'
  BY <1>1, <1>2, <1>4, RestFlush DEF LogInv, FlushInv, NoFaults, LoopStopped
<1> QED BY <1>4, <1>5, <1>6, <1>7, <1>8, <1>9, <1>10, RestQueues DEF LogInv

LEMMA ServerInv == ASSUME LogInv, ServerDown \/ ServerUp PROVE LogInv'
<1>1. /\ count'.messages = count.messages /\ count'.opens = count.opens
      /\ count'.downs \in Nat /\ count' \in CountType
  <2>1. count.downs + 1 \in Nat
    BY Shapes
  <2>2. CASE ServerDown
    BY <2>1, <2>2, Shapes DEF ServerDown, LogInv, LogShape, CountType
  <2>3. CASE ServerUp
    BY <2>3, Shapes DEF ServerUp, LogInv, LogShape
  <2> QED BY <2>2, <2>3
<1>2. /\ queues' = queues /\ past' = past /\ client' = client /\ loggers' = loggers
      /\ stale' = stale /\ workers' = workers
  BY DEF ServerDown, ServerUp
<1>3. server'.log = server.log /\ server' \in ServerType
  BY DEF ServerDown, ServerUp, LogInv, LogShape, ServerType
<1>4. count'.downs = 0 => count.downs = 0 /\ server'.up
  BY Shapes DEF ServerDown, ServerUp, LogInv, LogShape, CountType, ServerType
<1>5. Rests
  BY <1>1, <1>2, <1>3, Shapes DEF Rests
<1>6. LogShape'
  BY <1>1, <1>2, <1>3 DEF LogInv, LogShape
<1>7. LiveInv'
  BY <1>1, <1>2 DEF LogInv, LiveInv, Ended
<1>8. LoggerInv' /\ EndInv'
  BY <1>2, <1>5, RestLoggers, RestEnds
<1>9. HandInv'
  BY <1>2, <1>5, RestHands DEF LogInv, HandInv
<1>10. FlushInv'
  BY <1>2, <1>4, <1>5, RestFlush DEF LogInv, FlushInv, NoFaults, LoopStopped
<1> QED BY <1>5, <1>6, <1>7, <1>8, <1>9, <1>10, RestQueues DEF LogInv

--------------------------------------------------------------------------
(* The worker, but for what it takes and sends. *)

\* A worker that lives reads no queue but its own.
LEMMA OwnQueue ==
    ASSUME LogInv, NEW w \in Opens, ~Ended(w)
    PROVE  client.queue \in {0, w} /\ w <= count.opens
<1>1. w \in {client.thread, client.closing} /\ w # 0
  BY Shapes DEF LogInv, LiveInv
<1>2. CASE w = client.thread
  BY <1>2 DEF LogInv, LiveInv
<1>3. CASE w = client.closing
  BY <1>1, <1>3 DEF LogInv, LiveInv
<1> QED BY <1>1, <1>2, <1>3

LEMMA CheckInv == ASSUME LogInv, NEW w \in Opens, Check(w) PROVE LogInv'
<1>1. workers[w].pc = "check" /\ ~Ended(w)
  BY DEF Check, Ended
<1>2. client.queue \in {0, w}
  BY <1>1, OwnQueue
<1>3. /\ workers' \in [Opens -> WorkerType]
      /\ \A v \in Opens : v # w => workers'[v] = workers[v]
      /\ \/ workers'[w].pc \in {"stream", "end"} /\ workers'[w].q = workers[w].q
         \/ workers'[w].pc = "get" /\ client.queue # 0 /\ workers'[w].q = client.queue
  <2>1. workers \in [Opens -> WorkerType] /\ count.downs \in Nat /\ client.queue \in Nat
    BY Shapes DEF LogInv, LogShape
  <2>2. CASE transport = "grpc"
    BY <2>1, <2>2 DEF Check, WorkerType, WorkerPCs
  <2>3. CASE transport # "grpc" /\ client.queue = 0
    BY <2>1, <2>3 DEF Check, WorkerType, WorkerPCs
  <2>4. CASE transport # "grpc" /\ client.queue # 0
    BY <2>1, <2>4 DEF Check, WorkerType, WorkerPCs
  <2> QED BY <2>2, <2>3, <2>4
<1>4. /\ queues' = queues /\ past' = past /\ client' = client /\ loggers' = loggers
      /\ stale' = stale /\ server' = server /\ count' = count
  BY DEF Check
<1>5. Rests
  BY <1>4, Shapes DEF Rests
<1>6. LogShape'
  BY <1>3, <1>4 DEF LogInv, LogShape
<1>7. LiveInv'
  <2>1. \A v \in Opens : v # w => (Ended(v)' <=> Ended(v))
    BY <1>3 DEF Ended
  <2>2. w \in {client.thread, client.closing} /\ ~(w > count.opens)
    BY <1>1 DEF LogInv, LiveInv
  <2> QED BY <1>3, <1>4, <2>1, <2>2 DEF LogInv, LiveInv
<1>8. LoggerInv' /\ EndInv'
  BY <1>4, <1>5, RestLoggers, RestEnds
<1>9. HandInv'
  <2>1. \A v \in Opens :
           /\ workers'[v].q \in {0, v}
           /\ workers'[v].pc \in {"get", "send"} => workers'[v].q = v
           /\ workers'[v].pc = "send" => workers[v].pc = "send" /\ workers'[v].item = workers[v].item
    BY <1>2, <1>3 DEF LogInv, HandInv
  <2> QED BY <1>5, <2>1, RestHands
<1>10. FlushInv'
  <2>1. \A v \in Opens : /\ workers[v].pc = "send" => workers'[v] = workers[v]
                         /\ LoopStopped(v)' => LoopStopped(v)
    BY <1>1, <1>3 DEF LoopStopped
  <2> QED BY <1>4, <1>5, <2>1, RestFlush DEF LogInv, FlushInv, NoFaults
<1> QED BY <1>5, <1>6, <1>7, <1>8, <1>9, <1>10, RestQueues DEF LogInv

LEMMA StartIteratorInv == ASSUME LogInv, NEW w \in Opens, StartIterator(w) PROVE LogInv'
<1>1. workers[w].pc = "stream" /\ ~Ended(w)
  BY DEF StartIterator, Ended
<1>2. client.queue \in {0, w}
  BY <1>1, OwnQueue
<1>3. /\ workers' \in [Opens -> WorkerType]
      /\ \A v \in Opens : v # w => workers'[v] = workers[v]
      /\ workers'[w].q = client.queue
      /\ workers'[w].pc = IF client.queue = 0 THEN "check" ELSE "get"
  <2>1. workers \in [Opens -> WorkerType] /\ client.queue \in Nat
    BY Shapes DEF LogInv, LogShape
  <2>2. CASE client.queue = 0
    BY <2>1, <2>2 DEF StartIterator, WorkerType, WorkerPCs
  <2>3. CASE client.queue # 0
    BY <2>1, <2>3 DEF StartIterator, WorkerType, WorkerPCs
  <2> QED BY <2>2, <2>3
<1>4. /\ queues' = queues /\ past' = past /\ client' = client /\ loggers' = loggers
      /\ stale' = stale /\ server' = server /\ count' = count
  BY DEF StartIterator
<1>5. Rests
  BY <1>4, Shapes DEF Rests
<1>6. LogShape'
  BY <1>3, <1>4 DEF LogInv, LogShape
<1>7. LiveInv'
  <2>1. \A v \in Opens : v # w => (Ended(v)' <=> Ended(v))
    BY <1>3 DEF Ended
  <2>2. w \in {client.thread, client.closing} /\ ~(w > count.opens)
    BY <1>1 DEF LogInv, LiveInv
  <2> QED BY <1>3, <1>4, <2>1, <2>2 DEF LogInv, LiveInv
<1>8. LoggerInv' /\ EndInv'
  BY <1>4, <1>5, RestLoggers, RestEnds
<1>9. HandInv'
  <2>1. \A v \in Opens :
           /\ workers'[v].q \in {0, v}
           /\ workers'[v].pc \in {"get", "send"} => workers'[v].q = v
           /\ workers'[v].pc = "send" => workers[v].pc = "send" /\ workers'[v].item = workers[v].item
    BY <1>2, <1>3 DEF LogInv, HandInv
  <2> QED BY <1>5, <2>1, RestHands
<1>10. FlushInv'
  <2>1. \A v \in Opens : /\ workers[v].pc = "send" => workers'[v] = workers[v]
                         /\ LoopStopped(v)' => LoopStopped(v)
    BY <1>1, <1>3, Shapes DEF LoopStopped
  <2> QED BY <1>4, <1>5, <2>1, RestFlush DEF LogInv, FlushInv, NoFaults
<1> QED BY <1>5, <1>6, <1>7, <1>8, <1>9, <1>10, RestQueues DEF LogInv

LEMMA FailInv == ASSUME LogInv, NEW w \in Opens, Fail(w) PROVE LogInv'
<1>1. workers[w].pc \in {"stream", "get", "send"} /\ ~Ended(w) /\ ~NoFaults
  BY Shapes DEF Fail, Ended, NoFaults
<1>2. /\ workers' \in [Opens -> WorkerType]
      /\ \A v \in Opens : v # w => workers'[v] = workers[v]
      /\ workers'[w].q = workers[w].q /\ workers'[w].pc = "check"
  <2>1. workers \in [Opens -> WorkerType]
    BY DEF LogInv, LogShape
  <2> QED BY <2>1 DEF Fail, WorkerType, WorkerPCs, End
<1>3. /\ queues' = queues /\ client' = client /\ loggers' = loggers
      /\ server' = server /\ count' = count
  BY DEF Fail
<1>4. stale' \in [Opens -> Nat]
  <2>1. stale \in [Opens -> Nat]
    BY DEF LogInv, LogShape
  <2>2. CASE workers[w].pc = "get"
    <3>1. workers[w].q = w /\ stale[w] + 1 \in Nat
      BY <2>2, Shapes DEF LogInv, HandInv
    <3>2. stale' = [stale EXCEPT ![w] = stale[w] + 1]
      BY <2>2, <3>1 DEF Fail
    <3> QED BY <2>1, <3>1, <3>2
  <2>3. CASE workers[w].pc # "get"
    BY <2>1, <2>3 DEF Fail
  <2> QED BY <2>2, <2>3
<1>5. past'.put = past.put /\ past' \in PastType
  <2>1. past \in PastType /\ workers[w].item \in Nat
    BY Shapes DEF LogInv, LogShape
  <2> QED BY <2>1 DEF Fail, PastType
<1>6. Rests
  BY <1>3, <1>5, Shapes DEF Rests
<1>7. LogShape'
  BY <1>2, <1>3, <1>4, <1>5 DEF LogInv, LogShape
<1>8. LiveInv'
  <2>1. \A v \in Opens : v # w => (Ended(v)' <=> Ended(v))
    BY <1>2 DEF Ended
  <2>2. w \in {client.thread, client.closing} /\ ~(w > count.opens)
    BY <1>1 DEF LogInv, LiveInv
  <2> QED BY <1>2, <1>3, <2>1, <2>2 DEF LogInv, LiveInv
<1>9. LoggerInv' /\ EndInv'
  BY <1>3, <1>6, RestLoggers, RestEnds
<1>10. HandInv'
  <2>1. \A v \in Opens :
           /\ workers'[v].q \in {0, v}
           /\ workers'[v].pc \in {"get", "send"} => workers'[v].q = v
           /\ workers'[v].pc = "send" => workers[v].pc = "send" /\ workers'[v].item = workers[v].item
    BY <1>2 DEF LogInv, HandInv
  <2> QED BY <1>6, <2>1, RestHands
<1>11. FlushInv'
  BY <1>1, <1>3 DEF FlushInv, NoFaults
<1> QED BY <1>6, <1>7, <1>8, <1>9, <1>10, <1>11, RestQueues DEF LogInv

\* What is sent is newer than all that has arrived.
LEMMA WorkerSendInv == ASSUME LogInv, NEW w \in Opens, Send(w) PROVE LogInv'
<1> DEFINE item == workers[w].item
           log == IF server.up THEN Append(server.log, item) ELSE server.log
<1>1. workers[w].pc = "send" /\ ~Ended(w) /\ workers[w].q = w
  BY DEF Send, Ended, LogInv, HandInv
<1>2. /\ workers' \in [Opens -> WorkerType]
      /\ \A v \in Opens : v # w => workers'[v] = workers[v]
      /\ workers'[w].q = w /\ workers'[w].pc = "get"
  <2>1. workers \in [Opens -> WorkerType]
    BY DEF LogInv, LogShape
  <2> QED BY <1>1, <2>1 DEF Send, WorkerType, WorkerPCs, End
<1>3. PICK k \in 1..Gone(w) :
          /\ past.put[w][k] = item /\ item # End
          /\ \A m \in DOMAIN server.log : \A i \in DOMAIN past.put[w] :
                 server.log[m] = past.put[w][i] => i < k
  BY <1>1 DEF LogInv, HandInv
<1>4. item \in Nat \ {End} /\ k \in Int /\ k <= Gone(w) /\ k \in DOMAIN past.put[w]
  <2>0. workers[w].item \in Nat /\ past.put[w] \in Seq(Nat) /\ queues[w] \in Seq(Nat)
    BY Shapes
  <2> QED BY <1>3, <2>0, Lens
<1>5. server'.up = server.up /\ server'.log = log /\ server' \in ServerType
  <2>1. server \in ServerType
    BY DEF LogInv, LogShape
  <2>2. CASE server.up
    <3>1. server' = [server EXCEPT !.log = Append(server.log, item)]
      BY <2>2 DEF Send
    <3>2. Append(server.log, item) \in Seq(Nat \ {End})
      BY <1>4, Shapes
    <3> QED BY <2>1, <2>2, <3>1, <3>2 DEF ServerType
  <2>3. CASE ~server.up
    BY <2>1, <2>3 DEF Send
  <2> QED BY <2>2, <2>3
<1>6. past'.put = past.put /\ past'.discarded = past.discarded /\ past' \in PastType
  BY <1>4 DEF Send, LogInv, LogShape, PastType
<1>7. /\ queues' = queues /\ client' = client /\ loggers' = loggers
      /\ stale' = stale /\ count' = count
  BY DEF Send
<1>8. /\ \A m \in DOMAIN log : \/ m \in DOMAIN server.log /\ log[m] = server.log[m]
                               \/ log[m] = item /\ \A n \in DOMAIN log : n <= m
      /\ server.up => \E m \in DOMAIN log : log[m] = item
      /\ \A m \in DOMAIN server.log : m \in DOMAIN log /\ log[m] = server.log[m]
      /\ \A m \in DOMAIN log : m \in Int
  <2>1. server.log \in Seq(Nat \ {End})
    BY Shapes
  <2> HIDE DEF item
  <2>2. CASE server.up
    <3>1. Len(log) = Len(server.log) + 1 /\ Len(server.log) \in Nat /\ log \in Seq(Nat \ {End})
      BY <1>4, <2>1, <2>2
    <3>2. /\ \A m \in 1..Len(server.log) : log[m] = server.log[m]
          /\ log[Len(server.log) + 1] = item
      BY <1>4, <2>1, <2>2
    <3>3. DOMAIN log = 1..Len(log) /\ DOMAIN server.log = 1..Len(server.log)
      BY <2>1, <3>1
    <3> HIDE DEF log
    <3> QED BY <3>1, <3>2, <3>3
  <2>3. CASE ~server.up
    BY <2>1, <2>3
  <2> QED BY <2>2, <2>3
<1> HIDE DEF item, log
<1>9. LogShape'
  BY <1>2, <1>5, <1>6, <1>7 DEF LogInv, LogShape
<1>10. LiveInv'
  <2>1. \A v \in Opens : v # w => (Ended(v)' <=> Ended(v))
    BY <1>2 DEF Ended
  <2>2. w \in {client.thread, client.closing} /\ ~(w > count.opens)
    BY <1>1 DEF LogInv, LiveInv
  <2> QED BY <1>2, <1>7, <2>1, <2>2 DEF LogInv, LiveInv
<1>11. \A q \in Opens : Gone(q)' = Gone(q)
  BY <1>6, <1>7 DEF Gone
<1>12. TailInv' /\ PutInv' /\ LoggerInv' /\ EndInv'
  BY <1>6, <1>7, <1>11 DEF LogInv, TailInv, PutInv, LoggerInv, EndInv
\* The item was put in this queue only, and once.
<1>13. \A q \in Opens : \A i \in DOMAIN past.put[q] : past.put[q][i] = item => q = w /\ i = k
  BY <1>3, <1>4 DEF LogInv, PutInv
<1>14. \A q \in Opens : \A i \in DOMAIN past.put[q] : i \in Int /\ Gone(q) \in Int
  BY Shapes DEF LogInv, TailInv
<1>15. ArrivedInv'
  <2> SUFFICES ASSUME NEW q \in Opens, NEW i \in DOMAIN past.put[q], NEW m \in DOMAIN log,
                      log[m] = past.put[q][i]
               PROVE  i <= Gone(q)
    BY <1>5, <1>6, <1>11 DEF ArrivedInv
  <2> QED BY <1>4, <1>8, <1>13 DEF LogInv, ArrivedInv
<1>16. InOrder'
  <2> SUFFICES ASSUME NEW q \in Opens, NEW i \in DOMAIN past.put[q], NEW j \in DOMAIN past.put[q],
                      NEW m \in DOMAIN log, NEW n \in DOMAIN log, m < n,
                      log[m] = past.put[q][i], log[n] = past.put[q][j]
               PROVE  i < j
    BY <1>5, <1>6 DEF InOrder
  <2>1. m \in DOMAIN server.log /\ log[m] = server.log[m]
    BY <1>8
  <2>2. CASE n \in DOMAIN server.log /\ log[n] = server.log[n]
    BY <2>1, <2>2 DEF LogInv, InOrder
  <2>3. CASE log[n] = item
    BY <1>3, <1>13, <2>1, <2>3
  <2> QED BY <1>8, <2>2, <2>3
<1>17. HandInv'
  <2>1. \A v \in Opens : v # w =>
            \A m \in DOMAIN log : \A i \in DOMAIN past.put[v] :
                log[m] = past.put[v][i] => m \in DOMAIN server.log /\ log[m] = server.log[m]
    BY <1>8, <1>13
  <2> SUFFICES ASSUME NEW v \in Opens
               PROVE  /\ workers'[v].q \in {0, v}
                      /\ workers'[v].pc \in {"get", "send"} => workers'[v].q = v
                      /\ workers'[v].pc = "send" =>
                             \E l \in 1..Gone(v) :
                                 /\ past.put[v][l] = workers'[v].item /\ workers'[v].item # End
                                 /\ \A m \in DOMAIN log : \A i \in DOMAIN past.put[v] :
                                        log[m] = past.put[v][i] => i < l
    BY <1>5, <1>6, <1>11 DEF HandInv
  <2>2. CASE v = w
    BY <1>2, <2>2
  <2>3. CASE v # w
    BY <1>2, <2>1, <2>3 DEF LogInv, HandInv
  <2> QED BY <2>2, <2>3
<1>18. FlushInv'
  <2> SUFFICES ASSUME NoFaults
               PROVE  /\ server.up
                      /\ \A q \in Opens : stale[q] = 0
                      /\ \A v \in Opens : \A i \in 1..Gone(v) :
                             \/ past.put[v][i] \in Range(log) \cup past.discarded \cup {End}
                             \/ workers'[v].pc = "send" /\ workers'[v].item = past.put[v][i]
                      /\ \A v \in Opens : LoopStopped(v)' => \E i \in 1..Gone(v) : past.put[v][i] = End
    BY <1>5, <1>6, <1>7, <1>11 DEF FlushInv, NoFaults, LoopStopped
  <2>1. server.up /\ (\A q \in Opens : stale[q] = 0)
    BY DEF LogInv, FlushInv
  <2>2. Range(server.log) \subseteq Range(log) /\ item \in Range(log)
    BY <1>8, <2>1 DEF Range
  <2>3. ASSUME NEW v \in Opens, NEW i \in 1..Gone(v)
        PROVE  \/ past.put[v][i] \in Range(log) \cup past.discarded \cup {End}
               \/ workers'[v].pc = "send" /\ workers'[v].item = past.put[v][i]
    <3>1. \/ past.put[v][i] \in Range(server.log) \cup past.discarded \cup {End}
          \/ workers[v].pc = "send" /\ workers[v].item = past.put[v][i]
      BY DEF LogInv, FlushInv
    <3> QED BY <1>2, <2>2, <3>1 DEF item
  <2>4. \A v \in Opens : LoopStopped(v)' => v # w /\ LoopStopped(v)
    BY <1>2 DEF LoopStopped
  <2> QED BY <2>1, <2>3, <2>4 DEF LogInv, FlushInv, LoopStopped
<1>19. LoggedInv'
  <2> SUFFICES ASSUME NEW m \in DOMAIN log
               PROVE  \E q \in Opens : \E i \in DOMAIN past.put[q] : past.put[q][i] = log[m]
    BY <1>5, <1>6 DEF LoggedInv
  <2>1. CASE m \in DOMAIN server.log /\ log[m] = server.log[m]
    BY <2>1 DEF LogInv, LoggedInv
  <2>2. CASE log[m] = item
    BY <1>3, <1>4, <2>2
  <2> QED BY <1>8, <2>1, <2>2
<1> QED BY <1>9, <1>10, <1>12, <1>15, <1>16, <1>17, <1>18, <1>19 DEF LogInv

--------------------------------------------------------------------------
(* What is put in a queue. *)

\* An item x, new or None, is put in the queue of an opening; log and workers stay.
Puts(q, x) ==
    /\ queues' = [queues EXCEPT ![q] = Append(@, x)]
    /\ past'.put = [past.put EXCEPT ![q] = Append(@, x)]
    /\ past'.discarded = past.discarded
    /\ past' \in PastType
    /\ UNCHANGED <<workers, stale, server, count>>

LEMMA PutsFacts ==
    ASSUME LogInv, NEW q \in Opens, NEW x \in Nat, Puts(q, x)
    PROVE  /\ queues' \in [Opens -> Seq(Nat)]
           /\ \A r \in Opens : r # q => queues'[r] = queues[r] /\ past'.put[r] = past.put[r]
           /\ Len(queues'[q]) = Len(queues[q]) + 1
           /\ DOMAIN past'.put[q] = 1..(Len(past.put[q]) + 1)
           /\ past'.put[q][Len(past.put[q]) + 1] = x
           /\ \A i \in 1..Len(past.put[q]) : past'.put[q][i] = past.put[q][i]
           /\ queues'[q][Len(queues[q]) + 1] = x
           /\ \A i \in 1..Len(queues[q]) : queues'[q][i] = queues[q][i]
           /\ \A r \in Opens : Gone(r)' = Gone(r)
<1>1. /\ queues[q] \in Seq(Nat) /\ past.put[q] \in Seq(Nat)
      /\ queues \in [Opens -> Seq(Nat)] /\ past.put \in [Opens -> Seq(Nat)]
  BY Shapes DEF LogInv, LogShape, PastType
<1>2. queues'[q] = Append(queues[q], x) /\ past'.put[q] = Append(past.put[q], x)
  BY <1>1 DEF Puts
<1>3. \A r \in Opens : r # q => queues'[r] = queues[r] /\ past'.put[r] = past.put[r]
  BY <1>1 DEF Puts
<1>4. queues' \in [Opens -> Seq(Nat)]
  BY <1>1 DEF Puts
<1>5. /\ Len(queues'[q]) = Len(queues[q]) + 1 /\ Len(past'.put[q]) = Len(past.put[q]) + 1
      /\ DOMAIN past'.put[q] = 1..(Len(past.put[q]) + 1)
      /\ past'.put[q][Len(past.put[q]) + 1] = x
      /\ \A i \in 1..Len(past.put[q]) : past'.put[q][i] = past.put[q][i]
      /\ queues'[q][Len(queues[q]) + 1] = x
      /\ \A i \in 1..Len(queues[q]) : queues'[q][i] = queues[q][i]
  BY <1>1, <1>2
<1>6. \A r \in Opens : Gone(r)' = Gone(r)
  <2> TAKE r \in Opens
  <2>1. CASE r = q
    <3>1. Len(past'.put[q]) - Len(queues'[q]) = Len(past.put[q]) - Len(queues[q])
      BY <1>5, Lens
    <3> QED BY <2>1, <3>1 DEF Gone
  <2>2. CASE r # q
    BY <1>3, <2>2 DEF Gone
  <2> QED BY <2>1, <2>2
<1> QED BY <1>3, <1>4, <1>5, <1>6

\* Where an item is after the step: where it was, or at the end of the queue.
LEMMA PutsWhere ==
    ASSUME LogInv, NEW q \in Opens, NEW x \in Nat, Puts(q, x)
    PROVE  \A r \in Opens : \A i \in DOMAIN past'.put[r] :
               \/ i \in DOMAIN past.put[r] /\ past'.put[r][i] = past.put[r][i]
               \/ r = q /\ i = Len(past.put[q]) + 1 /\ past'.put[r][i] = x
<1> DEFINE n == Len(past.put[q]) + 1
<1>1. DOMAIN past.put[q] = 1..Len(past.put[q])
  BY Lens
<1> QED
  <2> TAKE r \in Opens
  <2>1. CASE r # q
    <3>1. past'.put[r] = past.put[r]
      BY PutsFacts, <2>1
    <3> QED BY <3>1
  <2>2. CASE r = q
    <3>1. DOMAIN past'.put[q] = 1..n /\ past'.put[q][n] = x
      BY PutsFacts
    <3>2. \A i \in 1..n : i = n \/ i \in 1..Len(past.put[q])
      <4>1. Len(past.put[q]) \in Nat
        BY Lens
      <4> QED BY <4>1, LastOrBefore
    <3>3. \A i \in 1..Len(past.put[q]) : past'.put[q][i] = past.put[q][i]
      BY PutsFacts
    <3> HIDE DEF n
    <3>4. \A i \in 1..n :
              \/ i \in DOMAIN past.put[q] /\ past'.put[q][i] = past.put[q][i]
              \/ i = n /\ past'.put[q][i] = x
      BY <1>1, <3>1, <3>2, <3>3
    <3> QED BY <2>2, <3>1, <3>4 DEF n
  <2> QED BY <2>1, <2>2

LEMMA PutsKeep ==
    ASSUME LogInv, NEW q \in Opens, NEW x \in Nat, Puts(q, x)
    PROVE  \A r \in Opens : \A i \in DOMAIN past.put[r] :
               i \in DOMAIN past'.put[r] /\ past'.put[r][i] = past.put[r][i]
<1> TAKE r \in Opens
<1>1. CASE r # q
  <2>1. past'.put[r] = past.put[r]
    BY PutsFacts, <1>1
  <2> QED BY <2>1
<1>2. CASE r = q
  <2>1. /\ DOMAIN past.put[q] = 1..Len(past.put[q]) /\ Len(past.put[q]) \in Nat
    BY Lens
  <2>2. \A i \in 1..Len(past.put[q]) : i \in 1..(Len(past.put[q]) + 1)
    BY <2>1
  <2>3. DOMAIN past'.put[q] = 1..(Len(past.put[q]) + 1)
    BY PutsFacts
  <2>4. \A i \in 1..Len(past.put[q]) : past'.put[q][i] = past.put[q][i]
    BY PutsFacts
  <2> QED BY <1>2, <2>1, <2>2, <2>3, <2>4
<1> QED BY <1>1, <1>2

LEMMA PutsQueues ==
    ASSUME LogInv, NEW q \in Opens, NEW x \in Nat, Puts(q, x),
           q <= count.opens, x <= count.messages,
           \A r \in Opens : \A i \in DOMAIN past.put[r] :
               past.put[r][i] = x => r # q /\ x = End
    PROVE  TailInv' /\ PutInv'
<1> DEFINE n == Len(past.put[q]) + 1
<1>1. /\ \A r \in Opens : /\ DOMAIN past.put[r] = 1..Len(past.put[r]) /\ Len(past.put[r]) \in Nat
                          /\ Len(queues[r]) \in Nat /\ Gone(r) \in Nat
      /\ count' = count
  BY Lens DEF Puts
<1>2. n \in Nat /\ Gone(q) + Len(queues[q]) + 1 = n
  BY Lens
<1>3. TailInv'
  <2> SUFFICES ASSUME NEW r \in Opens
               PROVE  \A i \in 1..Len(queues'[r]) : queues'[r][i] = past'.put[r][i + Gone(r)]
    BY PutsFacts, <1>1 DEF TailInv
  <2>1. CASE r # q
    <3>1. queues'[r] = queues[r] /\ past'.put[r] = past.put[r]
      BY PutsFacts, <2>1
    <3> QED BY <3>1 DEF LogInv, TailInv
  <2>2. CASE r = q
    <3> SUFFICES ASSUME NEW i \in 1..(Len(queues[q]) + 1)
                 PROVE  queues'[q][i] = past'.put[q][i + Gone(q)]
      BY PutsFacts, <2>2
    <3>1. CASE i = Len(queues[q]) + 1
      <4>1. i + Gone(q) = n
        BY <1>1, <1>2, <3>1
      <4>2. queues'[q][i] = x /\ past'.put[q][n] = x
        BY PutsFacts, <3>1
      <4> HIDE DEF n
      <4> QED BY <4>1, <4>2, Zenon
    <3>2. CASE i # Len(queues[q]) + 1
      <4>1. i \in 1..Len(queues[q]) /\ i + Gone(q) \in 1..Len(past.put[q])
        <5>1. i \in 1..Len(queues[q])
          BY <1>1, <3>2, LastOrBefore
        <5>2. /\ Len(past.put[q]) \in Nat /\ Len(queues[q]) \in Nat /\ Gone(q) \in Nat
              /\ Gone(q) + Len(queues[q]) = Len(past.put[q])
          BY Lens
        <5> QED BY <5>1, <5>2, Beyond
      <4>2. queues[q][i] = past.put[q][i + Gone(q)]
        BY <4>1 DEF LogInv, TailInv
      <4> QED BY PutsFacts, <4>1, <4>2
    <3> QED BY <3>1, <3>2
  <2> QED BY <2>1, <2>2
<1>4. \A r \in Opens : \A i \in DOMAIN past'.put[r] :
          \/ i \in DOMAIN past.put[r] /\ past'.put[r][i] = past.put[r][i]
          \/ r = q /\ i = n /\ past'.put[r][i] = x
  BY PutsWhere
<1> HIDE DEF n
<1>5. PutInv'
  <2>1. \A r \in Opens : past'.put[r] # <<>> => r <= count.opens
    BY PutsFacts DEF LogInv, PutInv
  <2>2. \A r \in Opens : \A i \in DOMAIN past'.put[r] : past'.put[r][i] <= count.messages
    BY <1>4 DEF LogInv, PutInv
  <2>3. ASSUME NEW r \in Opens, NEW s \in Opens, NEW i \in DOMAIN past'.put[r],
               NEW j \in DOMAIN past'.put[s], past'.put[r][i] = past'.put[s][j]
        PROVE  (r = s /\ i = j) \/ (r # s /\ past'.put[r][i] = End)
    <3>1. CASE i \in DOMAIN past.put[r] /\ past'.put[r][i] = past.put[r][i]
      <4>1. CASE j \in DOMAIN past.put[s] /\ past'.put[s][j] = past.put[s][j]
        <5>1. past.put[r][i] = past.put[s][j]
          BY <2>3, <3>1, <4>1
        <5>2. (r = s /\ i = j) \/ (r # s /\ past.put[r][i] = End)
          BY <3>1, <4>1, <5>1 DEF LogInv, PutInv
        <5> QED BY <3>1, <5>2
      <4>2. CASE s = q /\ j = n /\ past'.put[s][j] = x
        BY <2>3, <3>1, <4>2
      <4> QED BY <1>4, <4>1, <4>2
    <3>2. CASE r = q /\ i = n /\ past'.put[r][i] = x
      <4>1. CASE j \in DOMAIN past.put[s] /\ past'.put[s][j] = past.put[s][j]
        BY <2>3, <3>2, <4>1
      <4>2. CASE s = q /\ j = n /\ past'.put[s][j] = x
        BY <3>2, <4>2
      <4> QED BY <1>4, <4>1, <4>2
    <3> QED BY <1>4, <3>1, <3>2
  <2> QED BY <1>1, <2>1, <2>2, <2>3 DEF PutInv
<1> QED BY <1>3, <1>5

\* A put does not touch what was taken, sent or discarded.
LEMMA PutsLog ==
    ASSUME LogInv, NEW q \in Opens, NEW x \in Nat, Puts(q, x), client'.channel = client.channel,
           \A m \in DOMAIN server.log : server.log[m] # x
    PROVE  HandInv' /\ ArrivedInv' /\ LoggedInv' /\ InOrder' /\ FlushInv'
<1>1. /\ workers' = workers /\ stale' = stale /\ server' = server /\ count' = count
      /\ past'.discarded = past.discarded
  BY DEF Puts
<1>2. \A r \in Opens : \A i \in DOMAIN past'.put[r] :
          (\E m \in DOMAIN server.log : server.log[m] = past'.put[r][i])
              => i \in DOMAIN past.put[r] /\ past'.put[r][i] = past.put[r][i]
  BY PutsWhere
<1>3. \A r \in Opens : \A i \in 1..Gone(r) : past'.put[r][i] = past.put[r][i]
  <2> TAKE r \in Opens
  <2>1. \A i \in 1..Gone(r) : i \in 1..Len(past.put[r])
    BY Lens
  <2>2. CASE r = q
    <3>1. \A i \in 1..Len(past.put[q]) : past'.put[q][i] = past.put[q][i]
      BY PutsFacts
    <3> QED BY <2>1, <2>2, <3>1
  <2>3. CASE r # q
    BY PutsFacts, <2>3
  <2> QED BY <2>2, <2>3
<1>4. \A r \in Opens : Gone(r)' = Gone(r)
  BY PutsFacts
<1>5. ArrivedInv' /\ LoggedInv'
  <2>1. ArrivedInv'
    BY <1>1, <1>2, <1>4 DEF LogInv, ArrivedInv
  <2>2. LoggedInv'
    BY <1>1, PutsKeep DEF LogInv, LoggedInv
  <2> QED BY <2>1, <2>2
<1>6. InOrder'
  BY <1>1, <1>2 DEF LogInv, InOrder
<1>7. HandInv'
  <2> SUFFICES ASSUME NEW w \in Opens, workers[w].pc = "send"
               PROVE  \E k \in 1..Gone(w) :
                          /\ past'.put[w][k] = workers[w].item /\ workers[w].item # End
                          /\ \A m \in DOMAIN server.log : \A i \in DOMAIN past'.put[w] :
                                 server.log[m] = past'.put[w][i] => i < k
    BY <1>1, <1>4 DEF LogInv, HandInv
  <2>1. PICK k \in 1..Gone(w) :
            /\ past.put[w][k] = workers[w].item /\ workers[w].item # End
            /\ \A m \in DOMAIN server.log : \A i \in DOMAIN past.put[w] :
                   server.log[m] = past.put[w][i] => i < k
    BY DEF LogInv, HandInv
  <2> QED BY <1>2, <1>3, <2>1
<1>8. FlushInv'
  <2> SUFFICES ASSUME NoFaults
               PROVE  /\ server.up
                      /\ \A r \in Opens : stale[r] = 0
                      /\ \A w \in Opens : \A i \in 1..Gone(w) :
                             \/ past'.put[w][i] \in Range(server.log) \cup past.discarded \cup {End}
                             \/ workers[w].pc = "send" /\ workers[w].item = past'.put[w][i]
                      /\ \A w \in Opens : LoopStopped(w) => \E i \in 1..Gone(w) : past'.put[w][i] = End
    BY <1>1, <1>4 DEF FlushInv, NoFaults, LoopStopped
  <2> QED BY <1>3 DEF LogInv, FlushInv, LoopStopped
<1> QED BY <1>5, <1>6, <1>7, <1>8

LEMMA PutEndInv == ASSUME LogInv, PutEnd, Waits = TRUE PROVE LogInv'
<1> DEFINE q == client.closing
<1>1. /\ client.pc = "end" /\ client' = [client EXCEPT !.pc = "join"]
      /\ loggers' = loggers /\ workers' = workers /\ stale' = stale /\ server' = server
      /\ count' = count
  BY DEF PutEnd
<1>2. /\ client'.queue = client.queue /\ client'.thread = client.thread
      /\ client'.closing = client.closing /\ client'.channel = client.channel
      /\ client'.pc = "join" /\ client' \in ClientType
  BY <1>1 DEF LogInv, LogShape, ClientType
<1>3. q \in Opens /\ q <= count.opens /\ q # client.queue
  BY <1>1, Shapes, LogAssumption DEF LogInv, LiveInv, Opens
<1>4. Puts(q, End)
  <2>1. past \in PastType /\ Append(past.put[q], End) \in Seq(Nat)
    BY <1>3, Shapes DEF LogInv, LogShape, End
  <2>2. past' = [past EXCEPT !.put = [past.put EXCEPT ![q] = Append(past.put[q], End)]]
    BY DEF PutEnd
  <2>3. /\ past'.put = [past.put EXCEPT ![q] = Append(past.put[q], End)]
        /\ past'.discarded = past.discarded /\ past' \in PastType
    BY <1>3, <2>1, <2>2 DEF PastType
  <2> QED BY <1>1, <2>3 DEF PutEnd, Puts
<1>5. /\ End \in Nat /\ End <= count.messages
      /\ \A m \in DOMAIN server.log : server.log[m] # End
  BY Shapes DEF End
<1> HIDE DEF q
<1>6. LogShape'
  BY <1>1, <1>2, <1>3, <1>4, <1>5, PutsFacts DEF LogInv, LogShape, Puts
<1>7. LiveInv'
  BY <1>1, <1>2 DEF LogInv, LiveInv, Ended
<1>8. \A i \in DOMAIN past.put[q] : past.put[q][i] # End
  BY <1>1, <1>3 DEF LogInv, EndInv, q
<1>9. TailInv' /\ PutInv'
  BY <1>3, <1>4, <1>5, <1>8, PutsQueues
<1>10. HandInv' /\ ArrivedInv' /\ LoggedInv' /\ InOrder' /\ FlushInv'
  BY <1>2, <1>3, <1>4, <1>5, PutsLog
<1>11. \A r \in Opens : \A i \in DOMAIN past'.put[r] :
           \/ i \in DOMAIN past.put[r] /\ past'.put[r][i] = past.put[r][i]
           \/ r = q /\ past'.put[r][i] = End
  BY <1>3, <1>4, <1>5, PutsWhere
<1>12. LoggerInv'
  <2>1. \A t \in Loggers : loggers[t].q # 0 => loggers[t].item # End
    BY Shapes DEF LogInv, LoggerInv, End
  <2> QED BY <1>1, <1>11, <2>1 DEF LogInv, LoggerInv
<1>13. EndInv'
  BY <1>2, <1>3, <1>11 DEF LogInv, EndInv
<1> QED BY <1>6, <1>7, <1>9, <1>10, <1>12, <1>13 DEF LogInv

LEMMA PutInQueueInv == ASSUME LogInv, NEW t \in Loggers, Put(t) PROVE LogInv'
<1> DEFINE q == loggers[t].q
           x == loggers[t].item
<1>1. /\ loggers[t].q # 0 /\ client' = client /\ workers' = workers /\ stale' = stale
      /\ server' = server /\ count' = count
  BY DEF Put
<1>2. /\ q <= count.opens /\ x \in 1..count.messages
      /\ \A u \in Loggers : loggers[u].q # 0 /\ loggers[u].item = x => u = t
      /\ \A r \in Opens : \A i \in DOMAIN past.put[r] : past.put[r][i] # x
  BY <1>1 DEF LogInv, LoggerInv
<1>3. q \in Opens /\ x \in Nat /\ x # End /\ x <= count.messages
  BY <1>1, <1>2, Shapes, LogAssumption DEF LogInv, LiveInv, Opens, End
<1>4. /\ loggers' \in [Loggers -> [q : Nat, item : Nat]]
      /\ loggers'[t].q = 0
      /\ \A u \in Loggers : u # t => loggers'[u] = loggers[u]
  BY DEF Put, LogInv, LogShape, End
<1>5. Puts(q, x)
  <2>1. past \in PastType /\ Append(past.put[q], x) \in Seq(Nat)
    BY <1>3, Shapes DEF LogInv, LogShape
  <2>2. past' = [past EXCEPT !.put = [past.put EXCEPT ![q] = Append(past.put[q], x)]]
    BY DEF Put
  <2>3. /\ past'.put = [past.put EXCEPT ![q] = Append(past.put[q], x)]
        /\ past'.discarded = past.discarded /\ past' \in PastType
    BY <1>3, <2>1, <2>2 DEF PastType
  <2> QED BY <1>1, <2>3 DEF Put, Puts
<1> HIDE DEF q, x
<1>6. \A r \in Opens : \A i \in DOMAIN past'.put[r] :
          \/ i \in DOMAIN past.put[r] /\ past'.put[r][i] = past.put[r][i]
          \/ r = q /\ past'.put[r][i] = x
  BY <1>3, <1>5, PutsWhere
\* What has arrived was in a queue: the item has not.
<1>7. \A m \in DOMAIN server.log : server.log[m] # x
  BY <1>2, <1>3 DEF LogInv, LoggedInv
<1>8. LogShape'
  BY <1>1, <1>3, <1>4, <1>5, PutsFacts DEF LogInv, LogShape, Puts
<1>9. LiveInv'
  BY <1>1 DEF LogInv, LiveInv, Ended
<1>10. TailInv' /\ PutInv'
  BY <1>2, <1>3, <1>5, PutsQueues
<1>11. HandInv' /\ ArrivedInv' /\ LoggedInv' /\ InOrder' /\ FlushInv'
  BY <1>1, <1>3, <1>5, <1>7, PutsLog
<1>12. LoggerInv'
  <2> SUFFICES ASSUME NEW u \in Loggers, loggers'[u].q # 0
               PROVE  /\ loggers'[u].q <= count.opens
                      /\ loggers'[u].item \in 1..count.messages
                      /\ \A v \in Loggers : loggers'[v].q # 0 /\ loggers'[v].item = loggers'[u].item
                                                => v = u
                      /\ \A r \in Opens : \A i \in DOMAIN past'.put[r] :
                             past'.put[r][i] # loggers'[u].item
    BY <1>1 DEF LoggerInv
  <2>1. u # t /\ loggers'[u] = loggers[u] /\ loggers[u].q # 0
    BY <1>4
  <2>2. loggers[u].item # x
    BY <1>2, <2>1
  <2>3. /\ loggers[u].q <= count.opens
        /\ loggers[u].item \in 1..count.messages
        /\ \A v \in Loggers : loggers[v].q # 0 /\ loggers[v].item = loggers[u].item => v = u
        /\ \A r \in Opens : \A i \in DOMAIN past.put[r] : past.put[r][i] # loggers[u].item
    BY <2>1 DEF LogInv, LoggerInv
  <2>4. \A v \in Loggers : loggers'[v].q # 0 => loggers'[v] = loggers[v]
    BY <1>4
  <2>5. \A r \in Opens : \A i \in DOMAIN past'.put[r] : past'.put[r][i] # loggers[u].item
    BY <1>6, <2>2, <2>3
  <2> QED BY <2>1, <2>3, <2>4, <2>5
<1>13. EndInv'
  BY <1>1, <1>3, <1>6 DEF LogInv, EndInv
<1> QED BY <1>8, <1>9, <1>10, <1>11, <1>12, <1>13 DEF LogInv

--------------------------------------------------------------------------
(* What is taken from a queue. *)

\* Its first item is taken, by whomever.
Takes(q) ==
    /\ Len(queues[q]) > 0
    /\ queues' = [queues EXCEPT ![q] = Tail(@)]
    /\ past'.put = past.put /\ past.discarded \subseteq past'.discarded
    /\ past' \in PastType
    /\ UNCHANGED <<client, server, loggers, count>>

LEMMA TakesFacts ==
    ASSUME LogInv, NEW q \in Opens, Takes(q)
    PROVE  /\ queues' \in [Opens -> Seq(Nat)]
           /\ \A r \in Opens : r # q => Gone(r)' = Gone(r)
           /\ Gone(q)' = Gone(q) + 1
           /\ Gone(q) + 1 \in DOMAIN past.put[q]
           /\ Head(queues[q]) = past.put[q][Gone(q) + 1]
           /\ TailInv'
<1>1. /\ queues \in [Opens -> Seq(Nat)] /\ queues[q] \in Seq(Nat) /\ queues[q] # <<>>
  BY Lens DEF LogInv, LogShape, Takes
<1>2. Tail(queues[q]) \in Seq(Nat)
  BY <1>1
<1>3. /\ queues'[q] = Tail(queues[q]) /\ queues' \in [Opens -> Seq(Nat)]
      /\ \A r \in Opens : r # q => queues'[r] = queues[r]
  BY <1>1, <1>2 DEF Takes
<1>4. Len(queues'[q]) = Len(queues[q]) - 1
  BY <1>1, <1>3
<1>5. \A r \in Opens : r # q => Gone(r)' = Gone(r)
  BY <1>3 DEF Gone, Takes
<1>6. Gone(q)' = Gone(q) + 1
  <2>1. Len(past.put[q]) - Len(queues'[q]) = Len(past.put[q]) - Len(queues[q]) + 1
    BY <1>4, Lens
  <2> QED BY <2>1 DEF Gone, Takes
<1>7. Gone(q) + 1 \in DOMAIN past.put[q] /\ Gone(q) + 1 \in Nat
  BY Lens DEF Takes
<1>8. Head(queues[q]) = past.put[q][Gone(q) + 1]
  <2>1. 1 \in 1..Len(queues[q]) /\ Head(queues[q]) = queues[q][1]
    BY <1>1, Lens DEF Takes
  <2>2. queues[q][1] = past.put[q][1 + Gone(q)]
    BY <2>1 DEF LogInv, TailInv
  <2>3. 1 + Gone(q) = Gone(q) + 1
    BY Lens
  <2> QED BY <2>1, <2>2, <2>3
<1>9. TailInv'
  <2> SUFFICES ASSUME NEW r \in Opens
               PROVE  /\ Gone(r)' \in Nat
                      /\ \A i \in 1..Len(queues'[r]) : queues'[r][i] = past.put[r][i + Gone(r)']
    BY DEF TailInv, Takes
  <2>1. CASE r # q
    BY <1>3, <1>5, <2>1 DEF LogInv, TailInv
  <2>2. CASE r = q
    <3>1. ASSUME NEW i \in 1..Len(queues'[q])
          PROVE  queues'[q][i] = past.put[q][i + (Gone(q) + 1)]
      <4>1. i + 1 \in 1..Len(queues[q]) /\ queues'[q][i] = queues[q][i + 1]
        BY <1>1, <1>3, <1>4, Lens
      <4>2. queues[q][i + 1] = past.put[q][(i + 1) + Gone(q)]
        BY <4>1 DEF LogInv, TailInv
      <4>3. (i + 1) + Gone(q) = i + (Gone(q) + 1)
        BY Lens
      <4> QED BY <4>1, <4>2, <4>3
    <3> QED BY <1>6, <1>7, <2>2, <3>1
  <2> QED BY <2>1, <2>2
<1> QED BY <1>3, <1>5, <1>6, <1>7, <1>8, <1>9

LEMMA TakesMore ==
    ASSUME LogInv, NEW q \in Opens, Takes(q)
    PROVE  \A r \in Opens : /\ Gone(r)' \in Nat /\ Gone(r) <= Gone(r)'
                            /\ 1..Gone(r) \subseteq 1..Gone(r)'
                            /\ \A i \in 1..Gone(r)' : i \in 1..Gone(r) \/ (r = q /\ i = Gone(q) + 1)
<1> TAKE r \in Opens
<1>1. Gone(r) \in Nat /\ Gone(q) \in Nat
  BY Lens
<1>2. CASE r = q
  <2>1. Gone(r)' = Gone(q) + 1
    BY <1>2, TakesFacts
  <2> QED BY <1>1, <1>2, <2>1
<1>3. CASE r # q
  BY <1>1, <1>3, TakesFacts
<1> QED BY <1>2, <1>3

LEMMA TakesLog ==
    ASSUME LogInv, NEW q \in Opens, Takes(q)
    PROVE  PutInv' /\ LoggerInv' /\ EndInv' /\ ArrivedInv' /\ LoggedInv' /\ InOrder'
<1>1. /\ past'.put = past.put /\ client' = client /\ server' = server /\ loggers' = loggers
      /\ count' = count
  BY DEF Takes
<1>2. PutInv' /\ LoggerInv' /\ EndInv'
  BY <1>1 DEF LogInv, PutInv, LoggerInv, EndInv
<1>3. LoggedInv' /\ InOrder'
  BY <1>1 DEF LogInv, LoggedInv, InOrder
<1>4. ArrivedInv'
  <2> SUFFICES ASSUME NEW r \in Opens, NEW i \in DOMAIN past.put[r], NEW m \in DOMAIN server.log,
                      server.log[m] = past.put[r][i]
               PROVE  i <= Gone(r)'
    BY <1>1 DEF ArrivedInv
  <2>1. i <= Gone(r) /\ i \in Nat /\ Gone(r) \in Nat
    BY Lens DEF LogInv, ArrivedInv
  <2> QED BY <2>1, TakesMore
<1> QED BY <1>2, <1>3, <1>4

\* Another than the worker takes.
LEMMA TakesHand ==
    ASSUME LogInv, NEW q \in Opens, Takes(q), workers' = workers
    PROVE  HandInv' /\ LiveInv'
<1>1. /\ past'.put = past.put /\ client' = client /\ server' = server /\ count' = count
  BY DEF Takes
<1>2. LiveInv'
  BY <1>1 DEF LogInv, LiveInv, Ended
<1>3. HandInv'
  <2> SUFFICES ASSUME NEW w \in Opens, workers[w].pc = "send"
               PROVE  \E k \in 1..Gone(w)' :
                          /\ past.put[w][k] = workers[w].item /\ workers[w].item # End
                          /\ \A m \in DOMAIN server.log : \A i \in DOMAIN past.put[w] :
                                 server.log[m] = past.put[w][i] => i < k
    BY <1>1 DEF LogInv, HandInv
  <2> QED BY TakesMore DEF LogInv, HandInv
<1> QED BY <1>2, <1>3

LEMMA DiscardInv == ASSUME LogInv, NEW t \in Loggers, Discard(t) PROVE LogInv'
<1> DEFINE q == loggers[t].q
           item == Head(queues[q])
<1>1. /\ loggers[t].q # 0 /\ workers' = workers /\ stale' = stale
      /\ client' = client /\ server' = server /\ loggers' = loggers /\ count' = count
      /\ queues' = [queues EXCEPT ![q] = Tail(@)]
      /\ past' = [past EXCEPT !.discarded = @ \cup {item}]
  BY DEF Discard
<1>2. q \in Opens
  <2>1. loggers[t].q <= count.opens
    BY <1>1 DEF LogInv, LoggerInv
  <2>2. count.opens <= MaxOpens
    BY DEF LogInv, LiveInv
  <2>3. loggers[t].q \in Nat /\ count.opens \in Nat /\ MaxOpens \in Nat
    BY Shapes, LogAssumption
  <2> QED BY <1>1, <2>1, <2>2, <2>3 DEF Opens
<1>3. Len(queues[q]) > 0 /\ item \in Nat
  <2>1. Len(queues[q]) >= LogQueueSize /\ LogQueueSize \in Nat \ {0}
    BY LogAssumption DEF Discard
  <2>2. queues[q] \in Seq(Nat) /\ Len(queues[q]) \in Nat
    BY <1>2, Lens
  <2> QED BY <2>1, <2>2
<1> HIDE DEF q, item
<1>4. /\ past'.put = past.put /\ past'.discarded = past.discarded \cup {item}
      /\ past' \in PastType
  BY <1>1, <1>3 DEF LogInv, LogShape, PastType
<1>5. Takes(q)
  BY <1>1, <1>3, <1>4 DEF Takes
<1>6. LogShape'
  BY <1>1, <1>2, <1>4, <1>5, TakesFacts DEF LogInv, LogShape
<1>7. item = past.put[q][Gone(q) + 1]
  BY <1>2, <1>5, TakesFacts DEF item
<1>8. FlushInv'
  <2> SUFFICES ASSUME NoFaults
               PROVE  /\ server.up
                      /\ \A r \in Opens : stale[r] = 0
                      /\ \A w \in Opens : \A i \in 1..Gone(w)' :
                             \/ past.put[w][i] \in Range(server.log) \cup past'.discarded \cup {End}
                             \/ workers[w].pc = "send" /\ workers[w].item = past.put[w][i]
                      /\ \A w \in Opens : LoopStopped(w) => \E i \in 1..Gone(w)' : past.put[w][i] = End
    BY <1>1, <1>4 DEF FlushInv, NoFaults, LoopStopped
  <2>1. ASSUME NEW w \in Opens, NEW i \in 1..Gone(w)'
        PROVE  \/ past.put[w][i] \in Range(server.log) \cup past'.discarded \cup {End}
               \/ workers[w].pc = "send" /\ workers[w].item = past.put[w][i]
    <3>1. CASE i \in 1..Gone(w)
      BY <1>4, <3>1 DEF LogInv, FlushInv
    <3>2. CASE w = q /\ i = Gone(q) + 1
      BY <1>4, <1>7, <3>2
    <3> QED BY <1>2, <1>5, <3>1, <3>2, TakesMore
  <2>2. \A w \in Opens : LoopStopped(w) => \E i \in 1..Gone(w)' : past.put[w][i] = End
    BY <1>2, <1>5, TakesMore DEF LogInv, FlushInv, LoopStopped
  <2> QED BY <2>1, <2>2 DEF LogInv, FlushInv
<1> QED BY <1>1, <1>2, <1>5, <1>6, <1>8, TakesFacts, TakesLog, TakesHand DEF LogInv

LEMMA StealInv == ASSUME LogInv, NEW q \in Opens, Steal(q) PROVE LogInv'
<1>1. /\ stale[q] > 0 /\ queues[q] # <<>> /\ workers' = workers
      /\ client' = client /\ server' = server /\ loggers' = loggers /\ count' = count
      /\ queues' = [queues EXCEPT ![q] = Tail(@)]
      /\ past' = [past EXCEPT !.lost = @ \cup {Head(queues[q])}]
      /\ stale' = [stale EXCEPT ![q] = @ - 1]
  BY DEF Steal
<1>2. Len(queues[q]) > 0 /\ Head(queues[q]) \in Nat
  <2>1. queues[q] \in Seq(Nat)
    BY Lens
  <2> QED BY <1>1, <2>1
<1>3. /\ past'.put = past.put /\ past'.discarded = past.discarded /\ past' \in PastType
  BY <1>1, <1>2 DEF LogInv, LogShape, PastType
<1>4. Takes(q)
  BY <1>1, <1>2, <1>3 DEF Takes
<1>5. stale' \in [Opens -> Nat]
  BY <1>1, Shapes DEF LogInv, LogShape
<1>6. LogShape'
  BY <1>1, <1>3, <1>4, <1>5, TakesFacts DEF LogInv, LogShape
<1>7. FlushInv'
  <2>1. ~NoFaults
    BY <1>1, Shapes DEF LogInv, FlushInv
  <2> QED BY <1>1, <2>1 DEF FlushInv, NoFaults
<1> QED BY <1>1, <1>4, <1>6, <1>7, TakesFacts, TakesLog, TakesHand DEF LogInv

LEMMA GetInv == ASSUME LogInv, NEW w \in Opens, Get(w) PROVE LogInv'
<1> DEFINE item == Head(queues[w])
<1>1. workers[w].pc = "get" /\ workers[w].q = w /\ ~Ended(w)
  BY DEF Get, LogInv, HandInv, Ended
<1>2. /\ queues[w] # <<>> /\ stale' = stale
      /\ client' = client /\ server' = server /\ loggers' = loggers /\ count' = count
      /\ queues' = [queues EXCEPT ![w] = Tail(@)] /\ past' = past
  BY <1>1 DEF Get
<1>3. Len(queues[w]) > 0 /\ item \in Nat
  <2>1. queues[w] \in Seq(Nat)
    BY Lens
  <2> QED BY <1>2, <2>1
<1>4. Takes(w)
  BY <1>2, <1>3 DEF Takes, LogInv, LogShape
<1>5. /\ workers' \in [Opens -> WorkerType]
      /\ \A v \in Opens : v # w => workers'[v] = workers[v]
      /\ workers'[w].q = w
      /\ \/ item = End /\ workers'[w].pc = "check"
         \/ item # End /\ workers'[w].pc = "send" /\ workers'[w].item = item
  <2>1. workers \in [Opens -> WorkerType]
    BY DEF LogInv, LogShape
  <2>2. CASE item = End
    <3>1. workers' = [workers EXCEPT ![w].pc = "check"]
      BY <1>1, <2>2 DEF Get
    <3> QED BY <1>1, <2>1, <2>2, <3>1 DEF WorkerType, WorkerPCs
  <2>3. CASE item # End
    <3>1. workers' = [workers EXCEPT ![w].pc = "send", ![w].item = item]
      BY <1>1, <2>3 DEF Get
    <3> HIDE DEF item
    <3> QED BY <1>1, <1>3, <2>1, <2>3, <3>1 DEF WorkerType, WorkerPCs
  <2> QED BY <2>2, <2>3
<1> HIDE DEF item
<1>6. item = past.put[w][Gone(w) + 1] /\ Gone(w)' = Gone(w) + 1 /\ Gone(w) + 1 \in 1..Gone(w)'
  <2>1. item = past.put[w][Gone(w) + 1] /\ Gone(w)' = Gone(w) + 1
    BY <1>4, TakesFacts DEF item
  <2>2. Gone(w) \in Nat
    BY Lens
  <2> QED BY <2>1, <2>2
<1>7. LogShape'
  BY <1>2, <1>4, <1>5, TakesFacts DEF LogInv, LogShape
<1>8. LiveInv'
  <2>1. \A v \in Opens : v # w => (Ended(v)' <=> Ended(v))
    BY <1>5 DEF Ended
  <2>2. w \in {client.thread, client.closing} /\ ~(w > count.opens)
    BY <1>1 DEF LogInv, LiveInv
  <2> QED BY <1>2, <1>5, <2>1, <2>2 DEF LogInv, LiveInv
<1>9. HandInv'
  <2> SUFFICES ASSUME NEW v \in Opens
               PROVE  /\ workers'[v].q \in {0, v}
                      /\ workers'[v].pc \in {"get", "send"} => workers'[v].q = v
                      /\ workers'[v].pc = "send" =>
                             \E k \in 1..Gone(v)' :
                                 /\ past.put[v][k] = workers'[v].item /\ workers'[v].item # End
                                 /\ \A m \in DOMAIN server.log : \A i \in DOMAIN past.put[v] :
                                        server.log[m] = past.put[v][i] => i < k
    BY <1>2 DEF HandInv
  <2>1. CASE v = w
    <3>1. \A m \in DOMAIN server.log : \A i \in DOMAIN past.put[w] :
              server.log[m] = past.put[w][i] => i < Gone(w) + 1
      <4>1. \A i \in DOMAIN past.put[w] : i \in Nat /\ Gone(w) \in Nat
        BY Lens
      <4> QED BY <4>1 DEF LogInv, ArrivedInv
    <3> QED BY <1>5, <1>6, <2>1, <3>1
  <2>2. CASE v # w
    <3>1. Gone(v)' = Gone(v) /\ workers'[v] = workers[v]
      BY <1>4, <1>5, <2>2, TakesFacts
    <3> QED BY <3>1 DEF LogInv, HandInv
  <2> QED BY <2>1, <2>2
<1>10. FlushInv'
  <2> SUFFICES ASSUME NoFaults
               PROVE  /\ server.up
                      /\ \A r \in Opens : stale[r] = 0
                      /\ \A v \in Opens : \A i \in 1..Gone(v)' :
                             \/ past.put[v][i] \in Range(server.log) \cup past.discarded \cup {End}
                             \/ workers'[v].pc = "send" /\ workers'[v].item = past.put[v][i]
                      /\ \A v \in Opens : LoopStopped(v)' => \E i \in 1..Gone(v)' : past.put[v][i] = End
    BY <1>2 DEF FlushInv, NoFaults, LoopStopped
  <2>1. ASSUME NEW v \in Opens, NEW i \in 1..Gone(v)'
        PROVE  \/ past.put[v][i] \in Range(server.log) \cup past.discarded \cup {End}
               \/ workers'[v].pc = "send" /\ workers'[v].item = past.put[v][i]
    <3>1. CASE i \in 1..Gone(v)
      <4>1. \/ past.put[v][i] \in Range(server.log) \cup past.discarded \cup {End}
            \/ workers[v].pc = "send" /\ workers[v].item = past.put[v][i]
        BY <3>1 DEF LogInv, FlushInv
      <4> QED BY <1>1, <1>5, <4>1
    <3>2. CASE v = w /\ i = Gone(w) + 1
      BY <1>5, <1>6, <3>2
    <3> QED BY <1>4, <3>1, <3>2, TakesMore
  <2>2. ASSUME NEW v \in Opens, LoopStopped(v)'
        PROVE  \E i \in 1..Gone(v)' : past.put[v][i] = End
    <3>1. CASE v = w
      BY <1>5, <1>6, <2>2, <3>1 DEF LoopStopped
    <3>2. CASE v # w
      <4>1. LoopStopped(v)
        BY <1>5, <2>2, <3>2 DEF LoopStopped
      <4> QED BY <1>4, <4>1, TakesMore DEF LogInv, FlushInv, LoopStopped
    <3> QED BY <3>1, <3>2
  <2> QED BY <2>1, <2>2 DEF LogInv, FlushInv
<1> QED BY <1>4, <1>7, <1>8, <1>9, <1>10, TakesFacts, TakesLog DEF LogInv

--------------------------------------------------------------------------
(* The theorem *)

LEMMA LogNextInv == ASSUME LogInv, LogNext, Waits = TRUE PROVE LogInv'
<1>1. CASE OpenWriter \/ CloseWriter \/ PutEnd \/ Join \/ CloseChannel
  BY <1>1, OpenWriterInv, CloseWriterInv, PutEndInv, JoinInv, CloseChannelInv
<1>2. CASE \E t \in Loggers : Submit(t) \/ Put(t) \/ Discard(t)
  BY <1>2, SubmitInv, PutInQueueInv, DiscardInv
<1>3. CASE \E w \in Opens : Working(w) \/ Steal(w)
  BY <1>3, CheckInv, StartIteratorInv, GetInv, WorkerSendInv, FailInv, StealInv DEF Working
<1>4. CASE ServerDown \/ ServerUp
  BY <1>4, ServerInv
<1> QED BY <1>1, <1>2, <1>3, <1>4 DEF LogNext

LEMMA LogStutterInv == ASSUME LogInv, UNCHANGED logVars PROVE LogInv'
<1>1. /\ queues' = queues /\ past' = past /\ client' = client /\ loggers' = loggers
      /\ stale' = stale /\ server' = server /\ count' = count /\ workers' = workers
  BY DEF logVars
<1>2. Rests
  BY <1>1, Shapes DEF Rests
<1>3. LogShape' /\ LiveInv'
  BY <1>1 DEF LogInv, LogShape, LiveInv, Ended
<1>4. HandInv'
  BY <1>1, <1>2, RestHands DEF LogInv, HandInv
<1>5. FlushInv'
  BY <1>1, <1>2, RestFlush DEF LogInv, FlushInv, NoFaults, LoopStopped
<1> QED BY <1>1, <1>2, <1>3, <1>4, <1>5, RestQueues, RestLoggers, RestEnds DEF LogInv

LEMMA LogInvWhole == LogInv => LogIsWhole
<1> SUFFICES ASSUME LogInv PROVE ClosedIsFlushed
  BY DEF LogIsWhole, LogInv
<1> SUFFICES ASSUME NEW q \in Opens, workers[q].pc = "end", workers[q].q = q, NoFaults,
                    NEW i \in DOMAIN past.put[q], NEW j \in DOMAIN past.put[q],
                    i < j, past.put[q][j] = End
             PROVE  past.put[q][i] \in Range(server.log) \cup past.discarded
  BY DEF ClosedIsFlushed, NoFaults
<1>1. PICK e \in 1..Gone(q) : past.put[q][e] = End
  BY DEF LogInv, FlushInv
<1>2. e \in DOMAIN past.put[q]
  BY <1>1, Lens
<1>3. j = e
  BY <1>1, <1>2 DEF LogInv, PutInv
<1>4. i \in 1..Gone(q) /\ i # j
  BY <1>1, <1>3, Lens
<1>5. past.put[q][i] # End
  BY <1>4 DEF LogInv, PutInv
<1> QED BY <1>4, <1>5 DEF LogInv, FlushInv

\* The log is complete and in order: messages arrive in the order in which they were put in a
\* queue and none twice, and when the worker of a closed writer ends, what was put before has
\* arrived, but for what was discarded, or the server or the channel went.
THEOREM Logged == ASSUME Waits = TRUE PROVE LogSpec => []LogIsWhole
<1>1. LogInit => LogInv
  BY LogInitInv
<1>2. LogInv /\ [LogNext]_logVars => LogInv'
  BY LogNextInv, LogStutterInv
<1>3. LogInv => LogIsWhole
  BY LogInvWhole
<1> QED BY <1>1, <1>2, <1>3, PTL DEF LogSpec

=============================================================================
