------------------------------- MODULE ZmqRpc -------------------------------
(***************************************************************************)
(* Remote calls over ZeroMQ in Python: Responder and Server, Requester and *)
(* Client, on sockets that an Endpoint binds or connects.                  *)
(*                                                                         *)
(* The server reads a request, hands it to a method of the handler that is *)
(* named in it, and sends the reply, all in one thread, which an           *)
(* application starts and stops.  Each client calls from a thread of its   *)
(* own.  The sockets, of types REQ and REP, are external: a request is     *)
(* kept until it is read, and a reply goes to the client that is next.     *)
(***************************************************************************)
EXTENDS Integers, Sequences, FiniteSets, TLC

CONSTANTS
    RpcClients,
    Kinds,        \* what requests are like: members of DOMAIN Outcome
    NoAddress,
    Given,        \* address that each client, or "server", was created with
    Settings,     \* what the settings files have for the channel
    MaxCalls, MaxStarts     \* bounds on the calls of a client and on starts of the server

VARIABLES
    srv,       \* the server: its application, its thread and its socket
    clients,   \* each client: its calls, and the host it is connected to
    inbox,     \* requests that were sent and not read
    replies    \* replies that were sent to each client and not read

rpcVars == <<srv, clients, inbox, replies>>

--------------------------------------------------------------------------
(* Addresses *)

\* setting()
Setting(key, default) == IF key \in DOMAIN Settings THEN Settings[key] ELSE default

\* _realaddress(): what an address leaves open is taken from the settings, or is the
\* default.  A component that is left open has no field.
Real(given, host, defaultHost) ==
    [scheme |-> IF "scheme" \in DOMAIN given THEN given.scheme ELSE Setting("scheme", "tcp"),
     host   |-> IF "host" \in DOMAIN given THEN given.host ELSE Setting(host, defaultHost),
     port   |-> IF "port" \in DOMAIN given THEN given.port ELSE Setting("port", 5555)]

HostAddress(c) == Real(Given[c], "host", "localhost")
BindAddress == Real(Given["server"], "listen", "*")

\* The request arrives where a socket is bound.
Meets(c) ==
    /\ srv.bound # NoAddress
    /\ clients[c].host.scheme = srv.bound.scheme /\ clients[c].host.port = srv.bound.port

--------------------------------------------------------------------------
(* The server: process_request() *)

\* The reply's status by the kind of the request; "none" where an exception leaves run():
\* Server names Event, which it does not import, and a parameter that cannot be decoded
\* raises what nobody catches.
Outcome ==
    [method      |-> "OK",        \* a method with an annotated argument
     noargument  |-> "OK",        \* a method without an argument
     raises      |-> "FAILED",    \* the method raises an exception
     unannotated |-> "FAILED",
     nomethod    |-> "INVALID",
     nointerface |-> "none",
     badargument |-> "none",
     garbled     |-> "none"]

\* Kinds are those that the server tells apart, and an address is not the lack of one.
ASSUME RpcAssumption ==
    /\ Kinds \subseteq DOMAIN Outcome
    /\ MaxCalls \in Nat /\ MaxStarts \in Nat
    /\ NoAddress # BindAddress /\ \A c \in RpcClients : NoAddress # HostAddress(c)

Reply(r) == [client |-> r.client, id |-> r.id, status |-> Outcome[r.kind]]

--------------------------------------------------------------------------
\* NoAddress stands for the None of bound_address and host_address.
RpcInit ==
    /\ srv = [app |-> "idle", keep |-> FALSE, thread |-> "none", bound |-> NoAddress,
              request |-> <<>>, starts |-> 0, running |-> FALSE]
    /\ clients = [c \in RpcClients |-> [pc |-> "new", host |-> NoAddress, id |-> 0]]
    /\ inbox = <<>> /\ replies = [c \in RpcClients |-> <<>>]

\* is_alive()
Alive == srv.thread \notin {"none", "dead"}

\* bind(), unbind()
Bound == IF srv.bound = NoAddress THEN BindAddress ELSE srv.bound

\* start(): the socket is bound and keep_listening set ...
Start ==
    /\ srv.app = "idle" /\ srv.starts < MaxStarts
    /\ srv' = [srv EXCEPT !.app = "starting", !.bound = Bound, !.keep = TRUE,
                          !.starts = @ + 1, !.running = TRUE]
    /\ UNCHANGED <<clients, inbox, replies>>

\* ... and a thread started, unless there is one.
StartThread ==
    /\ srv.app = "starting"
    /\ srv' = [srv EXCEPT !.app = "idle", !.thread = IF Alive THEN @ ELSE "init"]
    /\ UNCHANGED <<clients, inbox, replies>>

Stop ==
    /\ srv.app = "idle" /\ srv.running
    /\ srv' = [srv EXCEPT !.app = "stopping", !.keep = FALSE]
    /\ UNCHANGED <<clients, inbox, replies>>

\* Fault: stop() does not wait for the thread.
Unjoined ==
    /\ srv.app = "stopping"
    /\ srv' = [srv EXCEPT !.app = "idle", !.bound = NoAddress, !.running = FALSE]
    /\ UNCHANGED <<clients, inbox, replies>>

\* join(), unbind(), deinitialize()
Stopped ==
    /\ srv.app = "stopping" /\ ~Alive
    /\ srv' = [srv EXCEPT !.app = "idle", !.bound = NoAddress, !.running = FALSE]
    /\ UNCHANGED <<clients, inbox, replies>>

\* run(): bind() once more; keep_listening is set again.
RunInit ==
    /\ srv.thread = "init"
    /\ srv' = [srv EXCEPT !.bound = Bound, !.keep = TRUE, !.thread = "loop"]
    /\ UNCHANGED <<clients, inbox, replies>>

RunLoop ==
    /\ srv.thread = "loop"
    /\ srv' = [srv EXCEPT !.thread = IF srv.keep THEN "receive" ELSE "final"]
    /\ UNCHANGED <<clients, inbox, replies>>

\* receive_bytes() waits for a request, for ever if there is none.
Receive ==
    /\ srv.thread = "receive" /\ inbox # <<>>
    /\ srv' = [srv EXCEPT !.request = Head(inbox), !.thread = "process"]
    /\ inbox' = Tail(inbox)
    /\ UNCHANGED <<clients, replies>>

\* Fault: there is no reply where the method failed.
RespondUnlessFailed ==
    /\ srv.thread = "process"
    /\ LET reply == Reply(srv.request) IN
       /\ srv' = [srv EXCEPT !.request = <<>>,
                             !.thread = IF reply.status = "none" THEN "final" ELSE "loop"]
       /\ replies' = IF reply.status # "OK" THEN replies
                     ELSE [replies EXCEPT ![reply.client] = Append(@, reply)]
    /\ UNCHANGED <<clients, inbox>>

\* process_request() and send_bytes()
Respond ==
    /\ srv.thread = "process"
    /\ LET reply == Reply(srv.request) IN
       /\ srv' = [srv EXCEPT !.request = <<>>,
                             !.thread = IF reply.status = "none" THEN "final" ELSE "loop"]
       /\ replies' = IF reply.status = "none" THEN replies
                     ELSE [replies EXCEPT ![reply.client] = Append(@, reply)]
    /\ UNCHANGED <<clients, inbox>>

\* The thread ends: deinitialize().
RunFinal ==
    /\ srv.thread = "final"
    /\ srv' = [srv EXCEPT !.bound = NoAddress, !.thread = "dead"]
    /\ UNCHANGED <<clients, inbox, replies>>

--------------------------------------------------------------------------
(* RpcClients *)

\* initialize(), deinitialize(): connect() and disconnect() while no call is made.
Connect(c) ==
    /\ clients[c].pc = "new"
    /\ clients' = [clients EXCEPT ![c].pc = "idle", ![c].host = HostAddress(c)]
    /\ UNCHANGED <<srv, inbox, replies>>

Disconnect(c) ==
    /\ clients[c].pc = "idle"
    /\ clients' = [clients EXCEPT ![c].pc = "new", ![c].host = NoAddress]
    /\ UNCHANGED <<srv, inbox, replies>>

\* call(): the request is numbered and sent ...
Call(c) ==
    /\ clients[c].pc = "idle" /\ clients[c].id < MaxCalls
    /\ clients' = [clients EXCEPT ![c].pc = "send", ![c].id = @ + 1]
    /\ UNCHANGED <<srv, inbox, replies>>

SendRequest(c, kind) ==
    /\ clients[c].pc = "send" /\ Meets(c)
    /\ inbox' = Append(inbox, [client |-> c, id |-> clients[c].id, kind |-> kind])
    /\ clients' = [clients EXCEPT ![c].pc = "wait"]
    /\ UNCHANGED <<srv, replies>>

\* ... and the reply is waited for; a status other than OK is raised.
ReceiveReply(c) ==
    /\ clients[c].pc = "wait" /\ replies[c] # <<>>
    /\ clients' = [clients EXCEPT ![c].pc = "idle"]
    /\ replies' = [replies EXCEPT ![c] = Tail(@)]
    /\ UNCHANGED <<srv, inbox>>

RpcNext ==
    \/ Start \/ StartThread \/ Stop \/ Stopped
    \/ RunInit \/ RunLoop \/ Receive \/ Respond \/ RunFinal
    \/ \E c \in RpcClients :
          \/ Connect(c) \/ Disconnect(c) \/ Call(c) \/ ReceiveReply(c)
          \/ \E kind \in Kinds : SendRequest(c, kind)

--------------------------------------------------------------------------
(* Properties *)

Status == {"OK", "FAILED", "INVALID"}
Request == [client : RpcClients, id : 1..MaxCalls, kind : Kinds]
Answer == [client : RpcClients, id : 1..MaxCalls, status : Status]
RpcServer == [app : {"idle", "starting", "stopping"}, keep : BOOLEAN, running : BOOLEAN,
              thread : {"none", "init", "loop", "receive", "process", "final", "dead"},
              bound : {BindAddress, NoAddress}, request : Request \cup {<<>>}, starts : 0..MaxStarts]
RpcClient == [pc : {"new", "idle", "send", "wait"}, id : 0..MaxCalls,
              host : {NoAddress} \cup {HostAddress(c) : c \in RpcClients}]

RpcTypeOK ==
    /\ srv \in RpcServer
    /\ clients \in [RpcClients -> RpcClient]
    /\ inbox \in Seq(Request)
    /\ replies \in [RpcClients -> Seq(Answer)]

\* After stop(), and until start(), there is no thread and the socket is not bound.
StoppedIsQuiet == srv.app = "idle" /\ ~srv.running => ~Alive /\ srv.bound = NoAddress

\* A client that waits is sent one reply at most, which is that to its present call: no
\* reply of an earlier call is ever left for a later one (Client.call() does not compare
\* numbers).
EachCallItsReply ==
    \A c \in RpcClients :
        /\ Len(replies[c]) <= 1
        /\ replies[c] # <<>> => clients[c].pc = "wait" /\ replies[c][1].id = clients[c].id

\* The server stops as it is told, and its clients get what they asked for.
CallsHold == StoppedIsQuiet /\ EachCallItsReply

\* A request that was sent is answered, unless the server's thread ends.
Pending(c) == \E i \in DOMAIN inbox : inbox[i].client = c
Answered ==
    \A c \in RpcClients : Pending(c) ~> (replies[c] # <<>> \/ srv.thread \in {"none", "final", "dead"})

\* The thread runs.
RpcFairness == WF_rpcVars(RunInit \/ RunLoop \/ Receive \/ Respond \/ RunFinal)

RpcSpec == RpcInit /\ [][RpcNext]_rpcVars /\ RpcFairness
==============================================================================
