---------------------------- MODULE LogSubmitter ----------------------------
(***************************************************************************)
(* Log messages on their way to the MultiLogger in Python: Submitter and   *)
(* ThreadedSubmitter, the round-robin queue, the gRPC Client and the ZMQ   *)
(* Writer.                                                                 *)
(*                                                                         *)
(* Threads that log put messages in a queue, in which the oldest makes     *)
(* room for the newest.  A worker takes them from there: over gRPC by a    *)
(* stream whose iterator reads the queue, and that is tried again where it *)
(* fails; over ZMQ by publishing each.  Opening makes a queue and a        *)
(* worker; closing puts None behind the messages.                          *)
(*                                                                         *)
(* Of gRPC, which is external: the iterator is read by a thread of the     *)
(* library.  Where the stream fails while that thread waits for the queue, *)
(* it takes one more item before it sees that the stream is gone.          *)
(***************************************************************************)
EXTENDS Integers, Sequences, FiniteSets, Functions

CONSTANTS
    Loggers,       \* threads that log
    Transports,    \* of "grpc", "zmq"
    LogQueueSize,
    Waits,         \* close_writer() is called with this wait
    Deinits,       \* whether the client may be deinitialised
    MaxOpens, MaxMessages, MaxDowns   \* bounds on openings, messages, and the server's ends

ASSUME LogAssumption ==
    /\ LogQueueSize \in Nat \ {0} /\ Waits \in BOOLEAN /\ Deinits \in BOOLEAN
    /\ {MaxOpens, MaxMessages, MaxDowns} \subseteq Nat

End == 0                    \* None in a queue
Opens == 1..MaxOpens        \* queues, and workers, by their opening; 0: there is none

VARIABLES
    transport,
    client,    \* its queue and thread, and where the application is in a call
    queues,    \* contents of each queue
    workers,   \* each worker: where it is, its queue and item, the server its stream is to
    stale,     \* by queue: iterators of failed streams that wait for it
    loggers,   \* each logging thread: the queue that it has read, and its message
    server,    \* whether it is up, and what it has got
    count,     \* messages, openings and ends of the server so far
    past       \* what was put in each queue, what was discarded, what was lost (history)

logVars == <<transport, client, queues, workers, stale, loggers, server, count, past>>

LogInit ==
    /\ transport \in Transports
    /\ client = [queue |-> 0, thread |-> 0, pc |-> "idle", closing |-> 0, channel |-> TRUE]
    /\ queues = [q \in Opens |-> <<>>]
    /\ workers = [w \in Opens |-> [pc |-> "none", q |-> 0, item |-> End, life |-> 0]]
    /\ stale = [q \in Opens |-> 0]
    /\ loggers = [t \in Loggers |-> [q |-> 0, item |-> End]]
    /\ server = [up |-> TRUE, log |-> <<>>]
    /\ count = [messages |-> 0, opens |-> 0, downs |-> 0]
    /\ past = [put |-> [q \in Opens |-> <<>>], discarded |-> {}, lost |-> {}]

Ended(w) == workers[w].pc \in {"none", "end"}

\* is_writer_open(): that the thread of the latest opening is alive, whichever asks.
IsWriterOpen == client.thread # 0 /\ ~Ended(client.thread)

--------------------------------------------------------------------------
(* The application *)

\* open_writer(), by open(); otherwise the open writer goes on.
OpenWriter ==
    /\ client.pc = "idle" /\ ~IsWriterOpen /\ count.opens < MaxOpens
    /\ LET n == count.opens + 1 IN
       /\ client' = [client EXCEPT !.queue = n, !.thread = n]
       /\ workers' = [workers EXCEPT ![n].pc = "check"]
       /\ count' = [count EXCEPT !.opens = n]
    /\ UNCHANGED <<transport, queues, stale, loggers, server, past>>

\* close_writer(): new messages are not queued any more ...
CloseWriter ==
    /\ client.pc = "idle" /\ client.queue # 0
    /\ client' = [client EXCEPT !.queue = 0, !.thread = 0, !.pc = "end", !.closing = @ + client.queue]
    /\ UNCHANGED <<transport, queues, workers, stale, loggers, server, count, past>>

\* ... then None is put, as soon as there is room for it ...
PutEnd ==
    /\ client.pc = "end" /\ Len(queues[client.closing]) < LogQueueSize
    /\ queues' = [queues EXCEPT ![client.closing] = Append(@, End)]
    /\ past' = [past EXCEPT !.put[client.closing] = Append(@, End)]
    /\ client' = IF Waits THEN [client EXCEPT !.pc = "join"]
                 ELSE [client EXCEPT !.pc = "idle", !.closing = 0]
    /\ UNCHANGED <<transport, workers, stale, loggers, server, count>>

\* ... and the thread waited for, if that was asked for.
Join ==
    /\ client.pc = "join" /\ Ended(client.closing)
    /\ client' = [client EXCEPT !.pc = "idle", !.closing = 0]
    /\ UNCHANGED <<transport, queues, workers, stale, loggers, server, count, past>>

\* deinitialize() of the gRPC client: its close() is that of GenericClient, which closes
\* the channel and leaves the writer as it is.
CloseChannel ==
    /\ Deinits /\ transport = "grpc" /\ client.pc = "idle" /\ client.channel
    /\ client' = [client EXCEPT !.channel = FALSE]
    /\ UNCHANGED <<transport, queues, workers, stale, loggers, server, count, past>>

--------------------------------------------------------------------------
(* Logging threads *)

\* log_message(), emit(): a message is made; submit() reads the queue ...
Submit(t) ==
    /\ loggers[t].q = 0 /\ client.queue # 0 /\ count.messages < MaxMessages
    /\ loggers' = [loggers EXCEPT ![t] = [q |-> client.queue, item |-> count.messages + 1]]
    /\ count' = [count EXCEPT !.messages = @ + 1]
    /\ UNCHANGED <<transport, client, queues, workers, stale, server, past>>

\* The mutex of put_roundrobin(), one for each queue.
Turn(t) == \A u \in Loggers : loggers[u].q = loggers[t].q => loggers[t].item <= loggers[u].item

\* ... and puts the message ...
Put(t) ==
    LET q == loggers[t].q IN
    /\ q # 0 /\ Turn(t) /\ Len(queues[q]) < LogQueueSize
    /\ queues' = [queues EXCEPT ![q] = Append(@, loggers[t].item)]
    /\ past' = [past EXCEPT !.put[q] = Append(@, loggers[t].item)]
    /\ loggers' = [loggers EXCEPT ![t] = [q |-> 0, item |-> End]]
    /\ UNCHANGED <<transport, client, workers, stale, server, count>>

\* ... or discards the oldest, and tries again.
Discard(t) ==
    LET q == loggers[t].q IN
    /\ q # 0 /\ Turn(t) /\ Len(queues[q]) >= LogQueueSize
    /\ queues' = [queues EXCEPT ![q] = Tail(@)]
    /\ past' = [past EXCEPT !.discarded = @ \cup {Head(queues[q])}]
    /\ UNCHANGED <<transport, client, workers, stale, loggers, server, count>>

--------------------------------------------------------------------------
(* The worker: stream_worker() *)

\* Is there anything to be done?  Over gRPC, is a writer open; over ZMQ, is there a queue,
\* which then is read up to None.
Check(w) ==
    /\ workers[w].pc = "check"
    /\ workers' =
          IF transport = "grpc"
          THEN [workers EXCEPT ![w].pc = IF IsWriterOpen THEN "stream" ELSE "end",
                               ![w].life = count.downs]
          ELSE IF client.queue = 0 THEN [workers EXCEPT ![w].pc = "end"]
          ELSE [workers EXCEPT ![w].pc = "get", ![w].q = client.queue]
    /\ UNCHANGED <<transport, client, queues, stale, loggers, server, count, past>>

\* queue_iterator() starts when gRPC reads it: the queue of that moment, or none.  A stream
\* over a closed channel fails at once.
StartIterator(w) ==
    /\ workers[w].pc = "stream" /\ client.channel
    /\ workers' = [workers EXCEPT ![w].pc = IF client.queue = 0 THEN "check" ELSE "get",
                                  ![w].q = client.queue]
    /\ UNCHANGED <<transport, client, queues, stale, loggers, server, count, past>>

\* Fault: the worker looks for its queue before each item.
GetWhileOpen(w) ==
    LET q == workers[w].q IN
    /\ workers[w].pc = "get" /\ queues[q] # <<>>
    /\ queues' = [queues EXCEPT ![q] = Tail(@)]
    /\ workers' =
          IF Head(queues[q]) = End \/ client.queue # q THEN [workers EXCEPT ![w].pc = "check"]
          ELSE [workers EXCEPT ![w].pc = "send", ![w].item = Head(queues[q])]
    /\ UNCHANGED <<transport, client, stale, loggers, server, count, past>>

\* Fault: None is not looked at.
GetPast(w) ==
    LET q == workers[w].q IN
    /\ workers[w].pc = "get" /\ queues[q] # <<>>
    /\ queues' = [queues EXCEPT ![q] = Tail(@)]
    /\ workers' = IF Head(queues[q]) = End THEN workers
                  ELSE [workers EXCEPT ![w].pc = "send", ![w].item = Head(queues[q])]
    /\ UNCHANGED <<transport, client, stale, loggers, server, count, past>>

\* The next item; None ends the iteration, and with it the stream.
Get(w) ==
    LET q == workers[w].q IN
    /\ workers[w].pc = "get" /\ queues[q] # <<>>
    /\ queues' = [queues EXCEPT ![q] = Tail(@)]
    /\ workers' = IF Head(queues[q]) = End THEN [workers EXCEPT ![w].pc = "check"]
                  ELSE [workers EXCEPT ![w].pc = "send", ![w].item = Head(queues[q])]
    /\ UNCHANGED <<transport, client, stale, loggers, server, count, past>>

\* A stream waits for the server; a publication is lost without one.
Send(w) ==
    LET item == workers[w].item IN
    /\ workers[w].pc = "send" /\ (transport = "zmq" \/ (server.up /\ client.channel))
    /\ workers' = [workers EXCEPT ![w].pc = "get", ![w].item = End]
    /\ server' = IF server.up THEN [server EXCEPT !.log = Append(@, item)] ELSE server
    /\ past' = IF server.up THEN past ELSE [past EXCEPT !.lost = @ \cup {item}]
    /\ UNCHANGED <<transport, client, queues, stale, loggers, count>>

\* The stream fails with the server that it was made to, and the item that is on its way
\* with it; without a server it waits.  It is tried again after two seconds.
Fail(w) ==
    /\ transport = "grpc" /\ workers[w].pc \in {"stream", "get", "send"}
    /\ workers[w].life < count.downs \/ ~client.channel
    /\ workers' = [workers EXCEPT ![w].pc = "check", ![w].item = End]
    /\ stale' = IF workers[w].pc = "get" THEN [stale EXCEPT ![workers[w].q] = @ + 1] ELSE stale
    /\ past' = IF workers[w].pc = "send" THEN [past EXCEPT !.lost = @ \cup {workers[w].item}] ELSE past
    /\ UNCHANGED <<transport, client, queues, loggers, server, count>>

\* The iterator of a stream that failed takes an item, None also, and ends.
Steal(q) ==
    /\ stale[q] > 0 /\ queues[q] # <<>>
    /\ stale' = [stale EXCEPT ![q] = @ - 1]
    /\ queues' = [queues EXCEPT ![q] = Tail(@)]
    /\ past' = [past EXCEPT !.lost = @ \cup {Head(queues[q])}]
    /\ UNCHANGED <<transport, client, workers, loggers, server, count>>

ServerDown ==
    /\ server.up /\ count.downs < MaxDowns
    /\ server' = [server EXCEPT !.up = FALSE]
    /\ count' = [count EXCEPT !.downs = @ + 1]
    /\ UNCHANGED <<transport, client, queues, workers, stale, loggers, past>>

ServerUp ==
    /\ ~server.up
    /\ server' = [server EXCEPT !.up = TRUE]
    /\ UNCHANGED <<transport, client, queues, workers, stale, loggers, count, past>>

Working(w) == Check(w) \/ StartIterator(w) \/ Get(w) \/ Send(w) \/ Fail(w)

LogNext ==
    \/ OpenWriter \/ CloseWriter \/ PutEnd \/ Join \/ CloseChannel
    \/ \E t \in Loggers : Submit(t) \/ Put(t) \/ Discard(t)
    \/ \E w \in Opens : Working(w) \/ Steal(w)
    \/ ServerDown \/ ServerUp

\* Threads run, calls that began go on, and the server comes back.
LogFairness ==
    /\ WF_logVars(PutEnd) /\ WF_logVars(ServerUp)
    /\ \A t \in Loggers : WF_logVars(Put(t) \/ Discard(t))
    /\ \A w \in Opens : WF_logVars(Working(w))

LogSpec == LogInit /\ [][LogNext]_logVars /\ LogFairness

--------------------------------------------------------------------------
(* Properties *)

LogTypeOK ==
    /\ \A q \in Opens : Len(queues[q]) <= LogQueueSize /\ stale[q] \in 0..(MaxDowns + 1)
    /\ \A w \in Opens : workers[w].pc \in {"none", "check", "stream", "get", "send", "end"}
    /\ client.pc = "idle" => client.closing = 0
    /\ client.queue = client.thread

\* Messages arrive in the order in which they were put in a queue, while one worker reads
\* it, and none twice.
InOrder ==
    \A q \in Opens : \A i, j \in DOMAIN past.put[q] : \A m, n \in DOMAIN server.log :
        m < n /\ server.log[m] = past.put[q][i] /\ server.log[n] = past.put[q][j] => i < j

\* What was put before the writer was closed has arrived when its worker ends, but for what
\* was discarded for newer messages and for what was lost with the server
\* or the channel.  A worker that
\* had not begun to read when the writer was closed leaves everything.
ClosedIsFlushed ==
    \A q \in Opens : workers[q].pc = "end" /\ workers[q].q = q /\ count.downs = 0 /\ client.channel =>
        \A i, j \in DOMAIN past.put[q] : i < j /\ past.put[q][j] = End =>
            past.put[q][i] \in Range(server.log) \cup past.discarded

\* The log is complete and in order, as far as the code can promise.
LogIsWhole == InOrder /\ ClosedIsFlushed

\* A writer that was closed ends, unless the None that is meant for it goes to the iterator
\* of a failed stream, or makes room for messages of threads that had read the queue before
\* it was closed: the queue has room for one of these less than there are threads.
WorkerEnds ==
    \A w \in Opens :
        (workers[w].pc # "none" /\ client.thread # w)
            ~> (Ended(w) \/ End \in past.lost \cup past.discarded)

==============================================================================
