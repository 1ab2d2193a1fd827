---------------------------- MODULE WatchSignals ----------------------------
(***************************************************************************)
(* Signals over gRPC in Python: SignalRequestHandler.Watch() on the server *)
(* (messaging/grpc/request_handler), the store it streams from             *)
(* (protobuf/signal), and the clients' readers (messaging/grpc/client).    *)
(*                                                                         *)
(* Nothing here holds a lock.  Watch() runs in a thread of the server's    *)
(* pool: it appends its queue to the slots of every signal and replays     *)
(* what is cached, item by item, while the application emits in another    *)
(* thread.  One emitter is modelled; its calls of the slots of a signal    *)
(* are one step, after the update of the cache.  A handler takes its       *)
(* worker until it ends; it finds that the client is gone when it has a    *)
(* message to send.                                                        *)
(*                                                                         *)
(* The client's reader runs the stream in a thread of its own, whose       *)
(* messages go to the client's store; a stream is opened by that thread.   *)
(***************************************************************************)
EXTENDS SignalStore, FiniteSets

CONSTANTS
    EventNames,    \* the names that are emitted as events; the others are maps
    Mappings,      \* the keys and values that emit_mapping() is called with
    Updates,       \* the maps that emit_map_update() is called with
    Order,         \* the names in the order of their fields
    Clients,
    Streams,       \* reader threads with their streams; each is used once
    Client,        \* the client of each stream
    Workers,       \* size of the server's thread pool (max_workers)
    QueueSize,     \* max_queue_size
    MaxEmits       \* bound on the calls of emit...()

\* The maps that an application may have: as many keys as it put there.
Maps == UNION {[ks -> Values] : ks \in {ks \in SUBSET Keys : IsFiniteSet(ks)}}

ASSUME WatchAssumption ==
    /\ EventNames \subseteq Names
    /\ Order \in Seq(Names) /\ IsInjective(Order) /\ Range(Order) = Names
    /\ Mappings \subseteq Keys \X (Values \cup {None}) /\ Updates \subseteq Maps
    /\ Client \in [Streams -> Clients]
    /\ Workers \in Nat \ {0} /\ QueueSize \in Nat \ {0}
    /\ Values # {} /\ None \notin Message \cup Streams

VARIABLES
    cache, completed,   \* the server's store: _cache, _completion_event
    slots,              \* the server's store: the queues connected to each signal
    todo,               \* messages that the emitter is about to emit
    telling,            \* the message it has cached and not yet passed to the slots
    call,               \* the handler of each stream, its place and the locals of its replay
    queue,              \* the handler's queue
    readers,            \* the thread of each client's reader
    worker,             \* the reader's threads: where they are
    mirror,             \* the clients' stores
    emits,              \* calls so far
    overtaken,          \* streams that were told of a key while they replayed it (history)
    cut                 \* streams that lost a message or a slot (history)

storeVars == <<cache, completed, slots>>
emitterVars == <<todo, telling, emits>>
readerVars == <<readers, worker, mirror>>
watchVars == <<storeVars, emitterVars, call, queue, readerVars, overtaken, cut>>

NoCall == [pc |-> "new", at |-> 0, visited |-> {}, size |-> 0, held |-> None]

WatchTypeOK ==
    /\ DOMAIN cache \subseteq Names
    /\ \A n \in DOMAIN cache : /\ DOMAIN cache[n] \subseteq Keys \cup {None}
                               /\ \A k \in DOMAIN cache[n] : cache[n][k] \in Values
    /\ completed \in BOOLEAN
    /\ \A n \in Names : slots[n] \in Seq(Streams)
    /\ todo \in Seq(Message) /\ telling \in Message \cup {None}
    /\ \A t \in Streams :
          /\ queue[t] \in Seq(Message) /\ Len(queue[t]) <= QueueSize
          /\ call[t].pc \in {"new", "requested", "connect", "wait", "replay", "serve",
                             "finally", "ended"}
          /\ call[t].held \in Message \cup {None}
          /\ worker[t] \in {"new", "read", "finish", "ended"}
    /\ readers \in [Clients -> Streams \cup {None}]

WatchInit ==
    /\ cache = EmptyCache /\ completed = FALSE /\ slots = [n \in Names |-> <<>>]
    /\ todo = <<>> /\ telling = None /\ emits = 0
    /\ call = [t \in Streams |-> NoCall] /\ queue = [t \in Streams |-> <<>>]
    /\ readers = [c \in Clients |-> None]
    /\ worker = [t \in Streams |-> "new"]
    /\ mirror = [c \in Clients |-> EmptyCache]
    /\ overtaken = {} /\ cut = {}

--------------------------------------------------------------------------
(* The server's application: one thread emits *)

Idle == todo = <<>> /\ telling = None

Ask(messages) ==
    /\ Idle /\ emits < MaxEmits
    /\ emits' = emits + 1 /\ todo' = messages
    /\ UNCHANGED <<storeVars, telling, call, queue, readerVars, overtaken, cut>>

\* (What an event carries does not matter here.)
AskEvent == \E n \in EventNames : Ask(EmitEvent(n, CHOOSE v \in Values : TRUE))
AskMapping ==
    \E n \in Names \ EventNames, kv \in Mappings : Ask(EmitMapping(cache, n, kv[1], kv[2]))
AskMapUpdate ==
    \E n \in Names \ EventNames, new \in Updates : Ask(EmitMapUpdate(cache, n, new))

\* emit(): the cache first ...
EmitToCache ==
    /\ telling = None /\ todo # <<>>
    /\ telling' = Head(todo) /\ todo' = Tail(todo)
    /\ cache' = UpdateCache(cache, Head(todo))
    /\ UNCHANGED <<completed, slots, emits, call, queue, readerVars, overtaken, cut>>

Full(t) == Len(queue[t]) >= QueueSize

\* Calls of put_nowait() that raise, which safe_invoke() logs.
Refused(told) == {t \in told : Full(t)}

\* ... then the slots.
\* (Nobody reads the queue of a handler that has ended, which the slots of the other
\* signals still hold: it is not followed.)
EmitToSlots ==
    LET told == IF telling.name = None THEN {}
                ELSE {t \in Range(slots[telling.name]) : call[t].pc # "ended"}
        full == Refused(told)
    IN
    /\ telling # None
    /\ queue' = [t \in Streams |-> IF t \in told \ full THEN Append(queue[t], telling) ELSE queue[t]]
    /\ completed' = (completed \/ Completes(telling))
    /\ telling' = None
    /\ overtaken' = overtaken \cup {t \in told : /\ call[t].held # None
                                                 /\ call[t].held.key = telling.key
                                                 /\ call[t].held.name = telling.name}
    /\ cut' = cut \cup full
    /\ UNCHANGED <<cache, slots, todo, emits, call, readerVars>>

--------------------------------------------------------------------------
(* The client: start_watching(), stop_watching(), the reader's thread *)

\* ThreadReader.start(), stop()
Started(t) == [readers EXCEPT ![Client[t]] = t]
Forgotten(c) == [readers EXCEPT ![c] = None]

\* start_watching(): nothing happens while the reader has a thread.  There is no retry:
\* it takes another call after a stream has ended.
StartWatching(t) ==
    /\ worker[t] = "new" /\ readers[Client[t]] = None
    /\ readers' = Started(t)
    /\ worker' = [worker EXCEPT ![t] = "read"]
    /\ call' = [call EXCEPT ![t].pc = "requested"]
    /\ UNCHANGED <<storeVars, emitterVars, queue, mirror, overtaken, cut>>

\* stop_watching(): the thread is forgotten; it goes on until its next message.
StopWatching(c) ==
    /\ readers[c] # None
    /\ readers' = Forgotten(c)
    /\ UNCHANGED <<storeVars, emitterVars, call, queue, worker, mirror, overtaken, cut>>

\* The end of worker(): whichever thread the reader has by now is forgotten.
ReaderEnds(t) ==
    /\ \/ worker[t] = "finish"
       \/ worker[t] = "read" /\ call[t].pc = "ended"
    /\ worker' = [worker EXCEPT ![t] = "ended"]
    /\ readers' = Forgotten(Client[t])
    /\ UNCHANGED <<storeVars, emitterVars, call, queue, mirror, overtaken, cut>>

--------------------------------------------------------------------------
(* The handler of a stream: Watch() *)

Busy == {t \in Streams : call[t].pc \notin {"new", "requested", "ended"}}

Accept(t) ==
    /\ call[t].pc = "requested" /\ Cardinality(Busy) < Workers
    /\ call' = [call EXCEPT ![t] = [NoCall EXCEPT !.pc = "connect", !.at = 1]]
    /\ UNCHANGED <<storeVars, emitterVars, queue, readerVars, overtaken, cut>>

Onwards(t) == [NoCall EXCEPT !.pc = "connect", !.at = call[t].at + 1]
Replaying(t, n) ==
    IF n \notin DOMAIN cache THEN Onwards(t)
    ELSE [call[t] EXCEPT !.pc = "replay", !.visited = {}, !.size = Cardinality(DOMAIN cache[n])]

\* Fault: a signal that is cached is replayed and not connected.
ConnectReplayOnly(t) ==
    LET n == Order[call[t].at] IN
    /\ call[t].pc = "connect" /\ call[t].at <= Len(Order)
    /\ slots' = [slots EXCEPT ![n] = IF n \in DOMAIN cache THEN @ ELSE Append(@, t)]
    /\ call' = [call EXCEPT ![t] = Replaying(t, n)]
    /\ UNCHANGED <<cache, completed, emitterVars, queue, readerVars, overtaken, cut>>

\* connect_signal(): the slot is registered first; a name that was never emitted, in a
\* store that has others, waits for the store's completion event.
ConnectSlots(t) ==
    LET n == Order[call[t].at] IN
    /\ call[t].pc = "connect" /\ call[t].at <= Len(Order)
    /\ slots' = [slots EXCEPT ![n] = Append(@, t)]
    /\ call' = [call EXCEPT ![t] = IF cache = EmptyCache THEN Onwards(t)
                                   ELSE IF n \in DOMAIN cache \/ completed THEN Replaying(t, n)
                                   ELSE [@ EXCEPT !.pc = "wait"]]
    /\ UNCHANGED <<cache, completed, emitterVars, queue, readerVars, overtaken, cut>>

WaitComplete(t) ==
    /\ call[t].pc = "wait" /\ completed
    /\ call' = [call EXCEPT ![t] = Replaying(t, Order[call[t].at])]
    /\ UNCHANGED <<storeVars, emitterVars, queue, readerVars, overtaken, cut>>

\* What is cached is the message as it was emitted ("UPDATE" stands for an addition too).
Replayed(n) == IF n \in EventNames THEN "NONE" ELSE "UPDATE"

\* The next item of the map, which is iterated as it is: a change of its size is an error
\* (RuntimeError), and the call fails.
ReplayNext(t) ==
    LET n    == Order[call[t].at]
        map  == DataMap(cache, n)
        left == DOMAIN map \ call[t].visited
    IN
    /\ call[t].pc = "replay" /\ call[t].held = None
    /\ \/ /\ Cardinality(DOMAIN map) # call[t].size
          /\ call' = [call EXCEPT ![t].pc = "finally"]
       \/ /\ Cardinality(DOMAIN map) = call[t].size /\ left = {}
          /\ call' = [call EXCEPT ![t] = Onwards(t)]
       \/ /\ Cardinality(DOMAIN map) = call[t].size
          /\ \E k \in left :
                call' = [call EXCEPT ![t].visited = @ \cup {k},
                                     ![t].held = Msg(n, Replayed(n), k, map[k])]
    /\ UNCHANGED <<storeVars, emitterVars, queue, readerVars, overtaken, cut>>

ReplayPut(t) ==
    /\ call[t].pc = "replay" /\ call[t].held # None
    /\ queue' = [queue EXCEPT ![t] = IF Full(t) THEN @ ELSE Append(@, call[t].held)]
    /\ cut' = IF Full(t) THEN cut \cup {t} ELSE cut
    /\ call' = [call EXCEPT ![t].held = None]
    /\ UNCHANGED <<storeVars, emitterVars, readerVars, overtaken>>

\* Fault: the end of the cache waits for room in the queue, which nobody reads yet.
MarkWaits(t) ==
    /\ call[t].pc = "connect" /\ call[t].at > Len(Order) /\ ~Full(t)
    /\ queue' = [queue EXCEPT ![t] = Append(@, Marker)]
    /\ call' = [call EXCEPT ![t].pc = "serve"]
    /\ UNCHANGED <<storeVars, emitterVars, readerVars, overtaken, cut>>

\* The end of the cache; here a full queue is an error of the call.
Mark(t) ==
    /\ call[t].pc = "connect" /\ call[t].at > Len(Order)
    /\ queue' = [queue EXCEPT ![t] = IF Full(t) THEN @ ELSE Append(@, Marker)]
    /\ call' = [call EXCEPT ![t].pc = IF Full(t) THEN "finally" ELSE "serve"]
    /\ UNCHANGED <<storeVars, emitterVars, readerVars, overtaken, cut>>

\* A message is taken from the queue and sent; the client's reader passes it to its store,
\* then looks whether it is still active.
Deliver(t) ==
    LET c == Client[t]
        m == Head(queue[t])
    IN
    /\ call[t].pc = "serve" /\ queue[t] # <<>> /\ worker[t] = "read"
    /\ queue' = [queue EXCEPT ![t] = Tail(@)]
    /\ mirror' = [mirror EXCEPT ![c] = UpdateCache(@, m)]
    /\ worker' = [worker EXCEPT ![t] = IF readers[c] = None THEN "finish" ELSE "read"]
    /\ UNCHANGED <<storeVars, emitterVars, call, readers, overtaken, cut>>

\* Fault: a message that cannot be sent is dropped, and the handler goes on.
UndeliverableDropped(t) ==
    /\ call[t].pc = "serve" /\ queue[t] # <<>> /\ worker[t] \in {"finish", "ended"}
    /\ queue' = [queue EXCEPT ![t] = Tail(@)]
    /\ UNCHANGED <<storeVars, emitterVars, call, readerVars, overtaken, cut>>

\* The client is gone: the generator is closed at its next message.
Undeliverable(t) ==
    /\ call[t].pc = "serve" /\ queue[t] # <<>> /\ worker[t] \in {"finish", "ended"}
    /\ queue' = [queue EXCEPT ![t] = Tail(@)]
    /\ call' = [call EXCEPT ![t].pc = "finally"]
    /\ UNCHANGED <<storeVars, emitterVars, readerVars, overtaken, cut>>

\* The handlers that are disconnected: all those of the last signal.
Disconnected(n, t) == IF n = Last(Order) THEN <<>> ELSE slots[n]

Finally(t) ==
    /\ call[t].pc = "finally"
    /\ slots' = [n \in Names |-> Disconnected(n, t)]
    /\ cut' = (cut \cup Range(slots[Last(Order)])) \ {t}
    /\ overtaken' = overtaken \ {t}
    /\ queue' = [queue EXCEPT ![t] = <<>>]
    /\ call' = [call EXCEPT ![t] = [NoCall EXCEPT !.pc = "ended"]]
    /\ UNCHANGED <<cache, completed, emitterVars, readerVars>>

--------------------------------------------------------------------------
Watch(t) == ConnectSlots(t) \/ WaitComplete(t) \/ ReplayNext(t) \/ ReplayPut(t)
               \/ Mark(t) \/ Deliver(t) \/ Undeliverable(t) \/ Finally(t)

WatchNext ==
    \/ AskEvent \/ AskMapping \/ AskMapUpdate \/ EmitToCache \/ EmitToSlots
    \/ \E c \in Clients : StopWatching(c)
    \/ \E t \in Streams : StartWatching(t) \/ Accept(t) \/ Watch(t) \/ ReaderEnds(t)

\* Threads run; nobody has to emit, to start or to stop.
WatchFairness ==
    /\ WF_watchVars(EmitToCache) /\ WF_watchVars(EmitToSlots)
    /\ \A t \in Streams : WF_watchVars(Accept(t)) /\ WF_watchVars(Watch(t)) /\ WF_watchVars(ReaderEnds(t))

WatchSpec == WatchInit /\ [][WatchNext]_watchVars /\ WatchFairness

--------------------------------------------------------------------------
(* Properties *)

\* What a client has, with what is on its way, is what the server has cached: neither the
\* replay nor the emissions beside it leave a gap or bring back what is gone.  (First
\* stream of a client; without the losses that "cut" and "overtaken" stand for.)
OnItsWay(t) ==
    IF telling # None /\ telling.name # None /\ t \in Range(slots[telling.name])
    THEN Append(queue[t], telling) ELSE queue[t]

FirstStream(t) == \A u \in Streams \ {t} : Client[u] = Client[t] => worker[u] = "new"

MirrorFollows ==
    \A t \in Streams :
        call[t].pc = "serve" /\ worker[t] = "read" /\ FirstStream(t) /\ t \notin cut \cup overtaken
        => \A n \in Names, k \in Keys \cup {None} :
              Applied(mirror[Client[t]], OnItsWay(t), n, k) = Cached(cache, n, k)

\* emit_map_update() brings the cache in sync with the map that it is given
\* (cachingsignalstore.py:128), whatever was emitted before.
MapUpdateReaches ==
    \A n \in Names \ EventNames, new \in Maps, k \in Keys \cup {None} :
        Applied(cache, EmitMapUpdate(cache, n, new), n, k)
            = IF k \in DOMAIN new THEN new[k] ELSE None

\* Clients have what is cached, and what is cached is what the application meant.
CacheReachesAll == MirrorFollows /\ MapUpdateReaches

\* A call of Watch() that has its worker gets to the end of the cache or fails; only the
\* completion event of the store may keep it waiting.
WatchAnswers ==
    \A t \in Streams :
        call[t].pc \in {"connect", "replay"} ~> call[t].pc \in {"serve", "wait", "ended"}

\* The handler of a client that is gone gives its worker back once there is a message
\* for it.
DeadStreamsEnd ==
    \A t \in Streams :
        call[t].pc = "serve" /\ worker[t] = "ended" /\ queue[t] # <<>> ~> call[t].pc = "ended"

==========================================================================
