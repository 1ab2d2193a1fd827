---------------------------- MODULE SignalStream ----------------------------
(***************************************************************************)
(* Signals carried to another process over gRPC.  On the server each call  *)
(* of Watch() runs stream_signals(): a SignalQueue connects to the signals *)
(* one by one, which replays what they have cached, an empty message marks *)
(* the end of the cache, and the queue is written to the stream until the  *)
(* call is found cancelled.  On the client ClientReceiver's thread reads   *)
(* the stream, opens another one 2 s after it fails, and SignalReceiver    *)
(* emits every message again as a local signal: the mirror.                *)
(*                                                                         *)
(* A topic is a key of a signal; a DataSignal is a signal with one key.    *)
(* connect() and emit() are atomic for each signal (see MappingSignal),    *)
(* put() and get() for the queue (see BlockingQueue).  gRPC delivers in    *)
(* order until the stream breaks.  Left out: filters, slots that throw.    *)
(***************************************************************************)
EXTENDS Integers, Sequences, SequencesExt, FiniteSets, Functions

CONSTANTS
    NumSignals,     \* signals of the server, in the order a queue connects to them
    Keys,
    MaxStreams,     \* bound: streams opened
    MaxEmits        \* bound: emissions of the server

ASSUME SignalStreamAssumption ==
    /\ NumSignals \in Nat \ {0}
    /\ IsFiniteSet(Keys)
    /\ MaxStreams \in Nat /\ MaxEmits \in Nat

VARIABLES
    cached,     \* server: the last value of some topics
    emits,      \* server: emissions so far
    call,       \* server: the handler of each stream
    opened,     \* number of streams opened; the last one is the client's
    thread,     \* client: where the receive thread is
    keepalive,  \* client: to go on after the stream
    cxt,        \* client: the context of the current call
    control,    \* client: start_watching() and stop_watching()
    event,      \* client: completion_event
    mirror,     \* client: what the local signals have cached
    kept,       \* history: topics in the mirror when the stream was opened
    touched     \* history: topics emitted since the stream was opened

server == <<cached, emits>>
history == <<kept, touched>>
vars == <<cached, emits, call, opened, thread, keepalive, cxt, control, event,
          mirror, kept, touched>>

Signals == 1 .. NumSignals
Topics == Signals \X Keys

\* A value stands for the emission that it was emitted with.
Values == 1 .. MaxEmits
Map == UNION {[D -> Values] : D \in SUBSET Topics}
Empty == [x \in {} |-> x]
Streams == 1 .. MaxStreams

\* Messages: a topic's value, its removal, and the end of the cache.
Valued(x, v) == [topic |-> x, value |-> v]
Removal(x) == [topic |-> x]
Marker == [marker |-> TRUE]
Message == {Valued(x, v) : x \in Topics, v \in Values} \union {Removal(x) : x \in Topics} \union {Marker}

With(m, x, v) == [y \in DOMAIN m \union {x} |-> IF y = x THEN v ELSE m[y]]
Without(m, x) == [y \in DOMAIN m \ {x} |-> m[y]]

\* SignalReceiver::process_signal(): a map after a message.
Process(m, msg) ==
    IF msg = Marker THEN m
    ELSE IF "value" \in DOMAIN msg THEN With(m, msg.topic, msg.value)
    ELSE Without(m, msg.topic)

\* A stream's handler: the signals whose slot it holds, what waits in its
\* queue, what is on its way to the client, and whether the stream is dead.
Handler == [at : {"none", "connect", "mark", "get", "written", "close", "ended"},
            slots : SUBSET Signals, queue : Seq(Message), wire : Seq(Message),
            dead : BOOLEAN]
NewCall == [at |-> "none", slots |-> {}, queue |-> <<>>, wire |-> <<>>, dead |-> FALSE]

TypeOK ==
    /\ cached \in Map /\ mirror \in Map
    /\ emits \in 0 .. MaxEmits
    /\ call \in [Streams -> Handler]
    /\ opened \in 0 .. MaxStreams
    /\ thread \in {"none", "check", "context", "open", "read", "failed", "reset", "ended"}
    /\ keepalive \in BOOLEAN
    /\ cxt \in {"none", "new", "cancelled", "open"}
    /\ control \in {"idle", "watching", "cancel", "join"}
    /\ event \in [value : BOOLEAN, ready : BOOLEAN]
    /\ kept \subseteq Topics /\ touched \subseteq Topics

Init ==
    /\ cached = Empty /\ mirror = Empty
    /\ emits = 0
    /\ call = [c \in Streams |-> NewCall]
    /\ opened = 0
    /\ thread = "none"
    /\ keepalive = TRUE
    /\ cxt = "none"
    /\ control = "idle"
    /\ event = [value |-> FALSE, ready |-> FALSE]
    /\ kept = {} /\ touched = {}

Live == opened > 0 /\ ~call[opened].dead

-----------------------------------------------------------------------------
(* Server                                                                  *)

\* Fault: only a handler that has replayed the cache is told.
StreamingTo(s) == {c \in Streams : s \in call[c].slots /\ call[c].at \in {"get", "written"}}

\* The streams whose queue is connected to a signal.
Listening(s) == {c \in Streams : s \in call[c].slots}

\* Every connected queue is appended to.
Forward(s, msg) ==
    call' = [c \in Streams |->
        IF c \in Listening(s) THEN [call[c] EXCEPT !.queue = Append(@, msg)] ELSE call[c]]

\* A signal is emitted in the server process, or a key of it cleared.
Emit == \E x \in Topics :
    /\ emits < MaxEmits
    /\ emits' = emits + 1
    /\ \/ cached' = With(cached, x, emits') /\ Forward(x[1], Valued(x, emits'))
       \/ cached' = Without(cached, x) /\ Forward(x[1], Removal(x))
    /\ touched' = touched \union {x}
    /\ UNCHANGED <<opened, thread, keepalive, cxt, control, event, mirror, kept>>

Serving(c, point) == c <= opened /\ call[c].at = point
Step(c, next) == call' = [call EXCEPT ![c] = next]
ServerRest == UNCHANGED <<server, opened, thread, keepalive, cxt, control, event, mirror, history>>

\* A queue with the cached topics of a signal appended, in any order.
Replays(s) ==
    LET topics == {x \in DOMAIN cached : x[1] = s}
    IN  {[i \in DOMAIN order |-> Valued(order[i], cached[order[i]])] : order \in SetToSeqs(topics)}

\* Fault: the last signal is forgotten.
AllConnectedButLast(s) == s + 1 >= NumSignals

AllConnected(s) == s = NumSignals

\* SignalQueue::initialize(): one signal after the other is connected.
Connect(c) ==
    /\ Serving(c, "connect")
    /\ LET s == Cardinality(call[c].slots) + 1
       IN  \E replay \in Replays(s) :
             Step(c, [call[c] EXCEPT
                 !.slots = @ \union {s},
                 !.queue = @ \o replay,
                 !.at = IF AllConnected(s) THEN "mark" ELSE @])
    /\ ServerRest

\* The empty message that ends the cache.
Mark(c) ==
    /\ Serving(c, "mark")
    /\ Step(c, [call[c] EXCEPT !.queue = Append(@, Marker), !.at = "get"])
    /\ ServerRest

\* get() and Write(): lost when the stream is dead.
Write(c) ==
    /\ Serving(c, "get")
    /\ call[c].queue # <<>>
    /\ Step(c, [call[c] EXCEPT
           !.queue = Tail(@),
           !.wire = IF call[c].dead THEN @ ELSE Append(@, Head(call[c].queue)),
           !.at = "written"])
    /\ ServerRest

\* IsCancelled(), which is asked after a message only.
TestCancelled(c) ==
    /\ Serving(c, "written")
    /\ Step(c, [call[c] EXCEPT !.at = IF call[c].dead THEN "close" ELSE "get"])
    /\ ServerRest

\* SignalQueue::deinitialize(), last signal first, and the end of the queue.
Disconnect(c) ==
    /\ Serving(c, "close")
    /\ \/ /\ call[c].slots # {}
          /\ Step(c, [call[c] EXCEPT !.slots = @ \ {Cardinality(@)}])
       \/ /\ call[c].slots = {}
          /\ Step(c, [call[c] EXCEPT !.queue = <<>>, !.at = "ended"])
    /\ ServerRest

Serve(c) == Connect(c) \/ Mark(c) \/ Write(c) \/ TestCancelled(c) \/ Disconnect(c)

\* A stream dies: what is on its way is lost.
Dead(h) == [h EXCEPT !.dead = TRUE, !.wire = <<>>]

\* The connection fails.
Break ==
    /\ Live
    /\ opened < MaxStreams
    /\ Step(opened, Dead(call[opened]))
    /\ ServerRest

\* The server process ends and another one takes its place.
Restart ==
    /\ Live => opened < MaxStreams
    /\ cached' = Empty
    /\ call' = [c \in Streams |->
           IF c <= opened THEN [Dead(NewCall) EXCEPT !.at = "ended"] ELSE call[c]]
    /\ UNCHANGED <<emits, opened, thread, keepalive, cxt, control, event, mirror, history>>

-----------------------------------------------------------------------------
(* Client: ClientReceiver::keep_streaming()                                *)

Run(from, to) == thread = from /\ thread' = to

Check ==
    /\ Run("check", IF keepalive THEN "context" ELSE "ended")
    /\ UNCHANGED <<server, call, opened, keepalive, cxt, control, event, mirror, history>>

Context ==
    /\ Run("context", "open")
    /\ cxt' = "new"
    /\ UNCHANGED <<server, call, opened, keepalive, control, event, mirror, history>>

\* Watch() is called, and waits until the server is there.
Open ==
    /\ cxt = "new"
    /\ opened < MaxStreams
    /\ Run("open", "read")
    /\ opened' = opened + 1
    /\ Step(opened + 1, [NewCall EXCEPT !.at = "connect"])
    /\ cxt' = "open"
    /\ kept' = DOMAIN mirror
    /\ touched' = {}
    /\ UNCHANGED <<server, keepalive, control, event, mirror>>

\* A context cancelled before the call fails the call.
OpenCancelled ==
    /\ cxt = "cancelled"
    /\ Run("open", "failed")
    /\ UNCHANGED <<server, call, opened, keepalive, cxt, control, event, mirror, history>>

\* Read() and the handler of the message.
Read ==
    /\ thread = "read"
    /\ call[opened].wire # <<>>
    /\ LET msg == Head(call[opened].wire)
       IN  /\ mirror' = Process(mirror, msg)
           /\ event' = IF msg = Marker THEN [value |-> TRUE, ready |-> TRUE] ELSE event
    /\ Step(opened, [call[opened] EXCEPT !.wire = Tail(@)])
    /\ UNCHANGED <<server, opened, thread, keepalive, cxt, control, history>>

\* Read() returns false, and so on to Finish().
ReadEnds ==
    /\ Run("read", "failed")
    /\ ~Live
    /\ UNCHANGED <<server, call, opened, keepalive, cxt, control, event, mirror, history>>

\* The wait before the next attempt, if there is to be one.
Pause ==
    /\ Run("failed", "reset")
    /\ UNCHANGED <<server, call, opened, keepalive, cxt, control, event, mirror, history>>

\* Fault: the thread ends with its stream.
ResetAndEnd ==
    /\ Run("reset", "ended")
    /\ cxt' = "none"
    /\ UNCHANGED <<server, call, opened, keepalive, control, event, mirror, history>>

Reset ==
    /\ Run("reset", "check")
    /\ cxt' = "none"
    /\ UNCHANGED <<server, call, opened, keepalive, control, event, mirror, history>>

KeepStreaming == Check \/ Context \/ Open \/ OpenCancelled \/ Read \/ ReadEnds \/ Pause \/ Reset

-----------------------------------------------------------------------------
(* Client: start_watching() and stop_watching()                            *)

Start ==
    /\ control = "idle"
    /\ opened < MaxStreams
    /\ control' = "watching"
    /\ keepalive' = TRUE
    /\ thread' = "check"
    /\ UNCHANGED <<server, call, opened, cxt, event, mirror, history>>

\* The waiters for completion are let go, and the thread is not to go on.
Stop ==
    /\ control = "watching"
    /\ control' = "cancel"
    /\ event' = [event EXCEPT !.ready = TRUE]
    /\ keepalive' = FALSE
    /\ UNCHANGED <<server, call, opened, thread, cxt, mirror, history>>

\* stop_watching() when nothing is being watched.
StopIdle ==
    /\ control = "idle"
    /\ event' = [event EXCEPT !.ready = TRUE]
    /\ keepalive' = FALSE
    /\ UNCHANGED <<server, call, opened, thread, cxt, control, mirror, history>>

\* TryCancel(), when there is a context by now.
Cancel ==
    /\ control = "cancel"
    /\ control' = "join"
    /\ cxt' = IF cxt = "new" THEN "cancelled" ELSE cxt
    /\ IF cxt = "open" THEN Step(opened, Dead(call[opened])) ELSE UNCHANGED call
    /\ UNCHANGED <<server, opened, thread, keepalive, event, mirror, history>>

Join ==
    /\ control = "join"
    /\ thread = "ended"
    /\ thread' = "none"
    /\ control' = "idle"
    /\ UNCHANGED <<server, call, opened, keepalive, cxt, event, mirror, history>>

-----------------------------------------------------------------------------
Next ==
    \/ Emit \/ Break \/ Restart
    \/ \E c \in Streams : Serve(c)
    \/ KeepStreaming
    \/ Start \/ Stop \/ StopIdle \/ Cancel \/ Join

Spec == Init /\ [][Next]_vars

\* The handlers, the receive thread and a stop_watching() that has begun go
\* on; nobody has to emit, to start or to stop, and no stream has to break.
FairSpec ==
    /\ Spec
    /\ \A c \in Streams : WF_vars(Serve(c))
    /\ WF_vars(KeepStreaming)
    /\ WF_vars(Cancel) /\ WF_vars(Join)

-----------------------------------------------------------------------------
(* Properties                                                              *)

\* What is under way on the client's stream, in its order, and what it says of a topic.
UnderWay == call[opened].wire \o call[opened].queue
About(p, x) == {i \in DOMAIN p : p[i] # Marker /\ p[i].topic = x}
LastWord(p, x, msg) == \E i \in About(p, x) : p[i] = msg /\ \A j \in About(p, x) : j <= i

\* A topic comes to a value, or goes, when all of that has been received.
ArrivesAs(x, v) ==
    \/ LastWord(UnderWay, x, Valued(x, v))
    \/ About(UnderWay, x) = {} /\ x \in DOMAIN mirror /\ mirror[x] = v
Leaves(x) ==
    \/ LastWord(UnderWay, x, Removal(x))
    \/ About(UnderWay, x) = {} /\ x \notin DOMAIN mirror

\* No signal falls between the replay of the cache and the stream: whatever
\* is emitted while the queue connects, is replayed and is written, the mirror
\* comes to the server's value of every topic connected so far, and keeps no
\* other topic than those it held before (stream_signals(), SignalQueue).
NothingMissed ==
    Live => \A x \in Topics : x[1] \in call[opened].slots =>
        IF x \in DOMAIN cached THEN ArrivesAs(x, cached[x])
        ELSE Leaves(x) \/ (About(UnderWay, x) = {} /\ x \in kept)

CaughtUpOn(topics) == \A x \in topics : x \in DOMAIN mirror /\ mirror[x] = cached[x]

\* The completion event is true to its word: when the marker is received, the
\* mirror holds the server's value of every topic that has not been emitted
\* since the stream was opened (on_init_complete(), wait_complete()).
CompleteMeansReplayed == [][
    Read /\ Head(call[opened].wire) = Marker => CaughtUpOn(DOMAIN cached \ touched)]_vars

\* A client that goes on watching catches up, however often the stream breaks
\* or the server restarts before (keep_streaming()).
MirrorCatchesUp == <>[](control = "watching") => <>[]CaughtUpOn(DOMAIN cached)

\* A client that is told to stop watching does stop (stop_watching()).
StopEnds == control = "cancel" ~> control = "idle"
=============================================================================
