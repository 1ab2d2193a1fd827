----------------------------- MODULE ZmqPubSub -----------------------------
(***************************************************************************)
(* Publications over ZeroMQ in Python: Publisher and MessageWriter,        *)
(* Subscriber and MessageHandler.                                          *)
(*                                                                         *)
(* A writer sends a header, the topic, and then the data, as two parts of  *)
(* one message.  The subscriber's thread reads messages and hands each to  *)
(* those handlers whose filter is the topic, with the mutex held that an   *)
(* application takes to add and remove handlers.  The sockets, PUB and     *)
(* SUB, are external: a message is sent on if its topic starts with one of *)
(* the filters, and may be lost.                                           *)
(***************************************************************************)
EXTENDS Integers, Sequences, FiniteSets, FiniteSetsExt

CONSTANTS
    Threads,         \* threads that publish
    TopicOf,         \* topic of what each of them writes
    Publisher,       \* the publisher that each of them uses
    Handlers, FilterOf,
    StartsWith,      \* pairs of topics: the first starts with the second
    MaxPublished, MaxChanges, MaxWire   \* bounds: messages by thread, changes, unread messages

ASSUME PubSubAssumption ==
    /\ IsFiniteSet(Handlers) /\ DOMAIN FilterOf = Handlers
    /\ \A h \in Handlers : <<FilterOf[h], FilterOf[h]>> \in StartsWith
    /\ {MaxPublished, MaxChanges, MaxWire} \subseteq Nat

Publishers == {Publisher[t] : t \in Threads}
Topics == {TopicOf[t] : t \in Threads}

VARIABLES
    writer,    \* each publishing thread: messages so far, and whether a header is out
    parts,     \* parts of the message that each publisher's socket has begun
    wire,      \* messages on the way to the subscriber
    sub,       \* the subscriber: handlers, filters, thread and application
    heard      \* what each handler was given (history)

busVars == <<writer, parts, wire, sub, heard>>

BusInit ==
    /\ writer = [t \in Threads |-> [sent |-> 0, header |-> FALSE]]
    /\ parts = [p \in Publishers |-> <<>>]
    /\ wire = <<>>
    /\ sub = [handlers |-> {}, filters |-> [f \in Range(FilterOf) |-> 0], keep |-> FALSE,
              thread |-> "none", message |-> <<>>, todo |-> {}, app |-> "idle", changes |-> 0]
    /\ heard = [h \in Handlers |-> <<>>]

--------------------------------------------------------------------------
(* Publishing *)

\* publish(): the header, ...
SendHeader(t) ==
    /\ ~writer[t].header /\ writer[t].sent < MaxPublished
    /\ parts' = [parts EXCEPT ![Publisher[t]] = Append(@, TopicOf[t])]
    /\ writer' = [writer EXCEPT ![t].header = TRUE, ![t].sent = @ + 1]
    /\ UNCHANGED <<wire, sub, heard>>

Passes(topic) == \E f \in DOMAIN sub.filters : sub.filters[f] > 0 /\ <<topic, f>> \in StartsWith

\* ... and the data, with which the message is complete.
SendData(t) ==
    LET message == Append(parts[Publisher[t]], [by |-> t, no |-> writer[t].sent]) IN
    /\ writer[t].header
    /\ writer' = [writer EXCEPT ![t].header = FALSE]
    /\ parts' = [parts EXCEPT ![Publisher[t]] = <<>>]
    /\ \/ Passes(Head(message)) /\ Len(wire) < MaxWire /\ wire' = Append(wire, message)
       \/ wire' = wire
    /\ UNCHANGED <<sub, heard>>

--------------------------------------------------------------------------
(* The subscriber *)

Locked == sub.thread = "process"
Change == sub.changes < MaxChanges /\ sub.app = "idle" /\ UNCHANGED <<writer, parts, wire, heard>>

AddHandler(h) ==
    /\ ~Locked /\ Change
    /\ sub' = [sub EXCEPT !.handlers = @ \cup {h}, !.filters[FilterOf[h]] = @ + 1,
                          !.changes = @ + 1]

\* remove(): the text that is to be logged takes two values and is given three: the
\* TypeError comes before anything is removed.
RemoveHandler(h) ==
    /\ ~Locked /\ Change
    /\ sub' = [sub EXCEPT !.changes = @ + 1]

\* One filter goes with each handler: one that was added twice leaves its filter behind.
Clear ==
    /\ ~Locked /\ Change
    /\ sub' = [sub EXCEPT !.handlers = {}, !.changes = @ + 1,
                          !.filters = [f \in DOMAIN @ |->
                              @[f] - Min({@[f], Cardinality({h \in sub.handlers : FilterOf[h] = f})})]]

\* initialize() and start_receiving()
StartReceiving ==
    /\ Change /\ ~sub.keep
    /\ sub' = [sub EXCEPT !.keep = TRUE, !.changes = @ + 1,
                          !.thread = IF @ \in {"none", "dead"} THEN "loop" ELSE @]

\* stop_receiving() waits for the thread, which may wait for a message; then deinitialize().
StopReceiving ==
    /\ Change /\ sub.keep
    /\ sub' = [sub EXCEPT !.keep = FALSE, !.app = "stopping"]

Joined ==
    /\ sub.app = "stopping" /\ sub.thread = "dead"
    /\ sub' = [sub EXCEPT !.app = "idle"]
    /\ UNCHANGED <<writer, parts, wire, heard>>

ReceiveLoop ==
    /\ sub.thread = "loop"
    /\ sub' = [sub EXCEPT !.thread = IF sub.keep THEN "receive" ELSE "dead"]
    /\ UNCHANGED <<writer, parts, wire, heard>>

\* Fault: a filter is taken for what the topic starts with.
ToHandlePrefix(message) == {h \in sub.handlers : <<Head(message), FilterOf[h]>> \in StartsWith}

\* _process_message(): the handlers of the topic.
ToHandle(message) == {h \in sub.handlers : FilterOf[h] = Head(message)}

ReceiveMessage ==
    /\ sub.thread = "receive" /\ wire # <<>>
    /\ sub' = [sub EXCEPT !.thread = "lock", !.message = Head(wire)]
    /\ wire' = Tail(wire)
    /\ UNCHANGED <<writer, parts, heard>>

Lock ==
    /\ sub.thread = "lock"
    /\ sub' = [sub EXCEPT !.thread = "process", !.todo = ToHandle(sub.message)]
    /\ UNCHANGED <<writer, parts, wire, heard>>

\* Handlers are invoked in no order; what a handler raises is caught.
Handle(h) ==
    /\ sub.thread = "process" /\ h \in sub.todo
    /\ heard' = [heard EXCEPT ![h] = Append(@, Tail(sub.message))]
    /\ sub' = [sub EXCEPT !.todo = @ \ {h}]
    /\ UNCHANGED <<writer, parts, wire>>

Processed ==
    /\ sub.thread = "process" /\ sub.todo = {}
    /\ sub' = [sub EXCEPT !.thread = "loop", !.message = <<>>]
    /\ UNCHANGED <<writer, parts, wire, heard>>

BusNext ==
    \/ \E t \in Threads : SendHeader(t) \/ SendData(t)
    \/ \E h \in Handlers : AddHandler(h) \/ RemoveHandler(h) \/ Handle(h)
    \/ Clear \/ StartReceiving \/ StopReceiving \/ Joined
    \/ ReceiveLoop \/ ReceiveMessage \/ Lock \/ Processed

Receiving == ReceiveLoop \/ ReceiveMessage \/ Lock \/ Processed \/ \E h \in Handlers : Handle(h)

\* The thread runs.
BusFairness == WF_busVars(Receiving)

BusSpec == BusInit /\ [][BusNext]_busVars /\ BusFairness

--------------------------------------------------------------------------
(* Properties *)

BusTypeOK ==
    /\ sub.handlers \subseteq Handlers /\ sub.todo \subseteq Handlers
    /\ \A f \in DOMAIN sub.filters : sub.filters[f] \in 0..MaxChanges
    /\ sub.thread \in {"none", "loop", "receive", "lock", "process", "dead"}
    /\ \A i \in DOMAIN wire : Len(wire[i]) >= 2

\* A handler is given the data of its own topic, one part of it, in the order in which a
\* thread published it, and none of it twice.
HearsItsTopic ==
    \A h \in Handlers : \A i \in DOMAIN heard[h] :
        LET data == heard[h][i] IN
        /\ Len(data) = 1 /\ TopicOf[data[1].by] = FilterOf[h]
        /\ \A j \in 1..(i - 1) :
              heard[h][j][1].by = data[1].by => heard[h][j][1].no < data[1].no

\* A handler is invoked only while it is subscribed.
HandledAreSubscribed == sub.todo \subseteq sub.handlers

\* Handlers are invoked with what they subscribed to, as long as they are subscribed.
HandlersHearTheirs == HearsItsTopic /\ HandledAreSubscribed

==============================================================================
