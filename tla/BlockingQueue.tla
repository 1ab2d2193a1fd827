--------------------------- MODULE BlockingQueue ---------------------------
(***************************************************************************)
(* core::types::BlockingQueue<T> (thread/blockingqueue.h++, .c++): the     *)
(* bounded queue between a signal's emitters and the thread that streams   *)
(* them, between the logger and its sinks, and so on.                      *)
(*                                                                         *)
(* Every thread is at one of a few program points.  A stretch of code that *)
(* holds `mtx` from its lock to its unlock (or to the wait that gives it   *)
(* up) is one step; the test of closed_ before the lock in put(), and each *)
(* notification after the unlock, are steps of their own.  "wait_space" and *)
(* "wait_item" are the two condition variables' wait sets.                 *)
(***************************************************************************)
EXTENDS Naturals, Sequences, FiniteSets, Functions

CONSTANTS
    Producers,      \* threads that call put()
    Consumers,      \* threads that call get()
    Controllers,    \* threads that call close(), reopen(), clear(), notify()
    MaxSize,        \* maxsize_, 0 for unlimited
    Disposition,    \* overflow_disposition_
    MaxPuts,        \* bound: put() calls of each producer
    MaxControls     \* bound: calls of each controller

Dispositions == {"BLOCK", "DISCARD_ITEM", "DISCARD_OLDEST"}

ASSUME QueueAssumption ==
    /\ MaxSize \in Nat
    /\ MaxPuts \in Nat
    /\ MaxControls \in Nat
    /\ Disposition \in Dispositions
    /\ IsFiniteSet(Producers) /\ IsFiniteSet(Consumers)
    /\ Producers \intersect Consumers = {}
    /\ Producers \intersect Controllers = {}
    /\ Consumers \intersect Controllers = {}

Threads == Producers \union Consumers \union Controllers

\* The items are told apart by who put them, and when.
Item == Producers \X (1 .. MaxPuts)

VARIABLES
    queue,       \* std::list<T> queue
    closed,      \* closed_
    shutdown,    \* platform::signal_shutdown.emitted()
    pc,          \* where each thread is
    arg,         \* the arguments of the call each thread is in
    calls,       \* calls made so far by each producer and controller
    accepted     \* history: every item ever pushed

vars == <<queue, closed, shutdown, pc, arg, calls, accepted>>

ProducerPoints == {"idle", "lock", "wait_space", "woken", "notify"}
ConsumerPoints == {"idle", "lock", "wait_item", "expired", "notify"}
ControllerPoints == {"idle", "notify_space", "notify_item"}

NoArg == [reopen |-> FALSE, notify |-> FALSE, deadline |-> FALSE]

\* Every thread is at a point of the code that its kind runs.
PointsOK ==
    /\ pc \in [Threads -> ProducerPoints \union ConsumerPoints \union ControllerPoints]
    /\ \A p \in Producers : pc[p] \in ProducerPoints
    /\ \A c \in Consumers : pc[c] \in ConsumerPoints
    /\ \A k \in Controllers : pc[k] \in ControllerPoints

TypeOK ==
    /\ PointsOK
    /\ queue \in Seq(Item)
    /\ closed \in BOOLEAN
    /\ shutdown \in BOOLEAN
    /\ arg \in [Threads -> [reopen : BOOLEAN, notify : BOOLEAN, deadline : BOOLEAN]]
    /\ calls \in [Threads -> Nat]
    /\ accepted \subseteq Item

Init ==
    /\ queue = <<>>
    /\ closed = FALSE
    /\ shutdown = FALSE
    /\ pc = [t \in Threads |-> "idle"]
    /\ arg = [t \in Threads |-> NoArg]
    /\ calls = [t \in Threads |-> 0]
    /\ accepted = {}

Goto(t, point) == pc' = [pc EXCEPT ![t] = point]

At(point) == {t \in Threads : pc[t] = point}

\* Fault: the bound is off by one.
HasRoomForOneMore == MaxSize = 0 \/ Len(queue) <= MaxSize

HasRoom == MaxSize = 0 \/ Len(queue) < MaxSize

\* Fault: the item is numbered before the call is counted.
NextItem(p) == <<p, calls[p] + 1>>

\* The item a producer is putting.
Current(p) == <<p, calls[p]>>

-----------------------------------------------------------------------------
(* put(value, reopen, notify)                                              *)

\* The test before the lock: a closed queue refuses the item unless told to
\* reopen.
PutCheck(p) == \E reopen \in BOOLEAN, notify \in BOOLEAN :
    /\ pc[p] = "idle"
    /\ calls[p] < MaxPuts
    /\ calls' = [calls EXCEPT ![p] = @ + 1]
    /\ IF reopen \/ ~closed
       THEN /\ Goto(p, "lock")
            /\ arg' = [arg EXCEPT ![p] = [NoArg EXCEPT !.reopen = reopen, !.notify = notify]]
       ELSE UNCHANGED <<pc, arg>>
    /\ UNCHANGED <<queue, closed, shutdown, accepted>>

Push(p, rest) ==
    /\ queue' = Append(rest, Current(p))
    /\ accepted' = accepted \union {Current(p)}

NoPush == UNCHANGED <<queue, accepted>>

\* Under the lock: closed_ = false, then pushable() and push_back().
PutLocked(p) ==
    /\ pc[p] = "lock"
    /\ closed' = FALSE
    /\ \/ HasRoom /\ Push(p, queue) /\ Goto(p, "notify")
       \/ ~HasRoom /\ Disposition = "DISCARD_OLDEST" /\ Push(p, Tail(queue)) /\ Goto(p, "notify")
       \/ ~HasRoom /\ Disposition = "DISCARD_ITEM" /\ NoPush /\ Goto(p, "notify")
       \/ ~HasRoom /\ Disposition = "BLOCK" /\ NoPush /\ Goto(p, "wait_space")
    /\ UNCHANGED <<shutdown, arg, calls>>

\* Fault: the predicate of the wait is not tested again.
PutWokenOnce(p) ==
    /\ pc[p] = "woken"
    /\ IF closed THEN NoPush ELSE Push(p, queue)
    /\ Goto(p, "notify")
    /\ UNCHANGED <<closed, shutdown, arg, calls>>

\* pushable()'s wait on space_available, back with the lock: the predicate is
\* tested again.
PutWoken(p) ==
    /\ pc[p] = "woken"
    /\ \/ closed /\ NoPush /\ Goto(p, "notify")
       \/ ~closed /\ HasRoom /\ Push(p, queue) /\ Goto(p, "notify")
       \/ ~closed /\ ~HasRoom /\ NoPush /\ Goto(p, "wait_space")
    /\ UNCHANGED <<closed, shutdown, arg, calls>>

\* A condition variable's notify_one: one waiter, if there is one, goes on.
NotifyOne(from, to, t) ==
    IF At(from) = {}
    THEN Goto(t, "idle")
    ELSE \E w \in At(from) : pc' = [pc EXCEPT ![t] = "idle", ![w] = to]

\* notify_all
NotifyAll(from, to, t, point) ==
    pc' = [w \in Threads |-> IF w = t THEN point ELSE IF pc[w] = from THEN to ELSE pc[w]]

\* After the unlock: item_available.notify_one(); put() returns true, whether
\* or not the item was pushed.
PutReturn(p) ==
    /\ pc[p] = "notify"
    /\ IF arg[p].notify THEN NotifyOne("wait_item", "lock", p) ELSE Goto(p, "idle")
    /\ arg' = [arg EXCEPT ![p] = NoArg]
    /\ UNCHANGED <<queue, closed, shutdown, calls, accepted>>

\* A condition variable may wake a thread that nobody notified.
PutSpurious(p) ==
    /\ pc[p] = "wait_space"
    /\ Goto(p, "woken")
    /\ UNCHANGED <<queue, closed, shutdown, arg, calls, accepted>>

-----------------------------------------------------------------------------
(* get() and get(deadline)                                                 *)

GetCall(c) == \E deadline \in BOOLEAN :
    /\ pc[c] = "idle"
    /\ arg' = [arg EXCEPT ![c] = [NoArg EXCEPT !.deadline = deadline]]
    /\ Goto(c, "lock")
    /\ UNCHANGED <<queue, closed, shutdown, calls, accepted>>

\* The front of the queue is moved out and discarded, if there is one.
Take(c) ==
    /\ queue' = IF queue = <<>> THEN queue ELSE Tail(queue)
    /\ Goto(c, "notify")

\* Fault: get() does not look at closed_.
MustWaitEvenClosed(c) ==
    /\ queue = <<>>
    /\ arg[c].deadline \/ ~shutdown

\* Only get() without a deadline looks at the shutdown signal.
MustWait(c) ==
    /\ queue = <<>>
    /\ ~closed
    /\ arg[c].deadline \/ ~shutdown

\* Under the lock: wait or take.
GetLocked(c) ==
    /\ pc[c] = "lock"
    /\ IF MustWait(c) THEN Goto(c, "wait_item") /\ UNCHANGED queue ELSE Take(c)
    /\ UNCHANGED <<closed, shutdown, arg, calls, accepted>>

\* Fault: get() waits for a notification, however long that takes.
GetTimeoutDeadlineOnly(c) ==
    /\ pc[c] = "wait_item"
    /\ arg[c].deadline
    /\ Goto(c, "expired")
    /\ UNCHANGED <<queue, closed, shutdown, arg, calls, accepted>>

\* wait_for(closewatch) ends and the loop turns; wait_until(deadline) ends
\* and there is no further wait.
GetTimeout(c) ==
    /\ pc[c] = "wait_item"
    /\ Goto(c, IF arg[c].deadline THEN "expired" ELSE "lock")
    /\ UNCHANGED <<queue, closed, shutdown, arg, calls, accepted>>

GetExpired(c) ==
    /\ pc[c] = "expired"
    /\ Take(c)
    /\ UNCHANGED <<closed, shutdown, arg, calls, accepted>>

\* Fault: get() tells nobody of the slot it freed.
GetReturnSilent(c) ==
    /\ pc[c] = "notify"
    /\ Goto(c, "idle")
    /\ arg' = [arg EXCEPT ![c] = NoArg]
    /\ UNCHANGED <<queue, closed, shutdown, calls, accepted>>

\* After the unlock: space_available.notify_one(), and get() returns.
GetReturn(c) ==
    /\ pc[c] = "notify"
    /\ NotifyOne("wait_space", "woken", c)
    /\ arg' = [arg EXCEPT ![c] = NoArg]
    /\ UNCHANGED <<queue, closed, shutdown, calls, accepted>>

-----------------------------------------------------------------------------
(* close(), reopen(), clear(), notify() and the program's shutdown         *)

Control(k) ==
    /\ pc[k] = "idle"
    /\ calls[k] < MaxControls
    /\ calls' = [calls EXCEPT ![k] = @ + 1]

Close(k) ==
    /\ Control(k)
    /\ closed' = TRUE
    /\ Goto(k, "notify_space")
    /\ UNCHANGED <<queue, shutdown, arg, accepted>>

CloseNotifySpace(k) ==
    /\ pc[k] = "notify_space"
    /\ NotifyAll("wait_space", "woken", k, "notify_item")
    /\ UNCHANGED <<queue, closed, shutdown, arg, calls, accepted>>

CloseNotifyItem(k) ==
    /\ pc[k] = "notify_item"
    /\ NotifyAll("wait_item", "lock", k, "idle")
    /\ UNCHANGED <<queue, closed, shutdown, arg, calls, accepted>>

Reopen(k) ==
    /\ Control(k)
    /\ closed' = FALSE
    /\ UNCHANGED <<queue, shutdown, pc, arg, accepted>>

\* BlockingQueue<T>::clear() empties the list and notifies nobody: it
\* overrides the base class's clear(), which would.
Clear(k) ==
    /\ Control(k)
    /\ queue' = <<>>
    /\ UNCHANGED <<closed, shutdown, pc, arg, accepted>>

Notify(k) ==
    /\ Control(k)
    /\ NotifyOne("wait_item", "lock", k)
    /\ UNCHANGED <<queue, closed, shutdown, arg, accepted>>

Shutdown ==
    /\ ~shutdown
    /\ shutdown' = TRUE
    /\ UNCHANGED <<queue, closed, pc, arg, calls, accepted>>

-----------------------------------------------------------------------------
PutNext(p) == PutCheck(p) \/ PutLocked(p) \/ PutWoken(p) \/ PutReturn(p) \/ PutSpurious(p)

GetNext(c) == GetCall(c) \/ GetLocked(c) \/ GetTimeout(c) \/ GetExpired(c) \/ GetReturn(c)

CloseNext(k) == Close(k) \/ CloseNotifySpace(k) \/ CloseNotifyItem(k)

\* The calls every user of the queue makes ...
NextNoClear ==
    \/ \E p \in Producers : PutNext(p)
    \/ \E c \in Consumers : GetNext(c)
    \/ \E k \in Controllers : CloseNext(k) \/ Reopen(k) \/ Notify(k)
    \/ Shutdown

\* ... and all of them.
Next == NextNoClear \/ \E k \in Controllers : Clear(k)

Spec == Init /\ [][Next]_vars

\* Threads inside a call are scheduled, and their timed waits end; nobody is
\* obliged to make a call, save that a consumer keeps calling get().
Fairness ==
    /\ \A p \in Producers : WF_vars(PutLocked(p) \/ PutWoken(p) \/ PutReturn(p))
    /\ \A c \in Consumers : WF_vars(GetNext(c))
    /\ \A k \in Controllers : WF_vars(CloseNotifySpace(k) \/ CloseNotifyItem(k))

FairSpec == Spec /\ Fairness

SpecNoClear == Init /\ [][NextNoClear]_vars
FairSpecNoClear == SpecNoClear /\ Fairness

-----------------------------------------------------------------------------
(* Safety                                                                  *)

\* The queue never outgrows maxsize_, whatever puts raced for the last free
\* slot while others were waking up on space_available (pushable()).
WithinCapacity == MaxSize # 0 => Len(queue) <= MaxSize

\* Items are numbered by the calls that put them, so none is accepted twice:
\* what the refinement below rests on.
ItemsFresh ==
    /\ \A p \in Producers : calls[p] <= MaxPuts /\ (pc[p] # "idle" => calls[p] >= 1)
    /\ \A p \in Producers, n \in 1 .. MaxPuts : <<p, n>> \in accepted => n <= calls[p]
    /\ \A p \in Producers :
           pc[p] \in {"lock", "wait_space", "woken"} => Current(p) \notin accepted

\* Threads that will yet wake a blocked put(), or are such a put() on its way.
Rousing == At("woken") \union {c \in Consumers : pc[c] = "notify"}
Closing == At("notify_space")

\* No put() is left asleep on space_available with room in the queue: every
\* free slot has a thread behind it that is about to notify or has just been
\* woken, or a close() is about to wake all the sleepers.  clear() is left
\* out: see BlockedPutEnds.
NoLostSpaceWakeup ==
    Closing = {} /\ At("wait_space") # {} =>
        /\ ~closed
        /\ MaxSize <= Len(queue) + Cardinality(Rousing)

\* The threads' interleavings implement the atomic channel: items leave in
\* the order they entered, none enters twice, none is lost but by
\* DISCARD_OLDEST or clear().
Channel == INSTANCE BoundedChannel WITH
    chan <- queue, entered <- accepted, Displaces <- (Disposition = "DISCARD_OLDEST")

ImplementsChannel == Channel!Spec

-----------------------------------------------------------------------------
(* Liveness                                                                *)

\* "Block the calling thread until space is available" (blockingqueue.h++:35):
\* as long as consumers keep calling get(), a blocked put() ends.
BlockedPutEnds == \A p \in Producers : pc[p] = "wait_space" ~> pc[p] = "idle"

\* close() releases every get() that waits, unless the queue is reopened
\* before the getter runs again.
CloseReleasesGet == \A c \in Consumers :
    (closed /\ pc[c] = "wait_item") ~> (pc[c] = "idle" \/ ~closed)

\* Nothing stays in the queue for ever while consumers call get(), even items
\* put without notification: the closewatch interval is the safety net.
ItemsLeave == \A i \in Item :
    i \in Range(queue) ~> i \notin Range(queue)
=============================================================================
