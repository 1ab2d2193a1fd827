--------------------------- MODULE MappingSignal ---------------------------
(***************************************************************************)
(* core::signal::MappingSignal: a keyed value that threads emit and slots  *)
(* listen to, with the last value of every key cached and replayed to a    *)
(* slot that connects.  One recursive mutex guards cache and slots; it is  *)
(* held while the slots are called, one after the other.                   *)
(*                                                                         *)
(* Three operations take the mutex more than once.  emit(key, value) tests *)
(* whether the key is cached and emits afterwards; synchronize() compares  *)
(* with a copy of the cache and emits each difference by itself; and every *)
(* thread may come in between.                                             *)
(*                                                                         *)
(* Left out: slots that call the signal they listen to, slots that throw   *)
(* (safe_invoke() logs that and goes on), connect() without the replay.    *)
(***************************************************************************)
EXTENDS Naturals, FiniteSets, FiniteSetsExt, Functions, TLC

CONSTANTS
    Threads,    \* threads that call the signal
    Handles,    \* identities of slots
    Keys,
    Values,
    Caching,    \* the constructor's `caching`
    MaxCalls    \* bound: calls made

ASSUME MappingSignalAssumption ==
    /\ IsFiniteSet(Threads) /\ IsFiniteSet(Handles) /\ IsFiniteSet(Keys)
    /\ Caching \in BOOLEAN
    /\ MaxCalls \in Nat

VARIABLES
    cached,     \* cached_: the last value of some keys
    slots,      \* the connected handles
    view,       \* what each slot has been told since it connected
    frame,      \* each thread's call in progress
    calls,      \* calls made so far
    foreign     \* history: keys changed by others since a synchronize() began

vars == <<cached, slots, view, frame, calls, foreign>>

Map == UNION {[D -> Values] : D \in SUBSET Keys}
Empty == [k \in {} |-> k]
Action == {"ADDITION", "UPDATE", "REMOVAL"}

\* A function without one argument, and with one argument set.
Without(f, k) == Restrict(f, DOMAIN f \ {k})
With(f, k, v) == [j \in DOMAIN f \union {k} |-> IF j = k THEN v ELSE f[j]]

\* A call between two steps: waiting to emit, or holding the mutex while
\* `todo` are still to be told, or between two emissions of synchronize().
Idle == [at |-> "idle"]
Emitting(action, k, v) == [at |-> "emit", action |-> action, key |-> k, value |-> v]
Telling(action, k, v, todo) ==
    [at |-> "tell", action |-> action, key |-> k, value |-> v, todo |-> todo]
Replaying(h, todo) == [at |-> "replay", handle |-> h, todo |-> todo]
Clearing(todo) == [at |-> "clear", todo |-> todo]
Synchronizing(update, todo, stale) ==
    [at |-> "synchronize", update |-> update, todo |-> todo, stale |-> stale]

KeyValue == Keys \X Values
Frame ==
    {Idle}
    \union {Emitting(a, x[1], x[2]) : a \in Action, x \in KeyValue}
    \union {Telling(a, x[1], x[2], s) : a \in Action, x \in KeyValue, s \in SUBSET Handles}
    \union {Replaying(h, s) : h \in Handles, s \in SUBSET Keys}
    \union {Clearing(s) : s \in SUBSET (Keys \X Handles)}
    \union {Synchronizing(m, s, r) : m \in Map, s \in SUBSET Keys, r \in Map}

\* The call a thread is in and the synchronize() that this call is part of.
TypeOK ==
    /\ cached \in Map
    /\ slots \subseteq Handles
    /\ view \in [Handles -> Map]
    /\ frame \in [Threads -> [now : Frame, sync : Frame]]
    /\ calls \in 0 .. MaxCalls
    /\ foreign \in [Threads -> SUBSET Keys]

Init ==
    /\ cached = Empty
    /\ slots = {}
    /\ view = [h \in Handles |-> Empty]
    /\ frame = [t \in Threads |-> [now |-> Idle, sync |-> Idle]]
    /\ calls = 0
    /\ foreign = [t \in Threads |-> {}]

-----------------------------------------------------------------------------
At(t, point) == frame[t].now.at = point
Holds(t) == frame[t].now.at \in {"tell", "replay", "clear"}

\* The mutex can be taken.
Unlocked == \A t \in Threads : ~Holds(t)

Goto(t, call) == frame' = [frame EXCEPT ![t].now = call]

\* A call ends: back to the synchronize() that made it, or to the caller.
Ended(t) == frame[t].sync
Finish(t) == Goto(t, Ended(t))

\* The key has changed under the synchronize() of every other thread.
Change(t, keys) ==
    foreign' = [u \in Threads |-> IF u = t THEN foreign[u] ELSE foreign[u] \union keys]

Told(action, m, k, v) == IF action = "REMOVAL" THEN Without(m, k) ELSE With(m, k, v)

\* The cache after emit(action, key, value).
Store(action, k, v) == IF Caching THEN Told(action, cached, k, v) ELSE cached

\* With the mutex: the cache is updated, then the slots are told.
Emit(t, action, k, v) ==
    /\ Unlocked
    /\ cached' = Store(action, k, v)
    /\ Change(t, {k})
    /\ IF slots = {} THEN Finish(t) ELSE Goto(t, Telling(action, k, v, slots))
    /\ UNCHANGED <<slots, view>>

Begin(t) ==
    /\ frame[t].now = Idle
    /\ calls < MaxCalls
    /\ calls' = calls + 1

\* emit(action, key, value), and clear(key), which emits REMOVAL with a
\* default value, cached or not.
EmitAction(t) == \E action \in Action, k \in Keys, v \in Values :
    /\ Begin(t)
    /\ Emit(t, action, k, v)

\* emit(key, value): the action is decided first, with the mutex released.
TestCached(t) == \E k \in Keys, v \in Values :
    LET action == IF Caching /\ k \notin DOMAIN cached THEN "ADDITION" ELSE "UPDATE"
    IN  /\ Begin(t)
        /\ Unlocked
        /\ Goto(t, Emitting(action, k, v))
        /\ UNCHANGED <<cached, slots, view, foreign>>

EmitTested(t) ==
    /\ At(t, "emit")
    /\ LET e == frame[t].now IN Emit(t, e.action, e.key, e.value)
    /\ UNCHANGED calls

Holding(k, v) == IF k \in DOMAIN cached THEN cached[k] = v ELSE FALSE
\* emit_if_changed(key, value): without caching, nothing is ever emitted.
EmitIfChanged(t) == \E k \in Keys, v \in Values :
    /\ Begin(t)
    /\ Unlocked
    /\ \/ /\ Caching
          /\ ~Holding(k, v)
          /\ Emit(t, IF k \in DOMAIN cached THEN "UPDATE" ELSE "ADDITION", k, v)
       \/ /\ Caching => Holding(k, v)
          /\ UNCHANGED <<cached, slots, view, frame, foreign>>

\* clear_if_cached(key)
ClearIfCached(t) == \E k \in DOMAIN cached :
    /\ Begin(t)
    /\ Emit(t, "REMOVAL", k, cached[k])

\* clear_all_cached(): every slot is told of one key after the other, and the
\* cache is cleared after that.
ClearAll(t) ==
    /\ Begin(t)
    /\ Unlocked
    /\ Goto(t, Clearing((DOMAIN cached) \X slots))
    /\ UNCHANGED <<cached, slots, view, foreign>>

TellCleared(t) ==
    /\ At(t, "clear")
    /\ LET todo == frame[t].now.todo
           begun == {k \in DOMAIN cached : ~({k} \X slots \subseteq todo)}
       IN  \E x \in todo :
             /\ \A y \in todo : y[1] \in begun => x[1] = y[1]
             /\ view' = [view EXCEPT ![x[2]] = Without(@, x[1])]
             /\ Goto(t, Clearing(todo \ {x}))
    /\ UNCHANGED <<cached, slots, calls, foreign>>

\* Fault: the slots are told, the cache is kept.
ClearedKeepsCache(t) ==
    /\ At(t, "clear")
    /\ frame[t].now.todo = {}
    /\ Finish(t)
    /\ UNCHANGED <<cached, slots, view, calls, foreign>>

Cleared(t) ==
    /\ At(t, "clear")
    /\ frame[t].now.todo = {}
    /\ cached' = Empty
    /\ Change(t, DOMAIN cached)
    /\ Finish(t)
    /\ UNCHANGED <<slots, view, calls>>

-----------------------------------------------------------------------------
\* Slots are called in no particular order.
Tell(t) ==
    /\ At(t, "tell")
    /\ LET e == frame[t].now
       IN  \E h \in e.todo :
             /\ view' = [view EXCEPT ![h] = Told(e.action, @, e.key, e.value)]
             /\ IF e.todo = {h} THEN Finish(t)
                ELSE Goto(t, [e EXCEPT !.todo = @ \ {h}])
    /\ UNCHANGED <<cached, slots, calls, foreign>>

\* connect(handle, slot): a handle in use gets the new slot, which starts
\* with nothing.
Connect(t) == \E h \in Handles :
    /\ Begin(t)
    /\ Unlocked
    /\ slots' = slots \union {h}
    /\ view' = [view EXCEPT ![h] = Empty]
    /\ Goto(t, Replaying(h, DOMAIN cached))
    /\ UNCHANGED <<cached, foreign>>

\* emit_cached_to(): the cache is replayed as ADDITIONs.
Replay(t) ==
    /\ At(t, "replay")
    /\ LET r == frame[t].now
       IN  \/ /\ r.todo = {}
              /\ Finish(t)
              /\ UNCHANGED view
           \/ \E k \in r.todo :
              /\ view' = [view EXCEPT ![r.handle] = With(@, k, cached[k])]
              /\ Goto(t, Replaying(r.handle, r.todo \ {k}))
    /\ UNCHANGED <<cached, slots, calls, foreign>>

Disconnect(t) == \E h \in slots :
    /\ Begin(t)
    /\ Unlocked
    /\ slots' = slots \ {h}
    /\ UNCHANGED <<cached, view, frame, foreign>>

-----------------------------------------------------------------------------
\* synchronize(update): `stale` is what is left of the copy of the cache that
\* the call began with.
Synchronize(t) == \E update \in Map :
    /\ Begin(t)
    /\ Unlocked
    /\ LET s == Synchronizing(update, DOMAIN update, cached)
       IN  frame' = [frame EXCEPT ![t] = [now |-> s, sync |-> s]]
    /\ foreign' = [foreign EXCEPT ![t] = {}]
    /\ UNCHANGED <<cached, slots, view>>

\* Fault: what has gone from the update is not removed.
StaleKept(s) == {}
\* The keys to remove, once the update's own keys have been seen to.
Stale(s) == IF s.todo = {} THEN DOMAIN s.stale ELSE {}

\* The next difference is emitted, or there is none and the call ends.
Proceed(t) ==
    /\ At(t, "synchronize")
    /\ LET s == frame[t].now
           resume(rest) == [now |-> rest, sync |-> rest]
           emit(action, k, v, rest) ==
               /\ Unlocked
               /\ cached' = Store(action, k, v)
               /\ Change(t, {k})
               /\ frame' = [frame EXCEPT ![t] =
                      [now |-> IF slots = {} THEN rest ELSE Telling(action, k, v, slots),
                       sync |-> rest]]
       IN  \/ \E k \in s.todo :
                LET rest == Synchronizing(s.update, s.todo \ {k}, Without(s.stale, k))
                    v == s.update[k]
                IN  \/ k \notin DOMAIN s.stale /\ emit("ADDITION", k, v, rest)
                    \/ k \in DOMAIN s.stale /\ s.stale[k] # v /\ emit("UPDATE", k, v, rest)
                    \/ /\ k \in DOMAIN s.stale /\ s.stale[k] = v
                       /\ frame' = [frame EXCEPT ![t] = resume(rest)]
                       /\ UNCHANGED <<cached, foreign>>
           \/ \E k \in Stale(s) :
                emit("REMOVAL", k, s.stale[k],
                     Synchronizing(s.update, s.todo, Without(s.stale, k)))
           \/ /\ s.todo = {} /\ Stale(s) = {}
              /\ frame' = [frame EXCEPT ![t] = resume(Idle)]
              /\ UNCHANGED <<cached, foreign>>
    /\ UNCHANGED <<slots, view, calls>>

-----------------------------------------------------------------------------
Call(t) ==
    \/ EmitAction(t) \/ TestCached(t) \/ EmitIfChanged(t)
    \/ ClearIfCached(t) \/ ClearAll(t)
    \/ Connect(t) \/ Disconnect(t) \/ Synchronize(t)

Step(t) ==
    \/ EmitTested(t) \/ Tell(t) \/ Replay(t) \/ TellCleared(t) \/ Cleared(t) \/ Proceed(t)

\* All calls made and ended.
Rest ==
    /\ calls = MaxCalls
    /\ \A t \in Threads : frame[t].now = Idle
    /\ UNCHANGED vars

Next == (\E t \in Threads : Call(t) \/ Step(t)) \/ Rest

Spec == Init /\ [][Next]_vars

-----------------------------------------------------------------------------
(* Properties                                                              *)

\* The callers of a caching signal keep their slots' picture of the map equal
\* to the cache, whoever emits, connects or clears meanwhile: when nobody
\* holds the mutex, a connected slot has been told exactly what is cached
\* (emit(), connect(), clear_all_cached()).
ViewsFollowCache ==
    Caching /\ Unlocked => \A h \in slots : view[h] = cached

\* synchronize() installs its map: when it returns, every key that no other
\* thread has touched since it began is as in the map.
SynchronizeInstalls == [][\A t \in Threads :
    LET s == frame[t].now
    IN  Caching /\ At(t, "synchronize") /\ frame'[t].now = Idle =>
            \A k \in Keys \ foreign[t] :
                /\ k \in DOMAIN cached <=> k \in DOMAIN s.update
                /\ k \in DOMAIN cached => cached[k] = s.update[k]]_vars
=============================================================================
