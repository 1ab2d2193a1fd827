-------------------------- MODULE MappingSignalProofs --------------------------
(***************************************************************************)
(* Theorems about MappingSignal, for all threads, slots, keys and values,  *)
(* with and without caching.                                               *)
(***************************************************************************)
EXTENDS MappingSignal, TLAPS

(* The inductive invariant *)

\* The mutex is held by one thread at a time.
MutexInv == \A t, u \in Threads : Holds(t) /\ Holds(u) => t = u

\* What a call can be part of: nothing, or a synchronize() that has keys of its map before it.
Outer(s) == \/ s = Idle
            \/ s.at = "synchronize" /\ s.todo \subseteq DOMAIN s.update

\* Only synchronize() makes a further call.
CallInv == \A t \in Threads :
    /\ Outer(frame[t].sync)
    /\ ~At(t, "tell") /\ ~At(t, "synchronize") => frame[t].sync = Idle
    /\ At(t, "synchronize") => frame[t].now = frame[t].sync

\* emit(): a slot that is still to be told is one change behind the cache, the others are
\* up to date.
TellInv(t) == Caching /\ At(t, "tell") =>
    LET e == frame[t].now
    IN  \A h \in slots :
            IF h \in e.todo THEN Told(e.action, view[h], e.key, e.value) = cached
            ELSE view[h] = cached

\* connect(): the new slot has all that is cached but for the keys still to be replayed.
ReplayInv(t) == At(t, "replay") =>
    LET r == frame[t].now
    IN  /\ r.todo \subseteq DOMAIN cached
        /\ Caching => /\ view[r.handle] = Restrict(cached, DOMAIN cached \ r.todo)
                      /\ \A h \in slots \ {r.handle} : view[h] = cached

\* clear_all_cached(): a slot has what it is still to be told of.
ClearInv(t) == Caching /\ At(t, "clear") =>
    \A h \in slots :
        view[h] = Restrict(cached, {k \in DOMAIN cached : <<k, h>> \in frame[t].now.todo})

ViewInv == ViewsFollowCache /\ \A t \in Threads : TellInv(t) /\ ReplayInv(t) /\ ClearInv(t)

\* f and g are the same at k.
Agree(f, g, k) ==
    /\ k \in DOMAIN f <=> k \in DOMAIN g
    /\ k \in DOMAIN f => f[k] = g[k]

\* synchronize(): where nobody else came in between, the cache is as the map says for the
\* keys of the map already seen to, and as it was for all others.
InstallInv(t) == Caching /\ frame[t].sync # Idle =>
    LET s == frame[t].sync
    IN  \A k \in Keys \ foreign[t] :
            IF k \in DOMAIN s.update \ s.todo
            THEN Agree(cached, s.update, k) /\ k \notin DOMAIN s.stale
            ELSE Agree(cached, s.stale, k)

SignalInv == TypeOK /\ MutexInv /\ CallInv /\ ViewInv /\ \A t \in Threads : InstallInv(t)

-----------------------------------------------------------------------------
(* Maps *)

\* A member of Map is a function from some keys to values, and the other way round.
LEMMA MapType ==
    /\ \A m \in Map : DOMAIN m \in SUBSET Keys /\ m \in [DOMAIN m -> Values]
    /\ \A D \in SUBSET Keys : \A m \in [D -> Values] : m \in Map
    /\ Empty \in Map /\ DOMAIN Empty = {}
  <1>1. \A m \in Map : DOMAIN m \in SUBSET Keys /\ m \in [DOMAIN m -> Values]
    BY DEF Map
  <1>2. \A D \in SUBSET Keys : \A m \in [D -> Values] : m \in Map
    BY DEF Map
  <1>3. Empty \in [{} -> Values] /\ DOMAIN Empty = {}
    BY DEF Empty
  <1> QED BY <1>1, <1>2, <1>3

\* Functions with the same arguments and values are the same map.
LEMMA MapEqual ==
    ASSUME NEW m \in Map, NEW n \in Map, DOMAIN m = DOMAIN n,
           \A k \in DOMAIN m : m[k] = n[k]
    PROVE  m = n
  <1>1. m \in [DOMAIN m -> Values] /\ n \in [DOMAIN m -> Values]
    BY MapType
  <1> QED BY <1>1

LEMMA RestrictMap ==
    ASSUME NEW m \in Map, NEW S \in SUBSET DOMAIN m
    PROVE  /\ Restrict(m, S) \in Map /\ DOMAIN Restrict(m, S) = S
           /\ \A k \in S : Restrict(m, S)[k] = m[k]
  <1>1. Restrict(m, S) \in [S -> Values]
    BY MapType DEF Restrict
  <1> QED BY <1>1, MapType DEF Restrict

LEMMA WithoutMap ==
    ASSUME NEW m \in Map, NEW k
    PROVE  /\ Without(m, k) \in Map /\ DOMAIN Without(m, k) = DOMAIN m \ {k}
           /\ \A j \in DOMAIN m \ {k} : Without(m, k)[j] = m[j]
  BY RestrictMap DEF Without

LEMMA WithMap ==
    ASSUME NEW m \in Map, NEW k \in Keys, NEW v \in Values
    PROVE  /\ With(m, k, v) \in Map /\ DOMAIN With(m, k, v) = DOMAIN m \union {k}
           /\ With(m, k, v)[k] = v
           /\ \A j \in DOMAIN m \ {k} : With(m, k, v)[j] = m[j]
  <1>1. DOMAIN m \in SUBSET Keys /\ m \in [DOMAIN m -> Values]
    BY MapType
  <1>2. With(m, k, v) \in [DOMAIN m \union {k} -> Values]
    BY <1>1 DEF With
  <1>3. With(m, k, v)[k] = v /\ \A j \in DOMAIN m \ {k} : With(m, k, v)[j] = m[j]
    BY <1>1 DEF With
  <1> QED BY <1>1, <1>2, <1>3, MapType

LEMMA ToldMap ==
    ASSUME NEW a \in Action, NEW m \in Map, NEW k \in Keys, NEW v \in Values
    PROVE  /\ Told(a, m, k, v) \in Map
           /\ \A j \in Keys \ {k} : Agree(Told(a, m, k, v), m, j)
           /\ a = "REMOVAL" => k \notin DOMAIN Told(a, m, k, v)
           /\ a # "REMOVAL" => k \in DOMAIN Told(a, m, k, v) /\ Told(a, m, k, v)[k] = v
  <1>1. CASE a = "REMOVAL"
    <2>1. Told(a, m, k, v) = Without(m, k)
      BY <1>1 DEF Told
    <2>2. \A j \in Keys \ {k} : Agree(Without(m, k), m, j)
      BY WithoutMap DEF Agree
    <2> QED BY <1>1, <2>1, <2>2, WithoutMap
  <1>2. CASE a # "REMOVAL"
    <2>1. Told(a, m, k, v) = With(m, k, v)
      BY <1>2 DEF Told
    <2> DEFINE w == With(m, k, v)
    <2>2. /\ w \in Map /\ DOMAIN w = DOMAIN m \union {k} /\ w[k] = v
          /\ \A j \in DOMAIN m \ {k} : w[j] = m[j]
      BY WithMap
    <2> HIDE DEF w
    <2>3. \A j \in Keys \ {k} : Agree(w, m, j)
      BY <2>2 DEF Agree
    <2>4. w = Told(a, m, k, v)
      BY <2>1 DEF w
    <2> QED BY <1>2, <2>2, <2>3, <2>4
  <1> QED BY <1>1, <1>2

-----------------------------------------------------------------------------
(* Frames *)

\* What each kind of frame is made of.
LEMMA FrameType ==
    ASSUME NEW f \in Frame
    PROVE  /\ f.at = "idle" => f = Idle
           /\ f.at = "emit" => f.action \in Action /\ f.key \in Keys /\ f.value \in Values
           /\ f.at = "tell" => /\ f.action \in Action /\ f.key \in Keys /\ f.value \in Values
                               /\ f.todo \in SUBSET Handles
                               /\ f = Telling(f.action, f.key, f.value, f.todo)
           /\ f.at = "replay" => f.handle \in Handles /\ f.todo \in SUBSET Keys
           /\ f.at = "clear" => f.todo \in SUBSET (Keys \X Handles)
           /\ f.at = "synchronize" => f.update \in Map /\ f.todo \in SUBSET Keys /\ f.stale \in Map
  <1>1. CASE f = Idle
    BY <1>1 DEF Idle
  <1>2. CASE \E a \in Action, x \in KeyValue : f = Emitting(a, x[1], x[2])
    BY <1>2 DEF Emitting, KeyValue
  <1>3. CASE \E a \in Action, x \in KeyValue, s \in SUBSET Handles : f = Telling(a, x[1], x[2], s)
    BY <1>3 DEF Telling, KeyValue
  <1>4. CASE \E h \in Handles, s \in SUBSET Keys : f = Replaying(h, s)
    BY <1>4 DEF Replaying
  <1>5. CASE \E s \in SUBSET (Keys \X Handles) : f = Clearing(s)
    BY <1>5 DEF Clearing
  <1>6. CASE \E m \in Map, s \in SUBSET Keys, r \in Map : f = Synchronizing(m, s, r)
    BY <1>6 DEF Synchronizing
  <1> QED BY <1>1, <1>2, <1>3, <1>4, <1>5, <1>6 DEF Frame

\* Every frame that a call makes is one.
LEMMA FrameMade ==
    /\ Idle \in Frame
    /\ \A a \in Action, k \in Keys, v \in Values : Emitting(a, k, v) \in Frame
    /\ \A a \in Action, k \in Keys, v \in Values, s \in SUBSET Handles :
           Telling(a, k, v, s) \in Frame
    /\ \A h \in Handles, s \in SUBSET Keys : Replaying(h, s) \in Frame
    /\ \A s \in SUBSET (Keys \X Handles) : Clearing(s) \in Frame
    /\ \A m \in Map, s \in SUBSET Keys, r \in Map : Synchronizing(m, s, r) \in Frame
  <1>1. \A k \in Keys, v \in Values :
            <<k, v>> \in KeyValue /\ <<k, v>>[1] = k /\ <<k, v>>[2] = v
    BY DEF KeyValue
  <1>2. \A a \in Action, k \in Keys, v \in Values : Emitting(a, k, v) \in Frame
    <2> TAKE a \in Action, k \in Keys, v \in Values
    <2> DEFINE x == <<k, v>>
    <2>1. x \in KeyValue /\ Emitting(a, k, v) = Emitting(a, x[1], x[2])
      BY <1>1
    <2> QED BY <2>1 DEF Frame
  <1>3. \A a \in Action, k \in Keys, v \in Values, s \in SUBSET Handles :
            Telling(a, k, v, s) \in Frame
    <2> TAKE a \in Action, k \in Keys, v \in Values, s \in SUBSET Handles
    <2> DEFINE x == <<k, v>>
    <2>1. x \in KeyValue /\ Telling(a, k, v, s) = Telling(a, x[1], x[2], s)
      BY <1>1
    <2> QED BY <2>1 DEF Frame
  <1>4. Idle \in Frame
    BY DEF Frame
  <1>5. \A h \in Handles, s \in SUBSET Keys : Replaying(h, s) \in Frame
    BY DEF Frame
  <1>6. \A s \in SUBSET (Keys \X Handles) : Clearing(s) \in Frame
    BY DEF Frame
  <1>7. \A m \in Map, s \in SUBSET Keys, r \in Map : Synchronizing(m, s, r) \in Frame
    BY DEF Frame
  <1> QED BY <1>2, <1>3, <1>4, <1>5, <1>6, <1>7

\* Thread t goes on with call `n`, in the synchronize() `s`.
GoesTo(t, n, s) ==
    /\ frame' \in [Threads -> [now : Frame, sync : Frame]]
    /\ frame'[t].now = n /\ frame'[t].sync = s
    /\ \A u \in Threads \ {t} : frame'[u] = frame[u]

LEMMA FrameStep ==
    ASSUME TypeOK, NEW t \in Threads, NEW n \in Frame, NEW s \in Frame,
           frame' = [frame EXCEPT ![t] = [now |-> n, sync |-> s]]
    PROVE  GoesTo(t, n, s)
  BY DEF TypeOK, GoesTo

LEMMA GotoStep ==
    ASSUME TypeOK, NEW t \in Threads, NEW n \in Frame, Goto(t, n)
    PROVE  GoesTo(t, n, frame[t].sync)
  BY DEF TypeOK, Goto, GoesTo

LEMMA OuterIdle == Outer(Idle)
  BY DEF Outer

\* The thread that moves keeps to the form of a call.
LEMMA CallStep ==
    ASSUME TypeOK, CallInv, NEW t \in Threads, NEW n \in Frame, NEW s \in Frame,
           GoesTo(t, n, s), Outer(s),
           n.at \notin {"tell", "synchronize"} => s = Idle,
           n.at = "synchronize" => n = s
    PROVE  CallInv'
  BY DEF CallInv, GoesTo, At

\* The mutex is taken by one at a time, if it is taken when nobody else has it.
LEMMA MutexStep ==
    ASSUME MutexInv, NEW t \in Threads, NEW n \in Frame, NEW s \in Frame, GoesTo(t, n, s),
           n.at \in {"tell", "replay", "clear"} => Unlocked \/ Holds(t)
    PROVE  MutexInv'
  BY DEF MutexInv, GoesTo, Holds, Unlocked

\* With the mutex, a thread is the only one that does what needs it.
LEMMA OthersIdle ==
    ASSUME MutexInv, NEW t \in Threads, NEW n, NEW s, GoesTo(t, n, s), Unlocked \/ Holds(t)
    PROVE  \A u \in Threads \ {t} :
               /\ ~At(u, "tell")' /\ ~At(u, "replay")' /\ ~At(u, "clear")'
               /\ TellInv(u)' /\ ReplayInv(u)' /\ ClearInv(u)'
  BY DEF MutexInv, GoesTo, Holds, Unlocked, At, TellInv, ReplayInv, ClearInv

\* Whoever is in synchronize() when another thread changes the cache leaves out the keys changed.
LEMMA ForeignStep ==
    ASSUME SignalInv, NEW t \in Threads, NEW n, NEW s, GoesTo(t, n, s),
           NEW keys, Change(t, keys),
           \A k \in Keys \ keys : Agree(cached', cached, k)
    PROVE  \A u \in Threads \ {t} : InstallInv(u)'
  <1> SUFFICES ASSUME NEW u \in Threads \ {t}, Caching, frame[u].sync # Idle,
                      NEW k \in Keys \ foreign'[u]
               PROVE  LET c == frame[u].sync
                      IN  IF k \in DOMAIN c.update \ c.todo
                          THEN Agree(cached', c.update, k) /\ k \notin DOMAIN c.stale
                          ELSE Agree(cached', c.stale, k)
    BY DEF GoesTo, InstallInv
  <1>1. foreign'[u] = foreign[u] \union keys
    BY DEF Change
  <1>2. k \in Keys \ foreign[u] /\ Agree(cached', cached, k)
    BY <1>1
  <1> QED BY <1>2 DEF SignalInv, InstallInv, Agree

\* ... and where nothing of the cache or of its own synchronize() changes, all stays as it is.
LEMMA InstallStep ==
    ASSUME SignalInv, NEW t \in Threads, NEW n, GoesTo(t, n, frame[t].sync),
           UNCHANGED <<cached, foreign>>
    PROVE  \A u \in Threads : InstallInv(u)'
  BY DEF SignalInv, GoesTo, InstallInv

-----------------------------------------------------------------------------
(* Steps *)

\* The mutex is taken, the cache is updated, and the slots are still to be told.
LEMMA EmitInv ==
    ASSUME SignalInv, NEW t \in Threads, NEW a \in Action, NEW k \in Keys, NEW v \in Values,
           NEW rest \in Frame, Outer(rest),
           Unlocked, cached' = Store(a, k, v), Change(t, {k}),
           GoesTo(t, IF slots = {} THEN rest ELSE Telling(a, k, v, slots), rest),
           UNCHANGED <<slots, view>>, calls' \in 0 .. MaxCalls
    PROVE  /\ TypeOK' /\ MutexInv' /\ CallInv' /\ ViewInv'
           /\ \A u \in Threads \ {t} : InstallInv(u)'
           /\ \A j \in Keys \ {k} : Agree(cached', cached, j)
  <1> DEFINE n == IF slots = {} THEN rest ELSE Telling(a, k, v, slots)
  <1>1. n \in Frame /\ n.at \in {"idle", "synchronize", "tell"}
    BY FrameMade DEF SignalInv, TypeOK, Idle, Telling, Outer
  <1>2. cached' \in Map /\ \A j \in Keys \ {k} : Agree(cached', cached, j)
    <2>1. cached \in Map
      BY DEF SignalInv, TypeOK
    <2>2. \A j \in Keys \ {k} : Agree(cached, cached, j)
      BY DEF Agree
    <2> QED BY <2>1, <2>2, ToldMap DEF Store
  <1>3. foreign' \in [Threads -> SUBSET Keys]
    BY DEF Change, SignalInv, TypeOK
  <1>4. TypeOK'
    BY <1>2, <1>3 DEF SignalInv, TypeOK, GoesTo
  <1>5. MutexInv'
    BY <1>1, MutexStep DEF SignalInv
  <1>6. CallInv'
    <2>1. n.at = "synchronize" => n = rest
      BY DEF Telling
    <2>2. n.at \notin {"tell", "synchronize"} => rest = Idle
      BY DEF Telling, Outer
    <2> QED BY <1>1, <2>1, <2>2, CallStep, OuterIdle DEF SignalInv
  <1>7. ViewInv'
    <2>1. \A u \in Threads \ {t} : TellInv(u)' /\ ReplayInv(u)' /\ ClearInv(u)'
      BY OthersIdle DEF SignalInv
    <2>2. ReplayInv(t)' /\ ClearInv(t)'
      BY <1>1 DEF GoesTo, ReplayInv, ClearInv, At
    <2>3. CASE slots = {}
      BY <2>1, <2>2, <2>3 DEF ViewInv, ViewsFollowCache, TellInv
    <2>4. CASE slots # {}
      <3>1. frame'[t].now = Telling(a, k, v, slots)
        BY <2>4 DEF GoesTo
      <3>2. ~Unlocked'
        BY <3>1 DEF Unlocked, Holds, Telling
      <3>3. TellInv(t)'
        BY <3>1 DEF TellInv, Telling, SignalInv, ViewInv, ViewsFollowCache, Store
      <3> QED BY <2>1, <2>2, <3>2, <3>3 DEF ViewInv, ViewsFollowCache
    <2> QED BY <2>3, <2>4
  <1>8. \A u \in Threads \ {t} : InstallInv(u)'
    BY <1>2, ForeignStep
  <1> QED BY <1>2, <1>4, <1>5, <1>6, <1>7, <1>8

\* ... outside a synchronize().
LEMMA EmitCallInv ==
    ASSUME SignalInv, NEW t \in Threads, NEW a \in Action, NEW k \in Keys, NEW v \in Values,
           frame[t].sync = Idle, Emit(t, a, k, v), calls' \in 0 .. MaxCalls
    PROVE  SignalInv'
  <1> DEFINE n == IF slots = {} THEN Idle ELSE Telling(a, k, v, slots)
  <1>1. n \in Frame /\ Idle \in Frame
    BY FrameMade DEF SignalInv, TypeOK
  <1>2. Goto(t, n)
    BY DEF Emit, Finish, Ended
  <1>3. GoesTo(t, n, Idle)
    BY <1>1, <1>2, GotoStep DEF SignalInv
  <1>4. /\ TypeOK' /\ MutexInv' /\ CallInv' /\ ViewInv'
        /\ \A u \in Threads \ {t} : InstallInv(u)'
    BY <1>1, <1>3, EmitInv, OuterIdle DEF Emit
  <1>5. InstallInv(t)'
    BY <1>3 DEF InstallInv, GoesTo
  <1> QED BY <1>4, <1>5 DEF SignalInv

\* A call begins in a thread that has none in progress.
LEMMA BeginStep ==
    ASSUME SignalInv, NEW t \in Threads, Begin(t)
    PROVE  frame[t].sync = Idle /\ calls' \in 0 .. MaxCalls
  <1>1. frame[t].now.at = "idle"
    BY DEF Begin, Idle
  <1>2. frame[t].sync = Idle
    BY <1>1 DEF SignalInv, CallInv, At
  <1>3. calls' \in 0 .. MaxCalls
    BY MappingSignalAssumption DEF Begin, SignalInv, TypeOK
  <1> QED BY <1>2, <1>3

LEMMA EmitsInv ==
    ASSUME SignalInv, NEW t \in Threads,
           EmitAction(t) \/ EmitTested(t) \/ ClearIfCached(t)
    PROVE  SignalInv'
  <1>1. CASE EmitAction(t)
    BY <1>1, BeginStep, EmitCallInv DEF EmitAction
  <1>2. CASE EmitTested(t)
    <2> DEFINE e == frame[t].now
    <2>1. e.action \in Action /\ e.key \in Keys /\ e.value \in Values
      BY <1>2, FrameType DEF EmitTested, At, SignalInv, TypeOK
    <2>2. frame[t].sync = Idle
      BY <1>2 DEF EmitTested, At, SignalInv, CallInv
    <2>3. calls' \in 0 .. MaxCalls
      BY <1>2 DEF EmitTested, SignalInv, TypeOK
    <2>4. Emit(t, e.action, e.key, e.value)
      BY <1>2 DEF EmitTested
    <2> QED BY <2>1, <2>2, <2>3, <2>4, EmitCallInv
  <1>3. CASE ClearIfCached(t)
    <2>1. PICK k \in DOMAIN cached : Begin(t) /\ Emit(t, "REMOVAL", k, cached[k])
      BY <1>3 DEF ClearIfCached
    <2>2. k \in Keys /\ cached[k] \in Values
      BY MapType DEF SignalInv, TypeOK
    <2>3. "REMOVAL" \in Action
      BY DEF Action
    <2> QED BY <2>1, <2>2, <2>3, BeginStep, EmitCallInv
  <1> QED BY <1>1, <1>2, <1>3

\* With nothing told and nothing cached, what the slots have been told stays right.
LEMMA NothingTold ==
    ASSUME SignalInv, NEW t \in Threads, NEW n \in Frame, GoesTo(t, n, frame[t].sync),
           Unlocked, n.at \notin {"tell", "replay", "clear"}, UNCHANGED <<cached, slots, view>>
    PROVE  ViewInv'
  <1>1. \A u \in Threads \ {t} : TellInv(u)' /\ ReplayInv(u)' /\ ClearInv(u)'
    BY OthersIdle DEF SignalInv
  <1>2. TellInv(t)' /\ ReplayInv(t)' /\ ClearInv(t)'
    BY DEF GoesTo, TellInv, ReplayInv, ClearInv, At
  <1>3. ViewsFollowCache'
    BY DEF SignalInv, ViewInv, ViewsFollowCache
  <1> QED BY <1>1, <1>2, <1>3 DEF ViewInv

LEMMA TestCachedInv ==
    ASSUME SignalInv, NEW t \in Threads, TestCached(t)
    PROVE  SignalInv'
  <1>1. PICK a \in Action, k \in Keys, v \in Values :
            Begin(t) /\ Unlocked /\ Goto(t, Emitting(a, k, v)) /\ UNCHANGED <<cached, slots, view, foreign>>
    BY DEF TestCached, Action
  <1> DEFINE n == Emitting(a, k, v)
  <1>2. n \in Frame /\ n.at = "emit" /\ frame[t].sync = Idle /\ Idle \in Frame
    BY <1>1, FrameMade, BeginStep DEF Emitting
  <1>3. GoesTo(t, n, frame[t].sync)
    BY <1>1, <1>2, GotoStep DEF SignalInv
  <1>4. TypeOK'
    BY <1>1, <1>3, BeginStep DEF GoesTo, SignalInv, TypeOK
  <1>5. MutexInv'
    BY <1>2, <1>3, MutexStep DEF SignalInv
  <1>6. CallInv'
    BY <1>2, <1>3, CallStep, OuterIdle DEF SignalInv
  <1>7. ViewInv'
    BY <1>1, <1>2, <1>3, NothingTold
  <1>8. \A u \in Threads : InstallInv(u)'
    BY <1>1, <1>3, InstallStep
  <1> QED BY <1>4, <1>5, <1>6, <1>7, <1>8 DEF SignalInv

\* Where no call goes on, fewer slots are no worse.
LEMMA FewerSlots ==
    ASSUME SignalInv, UNCHANGED <<cached, view, frame, foreign>>, slots' \subseteq slots,
           calls' \in 0 .. MaxCalls
    PROVE  SignalInv'
  <1>1. TypeOK'
    BY DEF SignalInv, TypeOK
  <1>2. MutexInv' /\ CallInv' /\ \A t \in Threads : InstallInv(t)'
    BY DEF SignalInv, MutexInv, Holds, CallInv, At, InstallInv
  <1>3. ViewsFollowCache'
    BY DEF SignalInv, ViewInv, ViewsFollowCache, Unlocked, Holds
  <1>4. \A t \in Threads : TellInv(t)' /\ ReplayInv(t)' /\ ClearInv(t)'
    BY DEF SignalInv, ViewInv, TellInv, ReplayInv, ClearInv, At
  <1> QED BY <1>1, <1>2, <1>3, <1>4 DEF SignalInv, ViewInv

LEMMA EmitIfChangedInv ==
    ASSUME SignalInv, NEW t \in Threads, EmitIfChanged(t)
    PROVE  SignalInv'
  <1>1. PICK k \in Keys, v \in Values :
            /\ Begin(t)
            /\ \/ Emit(t, IF k \in DOMAIN cached THEN "UPDATE" ELSE "ADDITION", k, v)
               \/ UNCHANGED <<cached, slots, view, frame, foreign>>
    BY DEF EmitIfChanged
  <1>2. CASE Emit(t, IF k \in DOMAIN cached THEN "UPDATE" ELSE "ADDITION", k, v)
    <2>1. (IF k \in DOMAIN cached THEN "UPDATE" ELSE "ADDITION") \in Action
      BY DEF Action
    <2> QED BY <1>1, <1>2, <2>1, BeginStep, EmitCallInv
  <1>3. CASE UNCHANGED <<cached, slots, view, frame, foreign>>
    <2>1. calls' \in 0 .. MaxCalls
      BY <1>1, BeginStep
    <2> QED BY <1>3, <2>1, FewerSlots
  <1> QED BY <1>1, <1>2, <1>3

LEMMA DisconnectInv ==
    ASSUME SignalInv, NEW t \in Threads, Disconnect(t)
    PROVE  SignalInv'
  BY BeginStep, FewerSlots DEF Disconnect

\* connect(): the slot begins with nothing, and all that is cached is to be replayed.
LEMMA ConnectInv ==
    ASSUME SignalInv, NEW t \in Threads, Connect(t)
    PROVE  SignalInv'
  <1>1. PICK h \in Handles :
            /\ Begin(t) /\ Unlocked
            /\ slots' = slots \union {h} /\ view' = [view EXCEPT ![h] = Empty]
            /\ Goto(t, Replaying(h, DOMAIN cached)) /\ UNCHANGED <<cached, foreign>>
    BY DEF Connect
  <1> DEFINE n == Replaying(h, DOMAIN cached)
  <1>2. /\ n \in Frame /\ n.at = "replay" /\ n.handle = h /\ n.todo = DOMAIN cached
        /\ frame[t].sync = Idle /\ Idle \in Frame
    BY <1>1, FrameMade, MapType, BeginStep DEF Replaying, SignalInv, TypeOK
  <1>3. GoesTo(t, n, frame[t].sync)
    BY <1>1, <1>2, GotoStep DEF SignalInv
  <1>4. view' \in [Handles -> Map] /\ view'[h] = Empty /\ \A g \in Handles \ {h} : view'[g] = view[g]
    BY <1>1, MapType DEF SignalInv, TypeOK
  <1>5. TypeOK'
    BY <1>1, <1>3, <1>4, BeginStep DEF GoesTo, SignalInv, TypeOK
  <1>6. MutexInv'
    BY <1>1, <1>3, <1>2, MutexStep DEF SignalInv
  <1>7. CallInv'
    BY <1>2, <1>3, CallStep, OuterIdle DEF SignalInv
  <1>8. ViewInv'
    <2>1. \A u \in Threads \ {t} : TellInv(u)' /\ ReplayInv(u)' /\ ClearInv(u)'
      BY <1>1, <1>3, OthersIdle DEF SignalInv
    <2>2. TellInv(t)' /\ ClearInv(t)' /\ ~Unlocked'
      BY <1>2, <1>3 DEF GoesTo, TellInv, ClearInv, At, Unlocked, Holds
    <2>3. ReplayInv(t)'
      <3>1. Restrict(cached, DOMAIN cached \ DOMAIN cached) = Empty
        BY DEF Restrict, Empty
      <3>2. Caching => \A g \in slots' \ {h} : view'[g] = cached
        BY <1>1, <1>4 DEF SignalInv, TypeOK, ViewInv, ViewsFollowCache
      <3>3. frame'[t].now = n
        BY <1>3 DEF GoesTo
      <3> QED BY <1>1, <1>2, <1>4, <3>1, <3>2, <3>3 DEF ReplayInv
    <2> QED BY <2>1, <2>2, <2>3 DEF ViewInv, ViewsFollowCache
  <1>9. \A u \in Threads : InstallInv(u)'
    BY <1>1, <1>3, InstallStep
  <1> QED BY <1>5, <1>6, <1>7, <1>8, <1>9 DEF SignalInv

\* clear_all_cached(): all slots are to be told of all keys.
LEMMA ClearAllInv ==
    ASSUME SignalInv, NEW t \in Threads, ClearAll(t)
    PROVE  SignalInv'
  <1> DEFINE todo == (DOMAIN cached) \X slots
             n == Clearing(todo)
  <1>1. /\ n \in Frame /\ n.at = "clear" /\ n.todo = todo
        /\ frame[t].sync = Idle /\ Idle \in Frame
    BY FrameMade, MapType, BeginStep DEF ClearAll, Clearing, SignalInv, TypeOK
  <1>2. GoesTo(t, n, frame[t].sync)
    BY <1>1, GotoStep DEF ClearAll, SignalInv
  <1>3. TypeOK'
    BY <1>2, BeginStep DEF ClearAll, GoesTo, SignalInv, TypeOK
  <1>4. MutexInv'
    BY <1>1, <1>2, MutexStep DEF ClearAll, SignalInv
  <1>5. CallInv'
    BY <1>1, <1>2, CallStep, OuterIdle DEF SignalInv
  <1>6. ViewInv'
    <2>1. \A u \in Threads \ {t} : TellInv(u)' /\ ReplayInv(u)' /\ ClearInv(u)'
      BY <1>2, OthersIdle DEF ClearAll, SignalInv
    <2>2. TellInv(t)' /\ ReplayInv(t)' /\ ~Unlocked'
      BY <1>1, <1>2 DEF GoesTo, TellInv, ReplayInv, At, Unlocked, Holds
    <2>3. ClearInv(t)'
      <3>1. SUFFICES ASSUME Caching, NEW h \in slots
                     PROVE  view[h] = Restrict(cached, {k \in DOMAIN cached : <<k, h>> \in todo})
        BY <1>1, <1>2 DEF ClearAll, ClearInv, GoesTo
      <3>2. view[h] = cached /\ cached \in Map
        BY <3>1 DEF ClearAll, SignalInv, TypeOK, ViewInv, ViewsFollowCache
      <3>3. {k \in DOMAIN cached : <<k, h>> \in todo} = DOMAIN cached
        BY <3>1
      <3> QED BY <3>2, <3>3, MapType DEF Restrict
    <2> QED BY <2>1, <2>2, <2>3 DEF ViewInv, ViewsFollowCache
  <1>7. \A u \in Threads : InstallInv(u)'
    BY <1>2, InstallStep DEF ClearAll
  <1> QED BY <1>3, <1>4, <1>5, <1>6, <1>7 DEF SignalInv

\* The next key is cleared in one slot.
LEMMA TellClearedInv ==
    ASSUME SignalInv, NEW t \in Threads, TellCleared(t)
    PROVE  SignalInv'
  <1> DEFINE c == frame[t].now
  <1>1. PICK x \in c.todo :
            /\ view' = [view EXCEPT ![x[2]] = Without(@, x[1])]
            /\ Goto(t, Clearing(c.todo \ {x}))
    BY DEF TellCleared
  <1> DEFINE n == Clearing(c.todo \ {x})
  <1>2. /\ c.at = "clear" /\ Holds(t) /\ UNCHANGED <<cached, slots, calls, foreign>>
        /\ frame[t].sync = Idle
    BY DEF TellCleared, At, Holds, SignalInv, CallInv
  <1>3. c.todo \in SUBSET (Keys \X Handles) /\ x = <<x[1], x[2]>> /\ x[1] \in Keys /\ x[2] \in Handles
    BY <1>2, FrameType DEF SignalInv, TypeOK
  <1>4. n \in Frame /\ Idle \in Frame /\ n.at = "clear" /\ n.todo = c.todo \ {x}
    BY <1>3, FrameMade DEF Clearing
  <1>5. GoesTo(t, n, frame[t].sync)
    BY <1>1, <1>4, GotoStep DEF SignalInv
  <1>6. /\ view' \in [Handles -> Map] /\ view'[x[2]] = Without(view[x[2]], x[1])
        /\ \A h \in Handles \ {x[2]} : view'[h] = view[h]
    BY <1>1, <1>3, WithoutMap DEF SignalInv, TypeOK
  <1>7. TypeOK'
    BY <1>2, <1>5, <1>6 DEF GoesTo, SignalInv, TypeOK
  <1>8. MutexInv'
    BY <1>2, <1>4, <1>5, MutexStep DEF SignalInv
  <1>9. CallInv'
    BY <1>2, <1>4, <1>5, CallStep, OuterIdle DEF SignalInv
  <1>10. ViewInv'
    <2>1. \A u \in Threads \ {t} : TellInv(u)' /\ ReplayInv(u)' /\ ClearInv(u)'
      BY <1>2, <1>5, OthersIdle DEF SignalInv
    <2>2. TellInv(t)' /\ ReplayInv(t)' /\ ~Unlocked'
      BY <1>4, <1>5 DEF GoesTo, TellInv, ReplayInv, At, Unlocked, Holds
    <2>3. ClearInv(t)'
      <3>1. SUFFICES ASSUME Caching, NEW h \in slots
                     PROVE  view'[h] = Restrict(cached, {k \in DOMAIN cached : <<k, h>> \in n.todo})
        BY <1>2, <1>5 DEF ClearInv, GoesTo
      <3> DEFINE S == {k \in DOMAIN cached : <<k, h>> \in c.todo}
                 T == {k \in DOMAIN cached : <<k, h>> \in n.todo}
      <3>2. view[h] = Restrict(cached, S) /\ h \in Handles
        BY <1>2, <3>1 DEF SignalInv, TypeOK, ViewInv, ClearInv, At
      <3>5. \A k : <<k, h>> = x <=> k = x[1] /\ h = x[2]
        <4>1. \A k, y, z : <<k, h>> = <<y, z>> <=> k = y /\ h = z
          OBVIOUS
        <4>2. \A k : <<k, h>> = <<x[1], x[2]>> <=> k = x[1] /\ h = x[2]
          BY <4>1
        <4>3. x = <<x[1], x[2]>>
          BY <1>3
        <4> HIDE DEF c
        <4> QED BY <4>2, <4>3, Zenon
      <3>6. \A k : <<k, h>> \in n.todo <=> <<k, h>> \in c.todo /\ ~(k = x[1] /\ h = x[2])
        BY <1>4, <3>5
      <3>3. CASE h = x[2]
        <4>1. T = S \ {x[1]} /\ T \subseteq S
          BY <3>6, <3>3
        <4>2. view'[h] = Restrict(Restrict(cached, S), S \ {x[1]})
          BY <1>6, <3>2, <3>3 DEF Without, Restrict
        <4> QED BY <4>1, <4>2 DEF Restrict
      <3>4. CASE h # x[2]
        <4>1. T = S
          BY <3>6, <3>4
        <4> QED BY <1>6, <3>2, <3>4, <4>1
      <3> QED BY <3>3, <3>4
    <2> QED BY <2>1, <2>2, <2>3 DEF ViewInv, ViewsFollowCache
  <1>11. \A u \in Threads : InstallInv(u)'
    BY <1>2, <1>5, InstallStep
  <1> QED BY <1>7, <1>8, <1>9, <1>10, <1>11 DEF SignalInv

\* The slots have been told of every key: now the cache is empty.
LEMMA ClearedInv ==
    ASSUME SignalInv, NEW t \in Threads, Cleared(t)
    PROVE  SignalInv'
  <1>1. /\ frame[t].now.at = "clear" /\ frame[t].now.todo = {} /\ Holds(t) /\ frame[t].sync = Idle
        /\ Idle \in Frame /\ Idle.at = "idle"
    BY FrameMade DEF Cleared, At, Holds, SignalInv, CallInv, Idle
  <1>2. GoesTo(t, Idle, Idle)
    BY <1>1, GotoStep DEF Cleared, Finish, Ended, SignalInv
  <1>3. cached' = Empty /\ UNCHANGED <<slots, view, calls>> /\ Change(t, DOMAIN cached)
    BY DEF Cleared
  <1>4. foreign' \in [Threads -> SUBSET Keys]
    BY <1>3, MapType DEF Change, SignalInv, TypeOK
  <1>5. TypeOK'
    BY <1>2, <1>3, <1>4, MapType DEF GoesTo, SignalInv, TypeOK
  <1>6. MutexInv'
    BY <1>1, <1>2, MutexStep DEF SignalInv
  <1>7. CallInv'
    BY <1>1, <1>2, CallStep, OuterIdle DEF SignalInv
  <1>8. ViewInv'
    <2>1. \A u \in Threads \ {t} : TellInv(u)' /\ ReplayInv(u)' /\ ClearInv(u)'
      BY <1>1, <1>2, OthersIdle DEF SignalInv
    <2>2. TellInv(t)' /\ ReplayInv(t)' /\ ClearInv(t)'
      BY <1>1, <1>2 DEF GoesTo, TellInv, ReplayInv, ClearInv, At
    <2>3. Caching => \A h \in slots : view[h] = Empty
      <3>1. Caching => \A h \in slots :
                view[h] = Restrict(cached, {k \in DOMAIN cached : <<k, h>> \in frame[t].now.todo})
        BY <1>1 DEF SignalInv, ViewInv, ClearInv, At
      <3>2. \A h \in slots : {k \in DOMAIN cached : <<k, h>> \in frame[t].now.todo} = {}
        BY <1>1
      <3>3. Restrict(cached, {}) = Empty
        BY DEF Restrict, Empty
      <3> QED BY <3>1, <3>2, <3>3
    <2> QED BY <1>3, <2>1, <2>2, <2>3 DEF ViewInv, ViewsFollowCache
  <1>9. \A u \in Threads : InstallInv(u)'
    <2>1. \A k \in Keys \ DOMAIN cached : Agree(cached', cached, k)
      BY <1>3, MapType DEF Agree
    <2>2. \A u \in Threads \ {t} : InstallInv(u)'
      BY <1>2, <1>3, <2>1, ForeignStep
    <2>3. InstallInv(t)'
      BY <1>2 DEF InstallInv, GoesTo
    <2> QED BY <2>2, <2>3
  <1> QED BY <1>5, <1>6, <1>7, <1>8, <1>9 DEF SignalInv

\* A call that has told everybody goes back to the synchronize() it is part of, if there is one.
LEMMA FinishStep ==
    ASSUME SignalInv, NEW t \in Threads, Holds(t), Finish(t)
    PROVE  /\ GoesTo(t, frame[t].sync, frame[t].sync) /\ MutexInv' /\ CallInv'
           /\ ~At(t, "tell")' /\ ~At(t, "replay")' /\ ~At(t, "clear")'
  <1> DEFINE s == frame[t].sync
  <1>1. s \in Frame /\ s.at \in {"idle", "synchronize"} /\ Outer(s)
    BY DEF SignalInv, TypeOK, CallInv, Idle, Outer
  <1>2. GoesTo(t, s, s)
    BY <1>1, GotoStep DEF SignalInv, Finish, Ended
  <1>3. MutexInv'
    BY <1>1, <1>2, MutexStep DEF SignalInv
  <1>4. CallInv'
    BY <1>1, <1>2, CallStep DEF SignalInv, Outer
  <1> QED BY <1>1, <1>2, <1>3, <1>4 DEF GoesTo, At

\* One slot is told.
LEMMA TellStepInv ==
    ASSUME SignalInv, NEW t \in Threads, Tell(t)
    PROVE  SignalInv'
  <1> DEFINE e == frame[t].now
  <1>1. PICK h \in e.todo :
            /\ view' = [view EXCEPT ![h] = Told(e.action, @, e.key, e.value)]
            /\ IF e.todo = {h} THEN Finish(t) ELSE Goto(t, [e EXCEPT !.todo = @ \ {h}])
    BY DEF Tell
  <1>2. e.at = "tell" /\ Holds(t) /\ UNCHANGED <<cached, slots, calls, foreign>>
    BY DEF Tell, At, Holds
  <1>3. /\ e.action \in Action /\ e.key \in Keys /\ e.value \in Values /\ e.todo \in SUBSET Handles
        /\ e = Telling(e.action, e.key, e.value, e.todo)
    BY <1>2, FrameType DEF SignalInv, TypeOK
  <1>4. /\ view' \in [Handles -> Map] /\ view'[h] = Told(e.action, view[h], e.key, e.value)
        /\ \A g \in Handles \ {h} : view'[g] = view[g]
    <2>1. view \in [Handles -> Map] /\ h \in Handles /\ view[h] \in Map
      BY <1>1, <1>3 DEF SignalInv, TypeOK
    <2>2. Told(e.action, view[h], e.key, e.value) \in Map
      BY <1>3, <2>1, ToldMap
    <2> QED BY <1>1, <2>1, <2>2
  <1>5. Caching => \A g \in slots :
            IF g \in e.todo THEN Told(e.action, view[g], e.key, e.value) = cached
            ELSE view[g] = cached
    BY <1>2 DEF SignalInv, ViewInv, TellInv, At
  <1>6. slots \subseteq Handles
    BY DEF SignalInv, TypeOK
  <1>7. Caching => \A g \in slots :
            IF g \in e.todo \ {h} THEN Told(e.action, view'[g], e.key, e.value) = cached
            ELSE view'[g] = cached
    <2> SUFFICES ASSUME Caching, NEW g \in slots
                 PROVE  IF g \in e.todo \ {h} THEN Told(e.action, view'[g], e.key, e.value) = cached
                        ELSE view'[g] = cached
      OBVIOUS
    <2>1. CASE g = h
      BY <1>1, <1>4, <1>5, <2>1
    <2>2. CASE g # h
      BY <1>4, <1>5, <1>6, <2>2
    <2> QED BY <2>1, <2>2
  <1>8. CASE e.todo = {h}
    <2>1. /\ GoesTo(t, frame[t].sync, frame[t].sync) /\ MutexInv' /\ CallInv'
          /\ ~At(t, "tell")' /\ ~At(t, "replay")' /\ ~At(t, "clear")'
      BY <1>1, <1>2, <1>8, FinishStep
    <2>2. TypeOK'
      BY <1>2, <1>4, <2>1 DEF GoesTo, SignalInv, TypeOK
    <2>3. \A u \in Threads \ {t} : TellInv(u)' /\ ReplayInv(u)' /\ ClearInv(u)'
      BY <1>2, <2>1, OthersIdle DEF SignalInv
    <2>4. TellInv(t)' /\ ReplayInv(t)' /\ ClearInv(t)'
      BY <2>1 DEF TellInv, ReplayInv, ClearInv, At
    <2>5. ViewsFollowCache'
      BY <1>2, <1>7, <1>8 DEF ViewsFollowCache
    <2>6. \A u \in Threads : InstallInv(u)'
      BY <1>2, <2>1, InstallStep
    <2> QED BY <2>1, <2>2, <2>3, <2>4, <2>5, <2>6 DEF SignalInv, ViewInv
  <1>9. CASE e.todo # {h}
    <2> DEFINE n == Telling(e.action, e.key, e.value, e.todo \ {h})
    <2>1. Goto(t, [e EXCEPT !.todo = @ \ {h}])
      BY <1>1, <1>9
    <2>2. [e EXCEPT !.todo = @ \ {h}] = n
      BY <1>3 DEF Telling
    <2>3. n \in Frame
      BY <1>3, FrameMade
    <2>4. /\ n.at = "tell" /\ n.action = e.action /\ n.key = e.key /\ n.value = e.value
          /\ n.todo = e.todo \ {h}
      BY DEF Telling
    <2> HIDE DEF n
    <2>5. GoesTo(t, n, frame[t].sync)
      BY <2>1, <2>2, <2>3, GotoStep DEF SignalInv
    <2>6. TypeOK'
      BY <1>2, <1>4, <2>5 DEF GoesTo, SignalInv, TypeOK
    <2>7. frame[t].sync \in Frame /\ Outer(frame[t].sync)
      BY DEF SignalInv, TypeOK, CallInv
    <2>8. MutexInv'
      BY <1>2, <2>3, <2>5, <2>7, MutexStep DEF SignalInv
    <2>9. CallInv'
      BY <2>3, <2>4, <2>5, <2>7, CallStep, OuterIdle DEF SignalInv
    <2>10. \A u \in Threads \ {t} : TellInv(u)' /\ ReplayInv(u)' /\ ClearInv(u)'
      BY <1>2, <2>5, OthersIdle DEF SignalInv
    <2>11. ReplayInv(t)' /\ ClearInv(t)' /\ ~Unlocked'
      BY <2>4, <2>5 DEF GoesTo, ReplayInv, ClearInv, At, Unlocked, Holds
    <2>12. TellInv(t)'
      BY <1>2, <1>7, <2>4, <2>5 DEF TellInv, GoesTo
    <2>13. \A u \in Threads : InstallInv(u)'
      BY <1>2, <2>5, InstallStep
    <2> QED
      BY <2>6, <2>8, <2>9, <2>10, <2>11, <2>12, <2>13 DEF SignalInv, ViewInv, ViewsFollowCache
  <1> QED BY <1>8, <1>9

\* One key is replayed to the slot that connects, or it has all.
LEMMA ReplayStepInv ==
    ASSUME SignalInv, NEW t \in Threads, Replay(t)
    PROVE  SignalInv'
  <1> DEFINE r == frame[t].now
  <1>1. r.at = "replay" /\ Holds(t) /\ UNCHANGED <<cached, slots, calls, foreign>>
    BY DEF Replay, At, Holds
  <1>2. /\ r.handle \in Handles /\ r.todo \in SUBSET Keys /\ r.todo \subseteq DOMAIN cached
        /\ frame[t].sync = Idle /\ Idle \in Frame
    BY <1>1, FrameType, FrameMade DEF SignalInv, TypeOK, CallInv, ViewInv, ReplayInv, At
  <1>3. Caching => /\ view[r.handle] = Restrict(cached, DOMAIN cached \ r.todo)
                   /\ \A h \in slots \ {r.handle} : view[h] = cached
    BY <1>1 DEF SignalInv, ViewInv, ReplayInv, At
  <1>4. cached \in Map /\ DOMAIN cached \subseteq Keys /\ \A k \in DOMAIN cached : cached[k] \in Values
    BY MapType DEF SignalInv, TypeOK
  <1>5. CASE r.todo = {} /\ Finish(t) /\ UNCHANGED view
    <2>1. /\ GoesTo(t, frame[t].sync, frame[t].sync) /\ MutexInv' /\ CallInv'
          /\ ~At(t, "tell")' /\ ~At(t, "replay")' /\ ~At(t, "clear")'
      BY <1>1, <1>5, FinishStep
    <2>2. TypeOK'
      BY <1>1, <1>5, <2>1 DEF GoesTo, SignalInv, TypeOK
    <2>3. \A u \in Threads \ {t} : TellInv(u)' /\ ReplayInv(u)' /\ ClearInv(u)'
      BY <1>1, <2>1, OthersIdle DEF SignalInv
    <2>4. TellInv(t)' /\ ReplayInv(t)' /\ ClearInv(t)'
      BY <2>1 DEF TellInv, ReplayInv, ClearInv, At
    <2>5. ViewsFollowCache'
      <3>1. Restrict(cached, DOMAIN cached \ {}) = cached
        BY <1>4, MapType DEF Restrict
      <3>2. Caching => view[r.handle] = cached
        BY <1>3, <1>5, <3>1
      <3> QED BY <1>1, <1>3, <1>5, <3>2 DEF ViewsFollowCache
    <2>6. \A u \in Threads : InstallInv(u)'
      BY <1>1, <2>1, InstallStep
    <2> QED BY <2>1, <2>2, <2>3, <2>4, <2>5, <2>6 DEF SignalInv, ViewInv
  <1>6. ASSUME NEW k \in r.todo, view' = [view EXCEPT ![r.handle] = With(@, k, cached[k])],
               Goto(t, Replaying(r.handle, r.todo \ {k}))
        PROVE  SignalInv'
    <2> DEFINE n == Replaying(r.handle, r.todo \ {k})
    <2>1. n \in Frame
      BY <1>2, FrameMade
    <2>2. n.at = "replay" /\ n.handle = r.handle /\ n.todo = r.todo \ {k}
      BY DEF Replaying
    <2> HIDE DEF n
    <2>3. GoesTo(t, n, frame[t].sync)
      BY <1>6, <2>1, GotoStep DEF SignalInv, n
    <2>4. /\ view' \in [Handles -> Map] /\ view'[r.handle] = With(view[r.handle], k, cached[k])
          /\ \A g \in Handles \ {r.handle} : view'[g] = view[g]
      BY <1>2, <1>4, <1>6, WithMap DEF SignalInv, TypeOK
    <2>5. TypeOK'
      BY <1>1, <2>3, <2>4 DEF GoesTo, SignalInv, TypeOK
    <2>6. MutexInv'
      BY <1>1, <1>2, <2>1, <2>3, MutexStep DEF SignalInv
    <2>7. CallInv'
      BY <1>2, <2>1, <2>2, <2>3, CallStep, OuterIdle DEF SignalInv
    <2>8. \A u \in Threads \ {t} : TellInv(u)' /\ ReplayInv(u)' /\ ClearInv(u)'
      BY <1>1, <2>3, OthersIdle DEF SignalInv
    <2>9. TellInv(t)' /\ ClearInv(t)' /\ ~Unlocked'
      BY <2>2, <2>3 DEF GoesTo, TellInv, ClearInv, At, Unlocked, Holds
    <2>10. ReplayInv(t)'
      <3> DEFINE S == DOMAIN cached \ r.todo
                 T == DOMAIN cached \ (r.todo \ {k})
      <3>1. T = S \union {k} /\ S \subseteq DOMAIN cached /\ T \subseteq DOMAIN cached
        BY <1>2
      <3>2. With(Restrict(cached, S), k, cached[k]) = Restrict(cached, T)
        BY <3>1 DEF With, Restrict
      <3>3. Caching => /\ view'[r.handle] = Restrict(cached, T)
                       /\ \A h \in slots \ {r.handle} : view'[h] = cached
        BY <1>3, <2>4, <3>2 DEF SignalInv, TypeOK
      <3>4. frame'[t].now = n
        BY <2>3 DEF GoesTo
      <3> HIDE DEF r
      <3> QED BY <1>1, <1>2, <2>2, <3>3, <3>4 DEF ReplayInv
    <2>11. \A u \in Threads : InstallInv(u)'
      BY <1>1, <2>3, InstallStep
    <2> QED
      BY <2>5, <2>6, <2>7, <2>8, <2>9, <2>10, <2>11 DEF SignalInv, ViewInv, ViewsFollowCache
  <1> QED BY <1>5, <1>6 DEF Replay

\* synchronize() begins with a copy of the cache.
LEMMA SynchronizeInv ==
    ASSUME SignalInv, NEW t \in Threads, Synchronize(t)
    PROVE  SignalInv'
  <1>1. PICK update \in Map :
            LET s == Synchronizing(update, DOMAIN update, cached)
            IN  frame' = [frame EXCEPT ![t] = [now |-> s, sync |-> s]]
    BY DEF Synchronize
  <1> DEFINE s == Synchronizing(update, DOMAIN update, cached)
  <1>2. /\ Begin(t) /\ Unlocked /\ foreign' = [foreign EXCEPT ![t] = {}]
        /\ UNCHANGED <<cached, slots, view>>
    BY DEF Synchronize
  <1>3. s \in Frame
    BY FrameMade, MapType DEF SignalInv, TypeOK
  <1>4. /\ s.at = "synchronize" /\ s.update = update /\ s.todo = DOMAIN update /\ s.stale = cached
        /\ Outer(s)
    BY DEF Synchronizing, Outer
  <1>5. GoesTo(t, s, s)
    BY <1>1, <1>3, FrameStep DEF SignalInv
  <1> HIDE DEF s
  <1>6. TypeOK'
    BY <1>2, <1>5, BeginStep DEF GoesTo, SignalInv, TypeOK
  <1>7. MutexInv'
    BY <1>3, <1>4, <1>5, MutexStep DEF SignalInv
  <1>8. CallInv'
    BY <1>3, <1>4, <1>5, CallStep, OuterIdle DEF SignalInv
  <1>9. ViewInv'
    <2>1. \A u \in Threads \ {t} : TellInv(u)' /\ ReplayInv(u)' /\ ClearInv(u)'
      BY <1>2, <1>5, OthersIdle DEF SignalInv
    <2>2. TellInv(t)' /\ ReplayInv(t)' /\ ClearInv(t)'
      BY <1>4, <1>5 DEF GoesTo, TellInv, ReplayInv, ClearInv, At
    <2>3. ViewsFollowCache'
      BY <1>2 DEF SignalInv, ViewInv, ViewsFollowCache
    <2> QED BY <2>1, <2>2, <2>3 DEF ViewInv
  <1>10. \A u \in Threads : InstallInv(u)'
    <2>1. \A u \in Threads \ {t} : InstallInv(u)'
      <3>1. \A u \in Threads \ {t} : foreign'[u] = foreign[u]
        BY <1>2 DEF SignalInv, TypeOK
      <3> QED BY <1>2, <1>5, <3>1 DEF SignalInv, InstallInv, GoesTo
    <2>2. InstallInv(t)'
      <3>1. frame'[t].sync = s
        BY <1>5 DEF GoesTo
      <3> QED BY <1>2, <1>4, <3>1 DEF InstallInv, Agree
    <2> QED BY <2>1, <2>2
  <1> QED BY <1>6, <1>7, <1>8, <1>9, <1>10 DEF SignalInv

\* What synchronize() can emit: the next of its differences.
Emits(t, a, k, v, rest) ==
    /\ Unlocked
    /\ cached' = Store(a, k, v)
    /\ Change(t, {k})
    /\ frame' = [frame EXCEPT ![t] =
           [now |-> IF slots = {} THEN rest ELSE Telling(a, k, v, slots), sync |-> rest]]

\* One difference is emitted; the synchronize() has it behind it.
LEMMA ProceedEmits ==
    ASSUME SignalInv, NEW t \in Threads, NEW a \in Action, NEW k \in Keys, NEW v \in Values,
           NEW update \in Map, NEW todo \in SUBSET Keys, NEW stale \in Map,
           todo \subseteq DOMAIN update,
           Emits(t, a, k, v, Synchronizing(update, todo, stale)),
           UNCHANGED <<slots, view, calls>>,
           Caching => \A j \in Keys \ foreign[t] :
               IF j \in DOMAIN update \ todo
               THEN Agree(Told(a, cached, k, v), update, j) /\ j \notin DOMAIN stale
               ELSE Agree(Told(a, cached, k, v), stale, j)
    PROVE  SignalInv'
  <1> DEFINE rest == Synchronizing(update, todo, stale)
             n == IF slots = {} THEN rest ELSE Telling(a, k, v, slots)
  <1>1. /\ rest \in Frame /\ rest.at = "synchronize"
        /\ rest.update = update /\ rest.todo = todo /\ rest.stale = stale /\ Outer(rest)
    BY FrameMade DEF Synchronizing, Outer
  <1>2. n \in Frame
    BY <1>1, FrameMade DEF SignalInv, TypeOK
  <1>3. GoesTo(t, n, rest)
    BY <1>1, <1>2, FrameStep DEF Emits, SignalInv
  <1>4. calls' \in 0 .. MaxCalls
    BY DEF SignalInv, TypeOK
  <1>5. /\ TypeOK' /\ MutexInv' /\ CallInv' /\ ViewInv'
        /\ \A u \in Threads \ {t} : InstallInv(u)'
    BY <1>1, <1>3, <1>4, EmitInv DEF Emits
  <1>6. InstallInv(t)'
    <2>1. frame'[t].sync = rest
      BY <1>3 DEF GoesTo
    <2>2. foreign'[t] = foreign[t]
      BY DEF Emits, Change
    <2>3. Caching => cached' = Told(a, cached, k, v)
      BY DEF Emits, Store
    <2> HIDE DEF rest
    <2> QED BY <1>1, <2>1, <2>2, <2>3 DEF InstallInv
  <1> QED BY <1>5, <1>6 DEF SignalInv

\* A step of synchronize() that emits nothing.
LEMMA ProceedSilent ==
    ASSUME SignalInv, NEW t \in Threads, NEW s \in Frame, Outer(s),
           At(t, "synchronize"), frame' = [frame EXCEPT ![t] = [now |-> s, sync |-> s]],
           UNCHANGED <<cached, slots, view, calls, foreign>>,
           InstallInv(t)'
    PROVE  SignalInv'
  <1>1. GoesTo(t, s, s)
    BY FrameStep DEF SignalInv
  <1>2. s.at \notin {"tell", "replay", "clear"}
    BY DEF Idle, Outer
  <1>3. TypeOK'
    BY <1>1 DEF GoesTo, SignalInv, TypeOK
  <1>4. MutexInv'
    BY <1>1, <1>2, MutexStep DEF SignalInv
  <1>7. CallInv'
    <2>1. s.at \notin {"tell", "synchronize"} => s = Idle
      BY DEF Outer
    <2> QED BY <1>1, <2>1, CallStep DEF SignalInv
  <1>5. ViewInv'
    <2>1. \A u \in Threads \ {t} : TellInv(u)' /\ ReplayInv(u)' /\ ClearInv(u)'
      <3> SUFFICES ASSUME NEW u \in Threads \ {t}
                   PROVE  TellInv(u)' /\ ReplayInv(u)' /\ ClearInv(u)'
        OBVIOUS
      <3>1. frame'[u] = frame[u] /\ TellInv(u) /\ ReplayInv(u) /\ ClearInv(u)
        BY <1>1 DEF SignalInv, ViewInv, GoesTo
      <3>2. TellInv(u)'
        BY <3>1 DEF TellInv, At
      <3>3. ReplayInv(u)'
        BY <3>1 DEF ReplayInv, At
      <3>4. ClearInv(u)'
        BY <3>1 DEF ClearInv, At
      <3> QED BY <3>2, <3>3, <3>4
    <2>2. TellInv(t)' /\ ReplayInv(t)' /\ ClearInv(t)'
      BY <1>1, <1>2 DEF GoesTo, TellInv, ReplayInv, ClearInv, At
    <2>3. Unlocked' => Unlocked
      BY <1>1 DEF GoesTo, Unlocked, Holds, At
    <2>4. ViewsFollowCache'
      BY <2>3 DEF SignalInv, ViewInv, ViewsFollowCache
    <2> QED BY <2>1, <2>2, <2>4 DEF ViewInv
  <1>6. \A u \in Threads : InstallInv(u)'
    BY <1>1 DEF SignalInv, GoesTo, InstallInv
  <1> QED BY <1>3, <1>4, <1>5, <1>6, <1>7 DEF SignalInv

\* Each difference takes the cache nearer to the map, in the keys that nobody else changes.
LEMMA ProceedInv ==
    ASSUME SignalInv, NEW t \in Threads, Proceed(t)
    PROVE  SignalInv'
  <1> DEFINE s == frame[t].now
  <1>1. /\ At(t, "synchronize") /\ s = frame[t].sync /\ s.at = "synchronize" /\ s \in Frame
        /\ s # Idle /\ UNCHANGED <<slots, view, calls>> /\ s.todo \subseteq DOMAIN s.update
    BY DEF Proceed, At, SignalInv, CallInv, TypeOK, Idle, Outer
  <1>2. s.update \in Map /\ s.todo \in SUBSET Keys /\ s.stale \in Map
    BY <1>1, FrameType
  <1>3. Caching => \A j \in Keys \ foreign[t] :
            IF j \in DOMAIN s.update \ s.todo
            THEN Agree(cached, s.update, j) /\ j \notin DOMAIN s.stale
            ELSE Agree(cached, s.stale, j)
    BY <1>1 DEF SignalInv, InstallInv
  <1>4. cached \in Map
    BY DEF SignalInv, TypeOK
  <1>5. ASSUME NEW k \in s.todo, NEW a \in {"ADDITION", "UPDATE"},
               Emits(t, a, k, s.update[k],
                     Synchronizing(s.update, s.todo \ {k}, Without(s.stale, k)))
        PROVE  SignalInv'
    <2> DEFINE v == s.update[k]
               now == Told(a, cached, k, v)
               stale == Without(s.stale, k)
    <2>1. k \in Keys /\ v \in Values /\ a \in Action /\ a # "REMOVAL" /\ k \in DOMAIN s.update
      BY <1>1, <1>2, <1>5, MapType DEF Action
    <2>2. /\ k \in DOMAIN now /\ now[k] = v
          /\ \A j \in Keys \ {k} : Agree(now, cached, j)
      BY <1>4, <1>5, <2>1, ToldMap
    <2>3. /\ stale \in Map /\ k \notin DOMAIN stale
          /\ \A j \in Keys \ {k} : Agree(stale, s.stale, j)
      BY <1>2, WithoutMap DEF Agree
    <2>4. Caching => \A j \in Keys \ foreign[t] :
              IF j \in DOMAIN s.update \ (s.todo \ {k})
              THEN Agree(now, s.update, j) /\ j \notin DOMAIN stale
              ELSE Agree(now, stale, j)
      <3> SUFFICES ASSUME Caching, NEW j \in Keys \ foreign[t]
                   PROVE  IF j \in DOMAIN s.update \ (s.todo \ {k})
                          THEN Agree(now, s.update, j) /\ j \notin DOMAIN stale
                          ELSE Agree(now, stale, j)
        OBVIOUS
      <3> HIDE DEF now, stale, s
      <3>1. CASE j = k
        BY <1>5, <2>1, <2>2, <2>3, <3>1 DEF Agree
      <3>2. CASE j # k
        BY <1>3, <2>2, <2>3, <3>2 DEF Agree
      <3> QED BY <3>1, <3>2
    <2> QED BY <1>1, <1>2, <1>5, <2>1, <2>3, <2>4, ProceedEmits
  <1>6. ASSUME NEW k \in s.todo, k \in DOMAIN s.stale,
               s.stale[k] = s.update[k],
               LET rest == Synchronizing(s.update, s.todo \ {k}, Without(s.stale, k))
               IN  frame' = [frame EXCEPT ![t] = [now |-> rest, sync |-> rest]],
               UNCHANGED <<cached, foreign>>
        PROVE  SignalInv'
    <2> DEFINE stale == Without(s.stale, k)
               rest == Synchronizing(s.update, s.todo \ {k}, stale)
    <2>1. /\ stale \in Map /\ k \notin DOMAIN stale
          /\ \A j \in Keys \ {k} : Agree(stale, s.stale, j)
      BY <1>2, WithoutMap DEF Agree
    <2>2. /\ rest \in Frame /\ rest.at = "synchronize" /\ rest.update = s.update
          /\ rest.todo = s.todo \ {k} /\ rest.stale = stale /\ Outer(rest)
      BY <1>1, <1>2, <2>1, FrameMade DEF Synchronizing, Outer
    <2>3. frame'[t].sync = rest
      BY <1>6, <2>2, FrameStep DEF SignalInv, GoesTo
    <2>4. InstallInv(t)'
      <3> SUFFICES ASSUME Caching, NEW j \in Keys \ foreign[t]
                   PROVE  IF j \in DOMAIN s.update \ (s.todo \ {k})
                          THEN Agree(cached, s.update, j) /\ j \notin DOMAIN stale
                          ELSE Agree(cached, stale, j)
        BY <1>6, <2>2, <2>3 DEF InstallInv
      <3> HIDE DEF stale, s
      <3>1. CASE j = k
        BY <1>1, <1>3, <1>6, <2>1, <3>1 DEF Agree
      <3>2. CASE j # k
        BY <1>3, <2>1, <3>2 DEF Agree
      <3> QED BY <3>1, <3>2
    <2> QED BY <1>1, <1>6, <2>2, <2>4, ProceedSilent
  <1>7. ASSUME NEW k \in DOMAIN s.stale, s.todo = {},
               Emits(t, "REMOVAL", k, s.stale[k],
                     Synchronizing(s.update, s.todo, Without(s.stale, k)))
        PROVE  SignalInv'
    <2> DEFINE v == s.stale[k]
               now == Told("REMOVAL", cached, k, v)
               stale == Without(s.stale, k)
    <2>1. k \in Keys /\ v \in Values /\ "REMOVAL" \in Action
      BY <1>2, MapType DEF Action
    <2>2. k \notin DOMAIN now /\ \A j \in Keys \ {k} : Agree(now, cached, j)
      BY <1>4, <2>1, ToldMap
    <2>3. /\ stale \in Map /\ k \notin DOMAIN stale
          /\ \A j \in Keys \ {k} : Agree(stale, s.stale, j)
      BY <1>2, WithoutMap DEF Agree
    <2>4. Caching => \A j \in Keys \ foreign[t] :
              IF j \in DOMAIN s.update \ s.todo
              THEN Agree(now, s.update, j) /\ j \notin DOMAIN stale
              ELSE Agree(now, stale, j)
      <3> SUFFICES ASSUME Caching, NEW j \in Keys \ foreign[t]
                   PROVE  IF j \in DOMAIN s.update \ s.todo
                          THEN Agree(now, s.update, j) /\ j \notin DOMAIN stale
                          ELSE Agree(now, stale, j)
        OBVIOUS
      <3> HIDE DEF now, stale, s
      <3>1. CASE j = k
        BY <1>3, <1>7, <2>2, <2>3, <3>1 DEF Agree
      <3>2. CASE j # k
        BY <1>3, <2>2, <2>3, <3>2 DEF Agree
      <3> QED BY <3>1, <3>2
    <2> QED BY <1>1, <1>2, <1>7, <2>1, <2>3, <2>4, ProceedEmits
  <1>8. ASSUME frame' = [frame EXCEPT ![t] = [now |-> Idle, sync |-> Idle]],
               UNCHANGED <<cached, foreign>>
        PROVE  SignalInv'
    <2>1. Idle \in Frame /\ Outer(Idle)
      BY FrameMade DEF Outer
    <2>2. InstallInv(t)'
      BY <1>8, <2>1, FrameStep DEF SignalInv, GoesTo, InstallInv
    <2> QED BY <1>1, <1>8, <2>1, <2>2, ProceedSilent
  <1> QED
    BY <1>1, <1>5, <1>6, <1>7, <1>8 DEF Proceed, Emits, Stale

LEMMA SignalInvStep == SignalInv /\ [Next]_vars => SignalInv'
  <1> SUFFICES ASSUME SignalInv, [Next]_vars PROVE SignalInv'
    OBVIOUS
  <1>1. ASSUME NEW t \in Threads, Call(t)
        PROVE  SignalInv'
    BY <1>1, EmitsInv, TestCachedInv, EmitIfChangedInv, ClearAllInv, ConnectInv, DisconnectInv,
       SynchronizeInv DEF Call
  <1>2. ASSUME NEW t \in Threads, Step(t)
        PROVE  SignalInv'
    BY <1>2, EmitsInv, TellStepInv, ReplayStepInv, TellClearedInv, ClearedInv, ProceedInv DEF Step
  <1>3. ASSUME UNCHANGED vars
        PROVE  SignalInv'
    <2>1. slots' \subseteq slots /\ calls' \in 0 .. MaxCalls
      BY <1>3 DEF vars, SignalInv, TypeOK
    <2> QED BY <1>3, <2>1, FewerSlots DEF vars
  <1> QED BY <1>1, <1>2, <1>3 DEF Next, Rest

LEMMA SignalInvInit == Init => SignalInv
  <1> SUFFICES ASSUME Init PROVE SignalInv
    OBVIOUS
  <1>1. TypeOK
    BY MapType, FrameMade, MappingSignalAssumption DEF Init, TypeOK
  <1>2. \A t \in Threads : frame[t].now = Idle /\ frame[t].sync = Idle /\ frame[t].now.at = "idle"
    BY DEF Init, Idle
  <1>3. MutexInv /\ CallInv
    BY <1>2, OuterIdle DEF MutexInv, Holds, CallInv, At
  <1>4. ViewInv
    BY <1>2 DEF Init, ViewInv, ViewsFollowCache, TellInv, ReplayInv, ClearInv, At
  <1>5. \A t \in Threads : InstallInv(t)
    BY <1>2 DEF InstallInv
  <1> QED BY <1>1, <1>3, <1>4, <1>5 DEF SignalInv

-----------------------------------------------------------------------------
(* Theorems *)

LEMMA SignalInvAlways == Spec => []SignalInv
  BY SignalInvInit, SignalInvStep, PTL DEF Spec

\* Cache, views and calls in progress are always of their types: no step tells a slot of a key
\* that is no longer cached, or emits a value that its map does not have.
THEOREM SignalTypes == Spec => []TypeOK
  BY SignalInvAlways, PTL DEF SignalInv

\* Whoever emits, connects and clears in whatever order: nobody in the mutex, and every connected
\* slot of a caching signal has been told exactly what is cached.
THEOREM Views == Spec => []ViewsFollowCache
  BY SignalInvAlways, PTL DEF SignalInv, ViewInv

\* A thread's call is its own.
LEMMA OwnCalls ==
    ASSUME TypeOK, NEW t \in Threads, NEW u \in Threads \ {t}, Call(u) \/ Step(u)
    PROVE  frame'[t] = frame[t]
  <1>1. ASSUME NEW n, Goto(u, n) PROVE frame'[t] = frame[t]
    BY <1>1 DEF Goto, TypeOK
  <1>2. ASSUME NEW a, NEW k, NEW v, Emit(u, a, k, v) PROVE frame'[t] = frame[t]
    BY <1>1, <1>2 DEF Emit, Finish
  <1>3. CASE EmitAction(u) \/ EmitTested(u) \/ ClearIfCached(u)
    BY <1>2, <1>3 DEF EmitAction, EmitTested, ClearIfCached
  <1>4. CASE TestCached(u) \/ ClearAll(u) \/ Connect(u)
    BY <1>1, <1>4 DEF TestCached, ClearAll, Connect
  <1>5. CASE EmitIfChanged(u) \/ Disconnect(u)
    BY <1>2, <1>5 DEF EmitIfChanged, Disconnect
  <1>6. CASE Synchronize(u) \/ Proceed(u)
    BY <1>6 DEF Synchronize, Proceed, TypeOK
  <1>7. CASE Tell(u) \/ Replay(u) \/ TellCleared(u) \/ Cleared(u)
    BY <1>1, <1>7 DEF Tell, Replay, TellCleared, Cleared, Finish
  <1> QED BY <1>3, <1>4, <1>5, <1>6, <1>7 DEF Call, Step

\* synchronize() returns when nothing is left of its map and of the copy.
LEMMA ReturnStep ==
    ASSUME SignalInv, Next, NEW t \in Threads, At(t, "synchronize"), frame'[t].now = Idle
    PROVE  frame[t].now.todo = {} /\ DOMAIN frame[t].now.stale = {}
  <1> DEFINE s == frame[t].now
  <1>1. s.at = "synchronize" /\ s # Idle
    BY DEF At, Idle
  <1>2. ASSUME NEW u \in Threads, Call(u) \/ Step(u) PROVE u = t
    BY <1>1, <1>2, OwnCalls DEF SignalInv
  <1>3. ~Rest
    BY <1>1 DEF Rest
  <1>4. Call(t) \/ Step(t)
    BY <1>2, <1>3 DEF Next
  <1>5. ~Call(t)
    BY <1>1
       DEF Call, EmitAction, TestCached, EmitIfChanged, ClearIfCached, ClearAll, Connect,
           Disconnect, Synchronize, Begin
  <1>6. Proceed(t)
    BY <1>1, <1>4, <1>5 DEF Step, EmitTested, Tell, Replay, TellCleared, Cleared, At
  <1>7. ASSUME NEW n, NEW r, frame' = [frame EXCEPT ![t] = [now |-> n, sync |-> r]]
        PROVE  n.at = "idle"
    BY <1>7 DEF SignalInv, TypeOK, Idle
  <1>8. \A a, k, v, m, todo, stale :
            /\ Synchronizing(m, todo, stale).at = "synchronize"
            /\ Telling(a, k, v, slots).at = "tell"
    BY DEF Synchronizing, Telling
  <1>9. ASSUME NEW a, NEW k, NEW v, NEW m, NEW todo, NEW stale,
               Emits(t, a, k, v, Synchronizing(m, todo, stale))
        PROVE  FALSE
    BY <1>7, <1>8, <1>9 DEF Emits
  <1>10. ASSUME NEW m, NEW todo, NEW stale,
                LET rest == Synchronizing(m, todo, stale)
                IN  frame' = [frame EXCEPT ![t] = [now |-> rest, sync |-> rest]]
         PROVE  FALSE
    BY <1>7, <1>8, <1>10
  <1> QED BY <1>6, <1>9, <1>10 DEF Proceed, Emits, Stale

\* When synchronize() returns, every key that no other thread has touched meanwhile is as in its
\* map.
THEOREM Installs == Spec => SynchronizeInstalls
  <1> DEFINE Kept(t) ==
                 LET s == frame[t].now
                 IN  Caching /\ At(t, "synchronize") /\ frame'[t].now = Idle =>
                         \A k \in Keys \ foreign[t] :
                             /\ k \in DOMAIN cached <=> k \in DOMAIN s.update
                             /\ k \in DOMAIN cached => cached[k] = s.update[k]
  <1>1. ASSUME SignalInv, Next, NEW t \in Threads PROVE Kept(t)
    <2> SUFFICES ASSUME Caching, At(t, "synchronize"), frame'[t].now = Idle,
                        NEW k \in Keys \ foreign[t]
                 PROVE  Agree(cached, frame[t].now.update, k)
      BY DEF Agree
    <2> DEFINE s == frame[t].now
    <2>1. s.todo = {} /\ DOMAIN s.stale = {}
      BY <1>1, ReturnStep
    <2>2. s = frame[t].sync /\ s # Idle
      BY <1>1 DEF SignalInv, CallInv, At, Idle
    <2>3. IF k \in DOMAIN s.update \ s.todo
          THEN Agree(cached, s.update, k) /\ k \notin DOMAIN s.stale
          ELSE Agree(cached, s.stale, k)
      BY <1>1, <2>2 DEF SignalInv, InstallInv
    <2> QED BY <2>1, <2>3 DEF Agree
  <1>2. SignalInv /\ [Next]_vars => [\A t \in Threads : Kept(t)]_vars
    BY <1>1
  <1> QED BY <1>2, SignalInvAlways, PTL DEF Spec, SynchronizeInstalls
=============================================================================
