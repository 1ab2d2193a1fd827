------------------------ MODULE BlockingQueueProofs ------------------------
(***************************************************************************)
(* For any number of threads, any capacity and any overflow disposition:   *)
(* the queue's state keeps its type, the queue never outgrows its          *)
(* capacity, and its interleavings implement the atomic BoundedChannel.    *)
(***************************************************************************)
EXTENDS BlockingQueue, FiniteSetTheorems, TLAPS

\* The inductive invariant: the capacity bound needs the type (a queue
\* without room is not empty, so that discarding its front makes room), the
\* refinement needs fresh items.
Inv == TypeOK /\ WithinCapacity /\ ItemsFresh

\* A full queue is not empty, and losing its front leaves a shorter sequence.
LEMMA FullQueue ==
    ASSUME TypeOK, ~HasRoom
    PROVE  /\ MaxSize \in Nat \ {0}
           /\ Len(queue) >= MaxSize
           /\ Tail(queue) \in Seq(Item)
           /\ Len(Tail(queue)) = Len(queue) - 1
  BY QueueAssumption DEF TypeOK, HasRoom

\* The item of a put() under way is one of Item.
LEMMA CurrentIsItem ==
    ASSUME TypeOK, ItemsFresh, NEW p \in Producers, pc[p] # "idle"
    PROVE  Current(p) \in Item
  BY QueueAssumption DEF TypeOK, ItemsFresh, Current, Item, Threads

LEMMA InitInv == Init => Inv
<1> SUFFICES ASSUME Init PROVE Inv
  OBVIOUS
<1>1. /\ queue \in Seq(Item) /\ Len(queue) = 0
  BY DEF Init
<1>2. pc \in [Threads -> ProducerPoints \union ConsumerPoints \union ControllerPoints]
  BY DEF Init, ProducerPoints
<1>3. /\ \A p \in Producers : pc[p] = "idle"
      /\ \A c \in Consumers : pc[c] = "idle"
      /\ \A k \in Controllers : pc[k] = "idle"
      /\ \A p \in Producers : calls[p] = 0
  BY DEF Init, Threads
<1>4. TypeOK
  BY <1>1, <1>2, <1>3 DEF Init, TypeOK, PointsOK, ProducerPoints, ConsumerPoints, ControllerPoints, NoArg
<1>5. WithinCapacity
  BY <1>1, QueueAssumption DEF WithinCapacity
<1>6. ItemsFresh
  BY <1>3, QueueAssumption DEF Init, ItemsFresh
<1> QED
  BY <1>4, <1>5, <1>6 DEF Inv

-----------------------------------------------------------------------------
(* The three ways in which program points change.                          *)

\* One thread goes on to a point of its own code.
LEMMA GotoPoints ==
    ASSUME PointsOK, NEW t \in Threads, NEW point, Goto(t, point),
           t \in Producers => point \in ProducerPoints,
           t \in Consumers => point \in ConsumerPoints,
           t \in Controllers => point \in ControllerPoints
    PROVE  /\ PointsOK'
           /\ pc'[t] = point
           /\ \A w \in Threads \ {t} : pc'[w] = pc[w]
  BY QueueAssumption DEF PointsOK, Goto, Threads

\* notify_one wakes a getter: no producer moves but the caller.
LEMMA NotifyItemPoints ==
    ASSUME PointsOK, NEW t \in Producers \union Controllers, NotifyOne("wait_item", "lock", t)
    PROVE  /\ PointsOK'
           /\ pc'[t] = "idle"
           /\ \A q \in Producers \ {t} : pc'[q] = pc[q]
<1>1. t \in Threads /\ t \notin Consumers
  BY QueueAssumption DEF Threads
<1>2. CASE At("wait_item") = {}
  <2>1. Goto(t, "idle")
    BY <1>2 DEF NotifyOne
  <2> QED
    BY <1>1, <2>1, GotoPoints DEF Threads, ProducerPoints, ControllerPoints
<1>3. CASE At("wait_item") # {}
  <2>1. PICK w \in At("wait_item") : pc' = [pc EXCEPT ![t] = "idle", ![w] = "lock"]
    BY <1>3 DEF NotifyOne
  <2>2. w \in Threads /\ pc[w] = "wait_item"
    BY DEF At
  <2>3. w \in Consumers /\ w \notin Producers /\ w \notin Controllers /\ w # t
    BY <1>1, <2>2, QueueAssumption
       DEF PointsOK, Threads, ProducerPoints, ControllerPoints
  <2> QED
    BY <1>1, <2>1, <2>2, <2>3, QueueAssumption
       DEF PointsOK, Threads, ProducerPoints, ConsumerPoints, ControllerPoints
<1> QED
  BY <1>2, <1>3

\* notify_one wakes a put(): no other producer moves.
LEMMA NotifySpacePoints ==
    ASSUME PointsOK, NEW t \in Consumers, NotifyOne("wait_space", "woken", t)
    PROVE  /\ PointsOK'
           /\ \A q \in Producers :
                 pc'[q] = pc[q] \/ (pc[q] = "wait_space" /\ pc'[q] = "woken")
<1>1. t \in Threads /\ t \notin Producers /\ t \notin Controllers
  BY QueueAssumption DEF Threads
<1>2. CASE At("wait_space") = {}
  <2>1. Goto(t, "idle")
    BY <1>2 DEF NotifyOne
  <2> QED
    BY <1>1, <2>1, GotoPoints DEF Threads, ConsumerPoints
<1>3. CASE At("wait_space") # {}
  <2>1. PICK w \in At("wait_space") : pc' = [pc EXCEPT ![t] = "idle", ![w] = "woken"]
    BY <1>3 DEF NotifyOne
  <2>2. w \in Threads /\ pc[w] = "wait_space"
    BY DEF At
  <2>3. w \in Producers /\ w \notin Consumers /\ w \notin Controllers /\ w # t
    BY <1>1, <2>2, QueueAssumption
       DEF PointsOK, Threads, ConsumerPoints, ControllerPoints
  <2> QED
    BY <1>1, <2>1, <2>2, <2>3, QueueAssumption
       DEF PointsOK, Threads, ProducerPoints, ConsumerPoints, ControllerPoints
<1> QED
  BY <1>2, <1>3

-----------------------------------------------------------------------------
(* The two ways in which items stay fresh.                                 *)

Pending == {"lock", "wait_space", "woken"}

\* Nothing is pushed, and nobody starts a put().
LEMMA FreshStays ==
    ASSUME TypeOK, ItemsFresh, accepted' = accepted,
           \A q \in Producers : calls'[q] = calls[q],
           \A q \in Producers : \/ pc'[q] = "idle"
                                \/ pc[q] # "idle" /\ (pc'[q] \in Pending => pc[q] \in Pending)
    PROVE  ItemsFresh'
  BY DEF ItemsFresh, Pending, Current

\* A put() under way pushes its item, and has no further use for it.
LEMMA FreshPush ==
    ASSUME TypeOK, ItemsFresh, NEW p \in Producers,
           pc[p] \in Pending, pc'[p] = "notify",
           \A q \in Producers \ {p} : pc'[q] = pc[q],
           accepted' = accepted \union {Current(p)}, calls' = calls
    PROVE  ItemsFresh'
<1>1. \A q \in Producers : calls[q] \in Nat
  BY DEF TypeOK, Threads
<1>2. \A q \in Producers \ {p} : Current(q) # Current(p)
  BY DEF Current
<1> QED
  BY <1>1, <1>2 DEF ItemsFresh, Pending, Current

-----------------------------------------------------------------------------
\* put(): the test before the lock.
LEMMA PutCheckInv == ASSUME Inv, NEW p \in Producers, PutCheck(p) PROVE Inv'
<1> USE DEF Inv
<1>1. PICK r \in BOOLEAN, n \in BOOLEAN : PutCheck(p)!(r, n)
  BY DEF PutCheck
<1>2. p \in Threads /\ calls[p] \in Nat
  BY DEF Threads, TypeOK
<1>3. /\ PointsOK'
      /\ \A t \in Threads \ {p} : pc'[t] = pc[t]
  <2>1. CASE r \/ ~closed
    BY <1>1, <1>2, <2>1, GotoPoints, QueueAssumption DEF TypeOK, ProducerPoints
  <2>2. CASE ~(r \/ ~closed)
    BY <1>1, <2>2 DEF TypeOK, PointsOK
  <2> QED
    BY <2>1, <2>2
<1>4. calls' = [calls EXCEPT ![p] = calls[p] + 1] /\ calls[p] < MaxPuts
  BY <1>1
<1>5. TypeOK'
  <2>1. arg' \in [Threads -> [reopen : BOOLEAN, notify : BOOLEAN, deadline : BOOLEAN]]
    BY <1>1, <1>2 DEF TypeOK, NoArg
  <2>3. calls' \in [Threads -> Nat]
    BY <1>2, <1>4 DEF TypeOK
  <2> QED
    BY <1>1, <1>3, <2>1, <2>3 DEF TypeOK
<1>6. WithinCapacity'
  BY <1>1 DEF WithinCapacity
<1>7. ItemsFresh'
  <2>1. \A q \in Producers : calls'[q] = IF q = p THEN calls[p] + 1 ELSE calls[q]
    BY <1>2, <1>4 DEF TypeOK, Threads
  <2>2. \A q \in Producers : calls[q] \in Nat
    BY DEF TypeOK, Threads
  <2>3. accepted' = accepted
    BY <1>1
  <2>4. <<p, calls[p] + 1>> \notin accepted
    BY <1>2, <1>4, QueueAssumption DEF ItemsFresh
  <2>5. \A q \in Producers \ {p} : pc'[q] = pc[q]
    BY <1>3 DEF Threads
  <2> QED
    BY <1>2, <1>4, <2>1, <2>2, <2>3, <2>4, <2>5, QueueAssumption DEF ItemsFresh, Current
<1> QED
  BY <1>5, <1>6, <1>7

\* What a put() under the lock may do with its item.
LEMMA PushInv ==
    ASSUME Inv, NEW p \in Producers, pc[p] \in Pending, NEW rest \in Seq(Item),
           MaxSize # 0 => Len(rest) < MaxSize,
           Push(p, rest), Goto(p, "notify"), closed' \in BOOLEAN,
           UNCHANGED <<shutdown, arg, calls>>
    PROVE  Inv'
<1> USE DEF Inv
<1>1. p \in Threads /\ pc[p] # "idle"
  BY DEF Threads, Pending
<1>2. Current(p) \in Item
  BY <1>1, CurrentIsItem
<1>3. PointsOK' /\ pc'[p] = "notify" /\ \A w \in Threads \ {p} : pc'[w] = pc[w]
  BY <1>1, GotoPoints, QueueAssumption DEF TypeOK, ProducerPoints
<1>4. queue' \in Seq(Item) /\ Len(queue') = Len(rest) + 1
  BY <1>2 DEF Push
<1>5. TypeOK'
  BY <1>2, <1>3, <1>4 DEF TypeOK, Push
<1>6. WithinCapacity'
  BY <1>4, QueueAssumption DEF WithinCapacity
<1>7. ItemsFresh'
  BY <1>3, FreshPush DEF Push, Threads
<1> QED
  BY <1>5, <1>6, <1>7

LEMMA NoPushInv ==
    ASSUME Inv, NEW p \in Producers, pc[p] \in Pending, NEW point \in {"notify", "wait_space"},
           NoPush, Goto(p, point), closed' \in BOOLEAN, UNCHANGED <<shutdown, arg, calls>>
    PROVE  Inv'
<1> USE DEF Inv
<1>1. p \in Threads
  BY DEF Threads
<1>2. PointsOK' /\ pc'[p] = point /\ \A w \in Threads \ {p} : pc'[w] = pc[w]
  BY <1>1, GotoPoints, QueueAssumption DEF TypeOK, ProducerPoints
<1>3. TypeOK'
  BY <1>2 DEF TypeOK, NoPush
<1>4. WithinCapacity'
  BY DEF WithinCapacity, NoPush
<1>5. ItemsFresh'
  <2>1. \A q \in Producers : \/ pc'[q] = "idle"
                             \/ pc[q] # "idle" /\ (pc'[q] \in Pending => pc[q] \in Pending)
    BY <1>2 DEF Pending, Threads
  <2> QED
    BY <2>1, FreshStays DEF NoPush
<1> QED
  BY <1>3, <1>4, <1>5

LEMMA PutLockedInv == ASSUME Inv, NEW p \in Producers, PutLocked(p) PROVE Inv'
<1>1. pc[p] \in Pending /\ closed' \in BOOLEAN /\ UNCHANGED <<shutdown, arg, calls>>
  BY DEF PutLocked, Pending
<1>2. CASE HasRoom /\ Push(p, queue) /\ Goto(p, "notify")
  BY <1>1, <1>2, PushInv DEF Inv, TypeOK, HasRoom
<1>3. CASE ~HasRoom /\ Push(p, Tail(queue)) /\ Goto(p, "notify")
  <2>1. Tail(queue) \in Seq(Item) /\ Len(Tail(queue)) = Len(queue) - 1
    BY <1>3, FullQueue DEF Inv
  <2>2. MaxSize # 0 => Len(Tail(queue)) < MaxSize
    BY <2>1, QueueAssumption DEF Inv, WithinCapacity, TypeOK
  <2> QED
    BY <1>1, <1>3, <2>1, <2>2, PushInv
<1>4. CASE NoPush /\ Goto(p, "notify")
  BY <1>1, <1>4, NoPushInv
<1>5. CASE NoPush /\ Goto(p, "wait_space")
  BY <1>1, <1>5, NoPushInv
<1> QED
  BY <1>2, <1>3, <1>4, <1>5 DEF PutLocked

LEMMA PutWokenInv == ASSUME Inv, NEW p \in Producers, PutWoken(p) PROVE Inv'
<1>1. pc[p] \in Pending /\ closed' \in BOOLEAN /\ UNCHANGED <<shutdown, arg, calls>>
  BY DEF PutWoken, Pending, Inv, TypeOK
<1>2. CASE NoPush /\ Goto(p, "notify")
  BY <1>1, <1>2, NoPushInv
<1>3. CASE HasRoom /\ Push(p, queue) /\ Goto(p, "notify")
  BY <1>1, <1>3, PushInv DEF Inv, TypeOK, HasRoom
<1>4. CASE NoPush /\ Goto(p, "wait_space")
  BY <1>1, <1>4, NoPushInv
<1> QED
  BY <1>2, <1>3, <1>4 DEF PutWoken

LEMMA PutReturnInv == ASSUME Inv, NEW p \in Producers, PutReturn(p) PROVE Inv'
<1> USE DEF Inv
<1>1. p \in Threads /\ pc[p] = "notify"
  BY DEF Threads, PutReturn
<1>2. /\ PointsOK'
      /\ pc'[p] = "idle"
      /\ \A q \in Producers \ {p} : pc'[q] = pc[q]
  <2>1. CASE arg[p].notify
    <3>1. NotifyOne("wait_item", "lock", p)
      BY <2>1 DEF PutReturn
    <3> QED
      BY <3>1, NotifyItemPoints DEF TypeOK
  <2>2. CASE ~arg[p].notify
    <3>1. Goto(p, "idle")
      BY <2>2 DEF PutReturn
    <3> QED
      BY <1>1, <3>1, GotoPoints, QueueAssumption DEF TypeOK, ProducerPoints, Threads
  <2> QED
    BY <2>1, <2>2
<1>3. TypeOK'
  <2>2. arg' \in [Threads -> [reopen : BOOLEAN, notify : BOOLEAN, deadline : BOOLEAN]]
    BY <1>1 DEF PutReturn, TypeOK, NoArg
  <2> QED
    BY <1>2, <2>2 DEF TypeOK, PutReturn
<1>4. WithinCapacity'
  BY DEF WithinCapacity, PutReturn
<1>5. ItemsFresh'
  <2>1. \A q \in Producers : \/ pc'[q] = "idle"
                             \/ pc[q] # "idle" /\ (pc'[q] \in Pending => pc[q] \in Pending)
    BY <1>2
  <2>2. accepted' = accepted /\ calls' = calls
    BY DEF PutReturn
  <2> QED
    BY <2>1, <2>2, FreshStays
<1> QED
  BY <1>3, <1>4, <1>5

LEMMA PutSpuriousInv == ASSUME Inv, NEW p \in Producers, PutSpurious(p) PROVE Inv'
<1> USE DEF Inv
<1>1. p \in Threads /\ pc[p] = "wait_space" /\ Goto(p, "woken")
  BY DEF Threads, PutSpurious
<1>2. PointsOK' /\ pc'[p] = "woken" /\ \A w \in Threads \ {p} : pc'[w] = pc[w]
  BY <1>1, GotoPoints, QueueAssumption DEF TypeOK, ProducerPoints
<1>3. TypeOK'
  BY <1>2 DEF TypeOK, PutSpurious
<1>4. WithinCapacity'
  BY DEF WithinCapacity, PutSpurious
<1>5. ItemsFresh'
  <2>1. \A q \in Producers : \/ pc'[q] = "idle"
                             \/ pc[q] # "idle" /\ (pc'[q] \in Pending => pc[q] \in Pending)
    BY <1>1, <1>2 DEF Pending, Threads
  <2>2. accepted' = accepted /\ calls' = calls
    BY DEF PutSpurious
  <2> QED
    BY <2>1, <2>2, FreshStays
<1> QED
  BY <1>3, <1>4, <1>5

-----------------------------------------------------------------------------
(* Steps of consumers, controllers and the program.                        *)

\* A step that pushes nothing, starts no put() and only ever shortens the
\* queue.
QueueShrinks ==
    \/ UNCHANGED queue
    \/ queue' = <<>>
    \/ queue # <<>> /\ queue' = Tail(queue)

PutsWait ==
    \A q \in Producers : pc'[q] = pc[q] \/ (pc[q] = "wait_space" /\ pc'[q] = "woken")

LEMMA QuietInv ==
    ASSUME Inv, QueueShrinks, PointsOK', PutsWait,
           closed' \in BOOLEAN, shutdown' \in BOOLEAN,
           arg' \in [Threads -> [reopen : BOOLEAN, notify : BOOLEAN, deadline : BOOLEAN]],
           calls' \in [Threads -> Nat],
           \A q \in Producers : calls'[q] = calls[q],
           UNCHANGED accepted
    PROVE  Inv'
<1> USE DEF Inv
<1>1. queue \in Seq(Item)
  BY DEF TypeOK
<1>2. queue' \in Seq(Item) /\ Len(queue') <= Len(queue)
  <2>1. CASE queue' = <<>>
    BY <1>1, <2>1
  <2>2. CASE UNCHANGED queue
    BY <1>1, <2>2
  <2>3. CASE queue # <<>> /\ queue' = Tail(queue)
    BY <1>1, <2>3
  <2> QED
    BY <2>1, <2>2, <2>3 DEF QueueShrinks
<1>3. TypeOK'
  BY <1>2 DEF TypeOK
<1>4. WithinCapacity'
  <2>1. Len(queue) \in Nat /\ Len(queue') \in Nat
    BY <1>1, <1>2
  <2> QED
    BY <1>2, <2>1, QueueAssumption DEF WithinCapacity
<1>5. ItemsFresh'
  <2>1. \A q \in Producers : \/ pc'[q] = "idle"
                             \/ pc[q] # "idle" /\ (pc'[q] \in Pending => pc[q] \in Pending)
    BY DEF PutsWait, Pending
  <2> QED
    BY <2>1, FreshStays
<1> QED
  BY <1>3, <1>4, <1>5

\* A consumer or a controller moves on by itself.
LEMMA GotoQuiet ==
    ASSUME PointsOK, NEW t \in Threads, t \notin Producers, NEW point, Goto(t, point),
           t \in Consumers => point \in ConsumerPoints,
           t \in Controllers => point \in ControllerPoints
    PROVE  PointsOK' /\ PutsWait
  BY GotoPoints DEF PutsWait, Threads

LEMMA GetInv == ASSUME Inv, NEW c \in Consumers, GetNext(c) PROVE Inv'
<1>1. c \in Threads /\ c \notin Producers /\ c \notin Controllers
  BY QueueAssumption DEF Threads
<1>2. PointsOK /\ TypeOK
  BY DEF Inv, TypeOK
<1> USE <1>1, <1>2
<1>3. CASE GetCall(c)
  <2>1. PICK d \in BOOLEAN : GetCall(c)!(d)
    BY <1>3 DEF GetCall
  <2>2. PointsOK' /\ PutsWait
    BY <2>1, GotoQuiet DEF ConsumerPoints
  <2>3. arg' \in [Threads -> [reopen : BOOLEAN, notify : BOOLEAN, deadline : BOOLEAN]]
    BY <2>1 DEF TypeOK, NoArg
  <2> QED
    BY <2>1, <2>2, <2>3, QuietInv DEF TypeOK, QueueShrinks
<1>4. CASE GetLocked(c)
  <2>1. QueueShrinks /\ PointsOK' /\ PutsWait
    <3>1. CASE MustWait(c)
      BY <1>4, <3>1, GotoQuiet DEF GetLocked, ConsumerPoints, QueueShrinks
    <3>2. CASE ~MustWait(c)
      <4>1. Take(c)
        BY <1>4, <3>2 DEF GetLocked
      <4> QED
        BY <4>1, GotoQuiet DEF Take, ConsumerPoints, QueueShrinks
    <3> QED
      BY <3>1, <3>2
  <2> QED
    BY <1>4, <2>1, QuietInv DEF GetLocked, TypeOK
<1>5. CASE GetTimeout(c)
  <2>1. PointsOK' /\ PutsWait
    BY <1>5, GotoQuiet DEF GetTimeout, ConsumerPoints
  <2> QED
    BY <1>5, <2>1, QuietInv DEF GetTimeout, TypeOK, QueueShrinks
<1>6. CASE GetExpired(c)
  <2>1. QueueShrinks /\ PointsOK' /\ PutsWait
    BY <1>6, GotoQuiet DEF GetExpired, Take, ConsumerPoints, QueueShrinks
  <2> QED
    BY <1>6, <2>1, QuietInv DEF GetExpired, TypeOK
<1>7. CASE GetReturn(c)
  <2>1. PointsOK' /\ PutsWait
    BY <1>7, NotifySpacePoints DEF GetReturn, PutsWait
  <2>2. arg' \in [Threads -> [reopen : BOOLEAN, notify : BOOLEAN, deadline : BOOLEAN]]
    BY <1>7 DEF GetReturn, TypeOK, NoArg
  <2> QED
    BY <1>7, <2>1, <2>2, QuietInv DEF GetReturn, TypeOK, QueueShrinks
<1> QED
  BY <1>3, <1>4, <1>5, <1>6, <1>7 DEF GetNext

LEMMA ControlInv ==
    ASSUME Inv, NEW k \in Controllers, CloseNext(k) \/ Reopen(k) \/ Clear(k) \/ Notify(k)
    PROVE  Inv'
<1>1. k \in Threads /\ k \notin Producers /\ k \notin Consumers
  BY QueueAssumption DEF Threads
<1>2. PointsOK /\ TypeOK
  BY DEF Inv, TypeOK
<1> USE <1>1, <1>2
<1>3. ASSUME calls' = [calls EXCEPT ![k] = @ + 1]
      PROVE  calls' \in [Threads -> Nat] /\ \A q \in Producers : calls'[q] = calls[q]
  BY <1>3 DEF TypeOK, Threads
<1>4. CASE Close(k)
  <2>1. PointsOK' /\ PutsWait
    BY <1>4, GotoQuiet DEF Close, ControllerPoints
  <2> QED
    BY <1>3, <1>4, <2>1, QuietInv DEF Close, Control, TypeOK, QueueShrinks
<1>5. CASE CloseNotifySpace(k)
  <2>1. PointsOK' /\ PutsWait
    BY <1>5 DEF CloseNotifySpace, NotifyAll, PointsOK, PutsWait, Threads,
       ProducerPoints, ConsumerPoints, ControllerPoints
  <2> QED
    BY <1>5, <2>1, QuietInv DEF CloseNotifySpace, TypeOK, QueueShrinks
<1>6. CASE CloseNotifyItem(k)
  <2>1. PointsOK' /\ PutsWait
    BY <1>6 DEF CloseNotifyItem, NotifyAll, PointsOK, PutsWait, Threads,
       ProducerPoints, ConsumerPoints, ControllerPoints
  <2> QED
    BY <1>6, <2>1, QuietInv DEF CloseNotifyItem, TypeOK, QueueShrinks
<1>7. CASE Reopen(k)
  <2>1. PointsOK' /\ PutsWait
    BY <1>7 DEF Reopen, PointsOK, PutsWait
  <2> QED
    BY <1>3, <1>7, <2>1, QuietInv DEF Reopen, Control, TypeOK, QueueShrinks
<1>8. CASE Clear(k)
  <2>1. PointsOK' /\ PutsWait
    BY <1>8 DEF Clear, PointsOK, PutsWait
  <2> QED
    BY <1>3, <1>8, <2>1, QuietInv DEF Clear, Control, TypeOK, QueueShrinks
<1>9. CASE Notify(k)
  <2>1. PointsOK' /\ PutsWait
    BY <1>9, NotifyItemPoints DEF Notify, PutsWait
  <2> QED
    BY <1>3, <1>9, <2>1, QuietInv DEF Notify, Control, TypeOK, QueueShrinks
<1> QED
  BY <1>4, <1>5, <1>6, <1>7, <1>8, <1>9 DEF CloseNext

LEMMA ShutdownInv == ASSUME Inv, Shutdown PROVE Inv'
<1>1. PointsOK' /\ PutsWait
  BY DEF Shutdown, Inv, TypeOK, PointsOK, PutsWait
<1> QED
  BY <1>1, QuietInv DEF Shutdown, Inv, TypeOK, QueueShrinks

LEMMA NextInv == Inv /\ [Next]_vars => Inv'
<1> SUFFICES ASSUME Inv, [Next]_vars PROVE Inv'
  OBVIOUS
<1>1. ASSUME NEW p \in Producers, PutNext(p) PROVE Inv'
  BY <1>1, PutCheckInv, PutLockedInv, PutWokenInv, PutReturnInv, PutSpuriousInv DEF PutNext
<1>2. ASSUME NEW c \in Consumers, GetNext(c) PROVE Inv'
  BY <1>2, GetInv
<1>3. ASSUME NEW k \in Controllers, CloseNext(k) \/ Reopen(k) \/ Clear(k) \/ Notify(k) PROVE Inv'
  BY <1>3, ControlInv
<1>4. CASE Shutdown
  BY <1>4, ShutdownInv
<1>5. CASE UNCHANGED vars
  BY <1>5 DEF vars, Inv, TypeOK, PointsOK, WithinCapacity, ItemsFresh, Current
<1> QED
  BY <1>1, <1>2, <1>3, <1>4, <1>5 DEF Next, NextNoClear

THEOREM Invariance == Spec => []Inv
<1> QED
  BY InitInv, NextInv, PTL DEF Spec

\* The state of the queue and of every thread's call keeps its type.
THEOREM TypeCorrect == Spec => []TypeOK
<1>1. Inv => TypeOK
  BY DEF Inv
<1> QED
  BY <1>1, Invariance, PTL

\* The queue never outgrows maxsize_, for any number of racing threads.
THEOREM Capacity == Spec => []WithinCapacity
<1>1. Inv => WithinCapacity
  BY DEF Inv
<1> QED
  BY <1>1, Invariance, PTL

-----------------------------------------------------------------------------
(* The threads implement the channel.                                      *)

LEMMA PushIsChannelStep ==
    ASSUME Inv, NEW p \in Producers, PutLocked(p) \/ PutWoken(p)
    PROVE  [Channel!Next]_<<queue, accepted>>
<1>1. pc[p] \in Pending /\ Current(p) \in Item /\ Current(p) \notin accepted
  BY CurrentIsItem DEF Inv, PutLocked, PutWoken, Pending, ItemsFresh
<1>2. CASE NoPush
  BY <1>2 DEF NoPush
<1>3. CASE HasRoom /\ Push(p, queue)
  <2>1. Channel!Accept(Current(p))
    BY <1>1, <1>3, QueueAssumption DEF Channel!Accept, Channel!Full, HasRoom, Push, Inv, TypeOK
  <2> QED
    BY <1>1, <2>1 DEF Channel!Next
<1>4. CASE ~HasRoom /\ Disposition = "DISCARD_OLDEST" /\ Push(p, Tail(queue))
  <2>1. Channel!Displace(Current(p))
    BY <1>1, <1>4, FullQueue DEF Channel!Displace, Channel!Full, Push, Inv
  <2> QED
    BY <1>1, <2>1 DEF Channel!Next
<1> QED
  BY <1>2, <1>3, <1>4 DEF PutLocked, PutWoken

\* Every step of the threads is one step of the channel, or none.
LEMMA NextIsChannelStep == Inv /\ [Next]_vars => [Channel!Next]_<<queue, accepted>>
<1> SUFFICES ASSUME Inv, [Next]_vars PROVE [Channel!Next]_<<queue, accepted>>
  OBVIOUS
<1>1. ASSUME UNCHANGED <<queue, accepted>> PROVE [Channel!Next]_<<queue, accepted>>
  BY <1>1
<1>2. ASSUME queue # <<>>, queue' = Tail(queue), UNCHANGED accepted
      PROVE  [Channel!Next]_<<queue, accepted>>
  BY <1>2 DEF Channel!Next, Channel!Deliver
<1>3. ASSUME NEW p \in Producers, PutNext(p) PROVE [Channel!Next]_<<queue, accepted>>
  BY <1>1, <1>3, PushIsChannelStep DEF PutNext, PutCheck, PutReturn, PutSpurious
<1>4. ASSUME NEW c \in Consumers, GetNext(c) PROVE [Channel!Next]_<<queue, accepted>>
  BY <1>1, <1>2, <1>4
     DEF GetNext, GetCall, GetLocked, GetTimeout, GetExpired, GetReturn, Take
<1>5. ASSUME NEW k \in Controllers, CloseNext(k) \/ Reopen(k) \/ Notify(k)
      PROVE  [Channel!Next]_<<queue, accepted>>
  BY <1>1, <1>5 DEF CloseNext, Close, CloseNotifySpace, CloseNotifyItem, Reopen, Notify
<1>6. ASSUME NEW k \in Controllers, Clear(k) PROVE [Channel!Next]_<<queue, accepted>>
  BY <1>6 DEF Clear, Channel!Next, Channel!Flush
<1>7. CASE Shutdown
  BY <1>1, <1>7 DEF Shutdown
<1>8. CASE UNCHANGED vars
  BY <1>1, <1>8 DEF vars
<1> QED
  BY <1>3, <1>4, <1>5, <1>6, <1>7, <1>8 DEF Next, NextNoClear

\* put() and get(), with all their interleavings, are an atomic bounded FIFO.
THEOREM Refinement == Spec => ImplementsChannel
<1>1. Init => Channel!Init
  BY DEF Init, Channel!Init
<1> QED
  BY <1>1, Invariance, NextIsChannelStep, PTL DEF Spec, ImplementsChannel, Channel!Spec

-----------------------------------------------------------------------------
(* No put() sleeps on although there is room.                              *)

Sleeping == At("wait_space")

\* The threads that rouse are finitely many, and can be counted.
LEMMA Countable ==
    ASSUME NEW S, S \subseteq Producers \union Consumers
    PROVE  IsFiniteSet(S) /\ Cardinality(S) \in Nat
<1>1. IsFiniteSet(Producers \union Consumers)
  BY QueueAssumption, FS_Union
<1>2. IsFiniteSet(S)
  BY <1>1, FS_Subset
<1> QED
  BY <1>2, FS_CardinalityType

LEMMA RousingThreads ==
    PointsOK => /\ Rousing \subseteq Producers \union Consumers
                /\ Sleeping \subseteq Producers
                /\ \A t \in Threads : /\ t \in Sleeping <=> pc[t] = "wait_space"
                                      /\ t \in Closing <=> pc[t] = "notify_space"
                                      /\ t \in Rousing <=> \/ pc[t] = "woken"
                                                           \/ t \in Consumers /\ pc[t] = "notify"
  BY DEF PointsOK, Rousing, Sleeping, Closing, At, Threads,
     ProducerPoints, ConsumerPoints, ControllerPoints

\* How the number of the rousing threads follows a step.
LEMMA MoreRouse ==
    ASSUME NEW R, NEW S, S \subseteq Producers \union Consumers, R \subseteq S
    PROVE  Cardinality(R) <= Cardinality(S)
  BY Countable, FS_Subset

LEMMA OneMoreRouses ==
    ASSUME NEW R, R \subseteq Producers \union Consumers, NEW t, t \notin R
    PROVE  Cardinality(R \union {t}) = Cardinality(R) + 1
  BY Countable, FS_AddElement

LEMMA OneLessRouses ==
    ASSUME NEW R, R \subseteq Producers \union Consumers, NEW t
    PROVE  Cardinality(R) <= Cardinality(R \ {t}) + 1
<1>1. Cardinality(R) \in Nat /\ IsFiniteSet(R)
  BY Countable
<1> QED
  BY <1>1, FS_RemoveElement

LEMMA AnotherRouses ==
    ASSUME NEW R, R \subseteq Producers \union Consumers,
           NEW t \in R, NEW w \in Producers, w \notin R
    PROVE  Cardinality((R \ {t}) \union {w}) = Cardinality(R)
<1>1. Cardinality(R) \in Nat /\ IsFiniteSet(R)
  BY Countable
<1>2. IsFiniteSet(R \ {t}) /\ Cardinality(R \ {t}) = Cardinality(R) - 1
  BY <1>1, FS_RemoveElement
<1>3. Cardinality((R \ {t}) \union {w}) = Cardinality(R \ {t}) + 1
  BY <1>2, FS_AddElement
<1> QED
  BY <1>1, <1>2, <1>3

\* A step keeps the sleepers covered when nobody falls asleep, the queue does
\* not close, and free slots and rousing threads grow together.
LEMMA Covered ==
    ASSUME NoLostSpaceWakeup, TypeOK, TypeOK',
           Closing \subseteq Closing', Sleeping' \subseteq Sleeping, closed' => closed,
           Len(queue) + Cardinality(Rousing) <= Len(queue') + Cardinality(Rousing')
    PROVE  NoLostSpaceWakeup'
<1>1. /\ Cardinality(Rousing) \in Nat /\ Len(queue) \in Nat
      /\ Cardinality(Rousing') \in Nat /\ Len(queue') \in Nat
  <2>1. Rousing \subseteq Producers \union Consumers
    BY RousingThreads DEF TypeOK
  <2>2. Rousing' \subseteq Producers \union Consumers
    BY DEF TypeOK, PointsOK, Rousing, At, Threads, ControllerPoints
  <2> QED
    BY <2>1, <2>2, Countable DEF TypeOK
<1> QED
  BY <1>1, QueueAssumption DEF NoLostSpaceWakeup, Sleeping

\* Points of the code where a thread neither sleeps on space_available nor is
\* about to wake those who do.
Apart(t, point) ==
    /\ point \notin {"wait_space", "woken", "notify_space"}
    /\ t \in Consumers => point # "notify"

LEMMA ApartStays ==
    ASSUME TypeOK, TypeOK',
           \A t \in Threads : pc'[t] = pc[t] \/ (Apart(t, pc[t]) /\ Apart(t, pc'[t]))
    PROVE  Closing' = Closing /\ Sleeping' = Sleeping /\ Rousing' = Rousing
  BY DEF Apart, Closing, Sleeping, Rousing, At, Threads

\* Steps between such points that leave the queue as it is.
LEMMA ApartCovered ==
    ASSUME NoLostSpaceWakeup, TypeOK, TypeOK', closed' => closed,
           Len(queue) <= Len(queue'),
           \A t \in Threads : pc'[t] = pc[t] \/ (Apart(t, pc[t]) /\ Apart(t, pc'[t]))
    PROVE  NoLostSpaceWakeup'
<1>1. Closing' = Closing /\ Sleeping' = Sleeping /\ Rousing' = Rousing
  BY ApartStays
<1>2. Cardinality(Rousing) \in Nat
  BY RousingThreads, Countable DEF TypeOK
<1>3. Len(queue) + Cardinality(Rousing) <= Len(queue') + Cardinality(Rousing')
  BY <1>1, <1>2 DEF TypeOK
<1> QED
  BY <1>1, <1>3, Covered

\* notify_one on item_available leaves those points apart.
LEMMA NotifyItemApart ==
    ASSUME PointsOK, NEW t \in Threads, Apart(t, pc[t]), NotifyOne("wait_item", "lock", t)
    PROVE  \A w \in Threads : pc'[w] = pc[w] \/ (Apart(w, pc[w]) /\ Apart(w, pc'[w]))
<1>1. CASE At("wait_item") = {}
  BY <1>1 DEF NotifyOne, Goto, PointsOK, Apart
<1>2. CASE At("wait_item") # {}
  <2>1. PICK w \in At("wait_item") : pc' = [pc EXCEPT ![t] = "idle", ![w] = "lock"]
    BY <1>2 DEF NotifyOne
  <2>2. w \in Threads /\ pc[w] = "wait_item"
    BY DEF At
  <2> QED
    BY <2>1, <2>2 DEF PointsOK, Apart
<1> QED
  BY <1>1, <1>2

LEMMA PutAwake ==
    ASSUME Inv, Inv', NoLostSpaceWakeup, NEW p \in Producers, PutNext(p)
    PROVE  NoLostSpaceWakeup'
<1>1. TypeOK /\ TypeOK' /\ PointsOK /\ p \in Threads /\ p \notin Consumers
  BY QueueAssumption DEF Inv, TypeOK, Threads
<1> USE <1>1
<1>2. CASE PutCheck(p)
  <2>1. \A t \in Threads : pc'[t] = pc[t] \/ (Apart(t, pc[t]) /\ Apart(t, pc'[t]))
    BY <1>2 DEF PutCheck, Goto, Apart, TypeOK, PointsOK
  <2> QED
    BY <1>2, <2>1, ApartCovered DEF PutCheck, TypeOK
<1>3. CASE PutLocked(p)
  <2>1. ASSUME Goto(p, "notify"), Len(queue) <= Len(queue') PROVE NoLostSpaceWakeup'
    <3>1. \A t \in Threads : pc'[t] = pc[t] \/ (Apart(t, pc[t]) /\ Apart(t, pc'[t]))
      BY <1>3, <2>1 DEF PutLocked, Goto, Apart, TypeOK, PointsOK
    <3> QED
      BY <1>3, <2>1, <3>1, ApartCovered DEF PutLocked
  <2>2. CASE HasRoom /\ Push(p, queue) /\ Goto(p, "notify")
    BY <2>1, <2>2 DEF Push, TypeOK
  <2>3. CASE ~HasRoom /\ Push(p, Tail(queue)) /\ Goto(p, "notify")
    BY <2>1, <2>3, FullQueue DEF Push, TypeOK
  <2>4. CASE NoPush /\ Goto(p, "notify")
    BY <2>1, <2>4 DEF NoPush, TypeOK
  <2>5. CASE ~HasRoom /\ NoPush /\ Goto(p, "wait_space")
    <3>1. MaxSize <= Len(queue') /\ closed' = FALSE
      BY <1>3, <2>5, FullQueue DEF NoPush, PutLocked
    <3>2. Rousing' \subseteq Producers \union Consumers
      BY DEF TypeOK, PointsOK, Rousing, At, Threads, ControllerPoints
    <3>3. Cardinality(Rousing') \in Nat /\ Len(queue') \in Nat
      BY <3>2, Countable DEF TypeOK
    <3> QED
      BY <3>1, <3>3, QueueAssumption DEF NoLostSpaceWakeup
  <2> QED
    BY <1>3, <2>2, <2>3, <2>4, <2>5 DEF PutLocked
<1>4. CASE PutWoken(p)
  <2>1. CASE closed /\ Goto(p, "notify")
    <3>1. Closing' = Closing /\ Sleeping' = Sleeping
      BY <1>4, <2>1 DEF PutWoken, Goto, Closing, Sleeping, At, TypeOK, PointsOK
    <3> QED
      BY <2>1, <3>1 DEF NoLostSpaceWakeup, Sleeping
  <2>2. CASE HasRoom /\ Push(p, queue) /\ Goto(p, "notify")
    <3>1. Closing' = Closing /\ Sleeping' = Sleeping /\ Rousing' = Rousing \ {p}
      BY <1>4, <2>2 DEF PutWoken, Goto, Closing, Sleeping, Rousing, At, TypeOK, PointsOK, Threads
    <3>2. Len(queue') = Len(queue) + 1 /\ Len(queue) \in Nat
      BY <2>2 DEF Push, TypeOK
    <3>3. Rousing \subseteq Producers \union Consumers
      BY RousingThreads
    <3>4. Cardinality(Rousing) \in Nat /\ Cardinality(Rousing \ {p}) \in Nat
      BY <3>3, Countable
    <3>5. Cardinality(Rousing) <= Cardinality(Rousing') + 1
      BY <3>1, <3>3, OneLessRouses
    <3>6. Len(queue) + Cardinality(Rousing) <= Len(queue') + Cardinality(Rousing')
      BY <3>1, <3>2, <3>4, <3>5
    <3> QED
      BY <1>4, <3>1, <3>6, Covered DEF PutWoken
  <2>3. CASE ~closed /\ ~HasRoom /\ NoPush
    <3>1. MaxSize <= Len(queue') /\ closed' = FALSE
      BY <1>4, <2>3, FullQueue DEF NoPush, PutWoken, TypeOK
    <3>2. Rousing' \subseteq Producers \union Consumers
      BY DEF TypeOK, PointsOK, Rousing, At, Threads, ControllerPoints
    <3>3. Cardinality(Rousing') \in Nat /\ Len(queue') \in Nat
      BY <3>2, Countable DEF TypeOK
    <3> QED
      BY <3>1, <3>3, QueueAssumption DEF NoLostSpaceWakeup
  <2> QED
    BY <1>4, <2>1, <2>2, <2>3 DEF PutWoken
<1>5. CASE PutReturn(p)
  <2>1. pc[p] = "notify" /\ Apart(p, pc[p])
    BY <1>5 DEF PutReturn, Apart
  <2>2. \A t \in Threads : pc'[t] = pc[t] \/ (Apart(t, pc[t]) /\ Apart(t, pc'[t]))
    <3>1. CASE arg[p].notify
      BY <1>5, <2>1, <3>1, NotifyItemApart DEF PutReturn
    <3>2. CASE ~arg[p].notify
      BY <1>5, <2>1, <3>2 DEF PutReturn, Goto, Apart, TypeOK, PointsOK
    <3> QED
      BY <3>1, <3>2
  <2> QED
    BY <1>5, <2>2, ApartCovered DEF PutReturn, TypeOK
<1>6. CASE PutSpurious(p)
  <2>1. Closing' = Closing /\ Sleeping' \subseteq Sleeping /\ Rousing \subseteq Rousing'
    BY <1>6 DEF PutSpurious, Goto, Closing, Sleeping, Rousing, At, TypeOK, PointsOK, Threads
  <2>2. Rousing' \subseteq Producers \union Consumers
    BY DEF TypeOK, PointsOK, Rousing, At, Threads, ControllerPoints
  <2>3. Cardinality(Rousing) <= Cardinality(Rousing')
    BY <2>1, <2>2, MoreRouse
  <2>4. Cardinality(Rousing) \in Nat /\ Cardinality(Rousing') \in Nat /\ Len(queue) \in Nat
    BY <2>2, RousingThreads, Countable DEF TypeOK
  <2>5. Len(queue) + Cardinality(Rousing) <= Len(queue') + Cardinality(Rousing')
    BY <1>6, <2>3, <2>4 DEF PutSpurious
  <2> QED
    BY <1>6, <2>1, <2>5, Covered DEF PutSpurious
<1> QED
  BY <1>2, <1>3, <1>4, <1>5, <1>6 DEF PutNext

LEMMA GetAwake ==
    ASSUME Inv, Inv', NoLostSpaceWakeup, NEW c \in Consumers, GetNext(c)
    PROVE  NoLostSpaceWakeup'
<1>1. TypeOK /\ TypeOK' /\ PointsOK /\ c \in Threads /\ c \notin Producers
  BY QueueAssumption DEF Inv, TypeOK, Threads
<1>2. /\ Rousing \subseteq Producers \union Consumers
      /\ Rousing' \subseteq Producers \union Consumers
      /\ Cardinality(Rousing) \in Nat /\ Cardinality(Rousing') \in Nat
  <2>1. Rousing' \subseteq Producers \union Consumers
    BY <1>1 DEF TypeOK, PointsOK, Rousing, At, Threads, ControllerPoints
  <2> QED
    BY <1>1, <2>1, RousingThreads, Countable
<1> USE <1>1, <1>2
<1>3. ASSUME Goto(c, "wait_item") \/ Goto(c, "lock") \/ Goto(c, "expired"), Apart(c, pc[c])
      PROVE  \A t \in Threads : pc'[t] = pc[t] \/ (Apart(t, pc[t]) /\ Apart(t, pc'[t]))
  BY <1>3 DEF Goto, Apart, TypeOK, PointsOK
<1>4. ASSUME Take(c), Apart(c, pc[c]), closed' = closed PROVE NoLostSpaceWakeup'
  <2>1. /\ Closing' = Closing /\ Sleeping' = Sleeping
        /\ c \notin Rousing /\ Rousing' = Rousing \union {c}
    BY <1>4 DEF Take, Goto, Apart, Closing, Sleeping, Rousing, At, TypeOK, PointsOK, Threads
  <2>2. Cardinality(Rousing') = Cardinality(Rousing) + 1
    BY <2>1, OneMoreRouses
  <2>3. Len(queue) \in Nat /\ Len(queue') \in Nat /\ Len(queue) <= Len(queue') + 1
    BY <1>4 DEF Take, TypeOK
  <2>4. Len(queue) + Cardinality(Rousing) <= Len(queue') + Cardinality(Rousing')
    BY <2>2, <2>3
  <2> QED
    BY <1>4, <2>1, <2>4, Covered
<1>5. CASE GetCall(c)
  <2>1. Apart(c, pc[c]) /\ Goto(c, "lock") /\ UNCHANGED <<queue, closed>>
    BY <1>5 DEF GetCall, Apart
  <2> QED
    BY <1>3, <2>1, ApartCovered DEF TypeOK
<1>6. CASE GetLocked(c)
  <2>1. Apart(c, pc[c]) /\ UNCHANGED closed
    BY <1>6 DEF GetLocked, Apart
  <2>2. CASE MustWait(c)
    BY <1>3, <1>6, <2>1, <2>2, ApartCovered DEF GetLocked, TypeOK
  <2>3. CASE ~MustWait(c)
    BY <1>4, <1>6, <2>1, <2>3 DEF GetLocked
  <2> QED
    BY <2>2, <2>3
<1>7. CASE GetTimeout(c)
  <2>1. /\ Apart(c, pc[c]) /\ (Goto(c, "lock") \/ Goto(c, "expired"))
        /\ UNCHANGED <<queue, closed>>
    BY <1>7 DEF GetTimeout, Apart
  <2> QED
    BY <1>3, <2>1, ApartCovered DEF TypeOK
<1>8. CASE GetExpired(c)
  BY <1>4, <1>8 DEF GetExpired, Apart
<1>9. CASE GetReturn(c)
  <2>1. pc[c] = "notify" /\ c \in Rousing /\ NotifyOne("wait_space", "woken", c)
    BY <1>9, RousingThreads DEF GetReturn
  <2>2. CASE Sleeping = {}
    <3>1. Sleeping' = {}
      BY <2>1, <2>2 DEF NotifyOne, Goto, Sleeping, At, TypeOK, PointsOK
    <3> QED
      BY <3>1 DEF NoLostSpaceWakeup, Sleeping
  <2>3. CASE Sleeping # {}
    <3>1. PICK w \in Sleeping : pc' = [pc EXCEPT ![c] = "idle", ![w] = "woken"]
      BY <2>1, <2>3 DEF NotifyOne, Sleeping
    <3>2. w \in Producers /\ w \in Threads /\ pc[w] = "wait_space" /\ w \notin Rousing
      BY QueueAssumption, RousingThreads DEF Threads
    <3>3. /\ Closing' = Closing /\ Sleeping' \subseteq Sleeping
          /\ Rousing' = (Rousing \ {c}) \union {w}
      BY <2>1, <3>1, <3>2 DEF Closing, Sleeping, Rousing, At, TypeOK, PointsOK, Threads
    <3>4. Cardinality(Rousing') = Cardinality(Rousing)
      BY <2>1, <3>2, <3>3, AnotherRouses
    <3>5. Len(queue') = Len(queue) /\ Len(queue) \in Nat /\ UNCHANGED closed
      BY <1>9 DEF GetReturn, TypeOK
    <3> QED
      BY <3>3, <3>4, <3>5, Covered
  <2> QED
    BY <2>2, <2>3
<1> QED
  BY <1>5, <1>6, <1>7, <1>8, <1>9 DEF GetNext

LEMMA ControlAwake ==
    ASSUME Inv, Inv', NoLostSpaceWakeup, NEW k \in Controllers,
           CloseNext(k) \/ Reopen(k) \/ Notify(k)
    PROVE  NoLostSpaceWakeup'
<1>1. TypeOK /\ TypeOK' /\ PointsOK /\ k \in Threads /\ k \notin Consumers
  BY QueueAssumption DEF Inv, TypeOK, Threads
<1> USE <1>1
<1>2. CASE Close(k)
  <2>1. k \in Closing'
    BY <1>2 DEF Close, Goto, Closing, At, TypeOK, PointsOK
  <2> QED
    BY <2>1 DEF NoLostSpaceWakeup
<1>3. CASE CloseNotifySpace(k)
  <2>1. Sleeping' = {}
    BY <1>3 DEF CloseNotifySpace, NotifyAll, Sleeping, At
  <2> QED
    BY <2>1 DEF NoLostSpaceWakeup, Sleeping
<1>4. CASE CloseNotifyItem(k)
  <2>1. ASSUME NEW t \in Threads
        PROVE  pc'[t] = pc[t] \/ (Apart(t, pc[t]) /\ Apart(t, pc'[t]))
    <3>1. /\ pc[k] = "notify_item"
          /\ pc'[t] = IF t = k THEN "idle" ELSE IF pc[t] = "wait_item" THEN "lock" ELSE pc[t]
      BY <1>4 DEF CloseNotifyItem, NotifyAll
    <3> QED
      BY <3>1 DEF Apart
  <2> QED
    BY <1>4, <2>1, ApartCovered DEF CloseNotifyItem, TypeOK
<1>5. CASE Reopen(k)
  BY <1>5, ApartCovered DEF Reopen, TypeOK
<1>6. CASE Notify(k)
  <2>1. Apart(k, pc[k]) /\ NotifyOne("wait_item", "lock", k) /\ UNCHANGED <<queue, closed>>
    BY <1>6 DEF Notify, Control, Apart
  <2> QED
    BY <2>1, NotifyItemApart, ApartCovered DEF TypeOK
<1> QED
  BY <1>2, <1>3, <1>4, <1>5, <1>6 DEF CloseNext

LEMMA NextAwake ==
    Inv /\ NoLostSpaceWakeup /\ [NextNoClear]_vars => Inv' /\ NoLostSpaceWakeup'
<1> SUFFICES ASSUME Inv, NoLostSpaceWakeup, [NextNoClear]_vars
             PROVE  Inv' /\ NoLostSpaceWakeup'
  OBVIOUS
<1>1. Inv'
  BY NextInv DEF Next
<1>2. CASE Shutdown
  BY <1>1, <1>2, ApartCovered DEF Shutdown, Inv, TypeOK
<1>3. CASE UNCHANGED vars
  BY <1>1, <1>3, ApartCovered DEF vars, Inv, TypeOK
<1> QED
  BY <1>1, <1>2, <1>3, PutAwake, GetAwake, ControlAwake DEF NextNoClear

\* A put() never sleeps on space_available while there is room that nobody is
\* about to tell it of, for any number of producers and consumers, any
\* capacity and any disposition, as long as nobody calls clear().
THEOREM Awake == SpecNoClear => []NoLostSpaceWakeup
<1>1. Init => Inv /\ NoLostSpaceWakeup
  BY InitInv DEF Init, NoLostSpaceWakeup, At
<1> QED
  BY <1>1, NextAwake, PTL DEF SpecNoClear
=============================================================================
