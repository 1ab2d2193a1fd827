--------------------------- MODULE BoundedChannel ---------------------------
(***************************************************************************)
(* What core::types::BlockingQueue promises to the threads that share it,  *)
(* with every thread, lock and condition variable left out: a FIFO channel *)
(* that never holds more than MaxSize items (0: no limit), that accepts an *)
(* item only at its end and only once, and that loses an accepted item     *)
(* only when the oldest one makes room for the newest or when it is        *)
(* emptied.                                                                *)
(***************************************************************************)
EXTENDS Naturals, Sequences

CONSTANTS
    Item,        \* everything that may ever be put
    MaxSize,     \* capacity, 0 for none
    Displaces    \* TRUE iff a full channel drops its oldest item

VARIABLES
    chan,        \* the items in transit, oldest first
    entered      \* the items accepted so far

Full == MaxSize # 0 /\ Len(chan) >= MaxSize

Init == chan = <<>> /\ entered = {}

Accept(i) ==
    /\ i \notin entered
    /\ ~Full
    /\ chan' = Append(chan, i)
    /\ entered' = entered \union {i}

Displace(i) ==
    /\ i \notin entered
    /\ Displaces /\ Full
    /\ chan' = Append(Tail(chan), i)
    /\ entered' = entered \union {i}

Deliver ==
    /\ chan # <<>>
    /\ chan' = Tail(chan)
    /\ UNCHANGED entered

Flush ==
    /\ chan' = <<>>
    /\ UNCHANGED entered

Next ==
    \/ \E i \in Item : Accept(i) \/ Displace(i)
    \/ Deliver
    \/ Flush

Spec == Init /\ [][Next]_<<chan, entered>>
=============================================================================
