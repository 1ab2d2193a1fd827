-------------------------- MODULE SignalStreamProofs --------------------------
(***************************************************************************)
(* Signals carried to another process: what is under way on the client's   *)
(* stream brings the mirror to the server's values, and the marker comes   *)
(* after the whole cache, for any signals, keys, streams and emissions.    *)
(*                                                                         *)
(* The invariant says of every topic of a connected signal what the last   *)
(* message under way says of it (NothingMissed), and of every other topic  *)
(* that no message is about it and that the mirror holds it from before.   *)
(***************************************************************************)
EXTENDS SignalStream, FiniteSetTheorems, SequenceTheorems, TLAPS

-----------------------------------------------------------------------------
(* Messages *)

LEMMA MessageParts ==
    \A x, v : /\ Valued(x, v).topic = x /\ Valued(x, v).value = v
              /\ "value" \in DOMAIN Valued(x, v)
              /\ Removal(x).topic = x /\ "value" \notin DOMAIN Removal(x)
              /\ Valued(x, v) # Marker /\ Removal(x) # Marker
  BY DEF Valued, Removal, Marker

LEMMA MessageKinds ==
    ASSUME NEW m \in Message
    PROVE  \/ m = Marker
           \/ \E x \in Topics, v \in Values : m = Valued(x, v)
           \/ \E x \in Topics : m = Removal(x)
  BY DEF Message

LEMMA MessageType ==
    /\ Marker \in Message
    /\ \A x \in Topics, v \in Values : Valued(x, v) \in Message
    /\ \A x \in Topics : Removal(x) \in Message
  BY DEF Message

-----------------------------------------------------------------------------
(* Sequences of messages, and the last word on a topic *)

\* What is appended has the last word, and has none on other topics.
LEMMA Appended ==
    ASSUME NEW p \in Seq(Message), NEW m \in Message, NEW x, m # Marker, m.topic = x
    PROVE  LastWord(Append(p, m), x, m)
<1>1. /\ Append(p, m) \in Seq(Message) /\ Len(Append(p, m)) = Len(p) + 1
      /\ Append(p, m)[Len(p) + 1] = m /\ Len(p) \in Nat
  BY AppendProperties, LenProperties
<1>2. Len(p) + 1 \in About(Append(p, m), x)
  BY <1>1 DEF About
<1>3. \A j \in About(Append(p, m), x) : j <= Len(p) + 1
  BY <1>1 DEF About
<1> QED BY <1>1, <1>2, <1>3 DEF LastWord

LEMMA Unrelated ==
    ASSUME NEW p \in Seq(Message), NEW r \in Seq(Message), NEW x, About(r, x) = {}
    PROVE  /\ About(p \o r, x) = About(p, x)
           /\ \A m : LastWord(p, x, m) => LastWord(p \o r, x, m)
<1>1. /\ p \o r \in Seq(Message) /\ Len(p \o r) = Len(p) + Len(r)
      /\ Len(p) \in Nat /\ Len(r) \in Nat
      /\ \A i \in 1 .. Len(p) + Len(r) :
            (p \o r)[i] = IF i <= Len(p) THEN p[i] ELSE r[i - Len(p)]
  BY ConcatProperties, LenProperties
<1> DEFINE q == p \o r
<1>2. \A i \in 1 .. Len(p) : i \in 1 .. Len(q) /\ q[i] = p[i]
  BY <1>1
<1>3. \A i \in 1 .. Len(q) : i \notin 1 .. Len(p) => q[i] = Marker \/ q[i].topic # x
  <2> SUFFICES ASSUME NEW i \in 1 .. Len(q), i \notin 1 .. Len(p)
               PROVE  q[i] = Marker \/ q[i].topic # x
    OBVIOUS
  <2>1. i - Len(p) \in 1 .. Len(r) /\ q[i] = r[i - Len(p)]
    BY <1>1
  <2>2. i - Len(p) \notin About(r, x)
    OBVIOUS
  <2> HIDE DEF q
  <2> QED BY <2>1, <2>2 DEF About
<1>4. q \in Seq(Message)
  BY <1>1
<1> HIDE DEF q
<1>5. About(q, x) = About(p, x)
  BY <1>2, <1>3, <1>4 DEF About
<1>6. \A i \in About(p, x) : q[i] = p[i]
  BY <1>2 DEF About
<1>7. \A m : LastWord(p, x, m) => LastWord(q, x, m)
  BY <1>5, <1>6 DEF LastWord
<1> QED BY <1>5, <1>7 DEF q

\* The first message is taken away.
LEMMA Taken ==
    ASSUME NEW p \in Seq(Message), p # <<>>, NEW x
    PROVE  /\ (p[1] = Marker \/ p[1].topic # x) =>
                 /\ About(p, x) = {} => About(Tail(p), x) = {}
                 /\ \A m : LastWord(p, x, m) => LastWord(Tail(p), x, m)
           /\ \A m : LastWord(p, x, m) =>
                 LastWord(Tail(p), x, m) \/ (About(Tail(p), x) = {} /\ p[1] = m)
<1>1. /\ Tail(p) \in Seq(Message) /\ Len(Tail(p)) = Len(p) - 1
      /\ Len(p) \in Nat \ {0}
      /\ \A i \in 1 .. Len(Tail(p)) : Tail(p)[i] = p[i + 1]
  BY HeadTailProperties, EmptySeq
<1>2. \A i : i \in About(Tail(p), x) => i \in Nat /\ i + 1 \in About(p, x)
  <2> SUFFICES ASSUME NEW i \in About(Tail(p), x) PROVE i \in Nat /\ i + 1 \in About(p, x)
    OBVIOUS
  <2>1. i \in 1 .. Len(Tail(p)) /\ Tail(p)[i] # Marker /\ Tail(p)[i].topic = x
    BY <1>1 DEF About
  <2>2. i + 1 \in 1 .. Len(p) /\ Tail(p)[i] = p[i + 1]
    BY <1>1, <2>1
  <2> QED BY <2>1, <2>2 DEF About
<1>3. \A i : i \in About(p, x) /\ i # 1 =>
                 /\ i \in Nat /\ i - 1 \in About(Tail(p), x)
                 /\ Tail(p)[i - 1] = p[i]
  <2> SUFFICES ASSUME NEW i \in About(p, x), i # 1
               PROVE  /\ i \in Nat /\ i - 1 \in About(Tail(p), x)
                      /\ Tail(p)[i - 1] = p[i]
    OBVIOUS
  <2>1. i \in 1 .. Len(p) /\ p[i] # Marker /\ p[i].topic = x
    BY DEF About
  <2>2. i - 1 \in 1 .. Len(Tail(p)) /\ Tail(p)[i - 1] = p[i]
    BY <1>1, <2>1
  <2> QED BY <1>1, <2>1, <2>2 DEF About
<1>4. (p[1] = Marker \/ p[1].topic # x) => 1 \notin About(p, x)
  BY DEF About
<1>5. ASSUME NEW m, NEW i \in About(p, x), p[i] = m, \A j \in About(p, x) : j <= i, i # 1
      PROVE  LastWord(Tail(p), x, m)
  <2>1. i - 1 \in About(Tail(p), x) /\ Tail(p)[i - 1] = m
    BY <1>3, <1>5
  <2>2. \A j \in About(Tail(p), x) : j <= i - 1
    <3> SUFFICES ASSUME NEW j \in About(Tail(p), x) PROVE j <= i - 1
      OBVIOUS
    <3>1. j \in Nat /\ j + 1 <= i /\ i \in Nat
      BY <1>2, <1>3, <1>5
    <3> QED BY <3>1
  <2> QED BY <2>1, <2>2 DEF LastWord
<1>6. ASSUME \A j \in About(p, x) : j <= 1 PROVE About(Tail(p), x) = {}
  <2> SUFFICES ASSUME NEW j \in About(Tail(p), x) PROVE FALSE
    OBVIOUS
  <2>1. j \in Nat /\ j + 1 <= 1 /\ j \in 1 .. Len(Tail(p))
    BY <1>1, <1>2, <1>6 DEF About
  <2> QED BY <2>1
<1>7. ASSUME NEW m, LastWord(p, x, m)
      PROVE  LastWord(Tail(p), x, m) \/ (About(Tail(p), x) = {} /\ p[1] = m)
  BY <1>5, <1>6, <1>7 DEF LastWord
<1>8. ASSUME NEW m, LastWord(p, x, m), 1 \notin About(p, x)
      PROVE  LastWord(Tail(p), x, m)
  BY <1>5, <1>8 DEF LastWord
<1>9. About(p, x) = {} => About(Tail(p), x) = {}
  BY <1>2
<1> QED BY <1>4, <1>7, <1>8, <1>9

\* The queue goes over to the wire.
LEMMA Passed ==
    ASSUME NEW w \in Seq(Message), NEW q \in Seq(Message), q # <<>>
    PROVE  Append(w, Head(q)) \o Tail(q) = w \o q
<1>1. /\ Head(q) \in Message /\ Tail(q) \in Seq(Message) /\ Len(Tail(q)) = Len(q) - 1
      /\ \A i \in 1 .. Len(Tail(q)) : Tail(q)[i] = q[i + 1]
  BY HeadTailProperties
<1>2. /\ Len(w) \in Nat /\ Len(q) \in Nat \ {0} /\ Head(q) = q[1]
  BY LenProperties, EmptySeq
<1>3. /\ Append(w, Head(q)) \in Seq(Message)
      /\ Len(Append(w, Head(q))) = Len(w) + 1
      /\ \A i \in 1 .. Len(w) : Append(w, Head(q))[i] = w[i]
      /\ Append(w, Head(q))[Len(w) + 1] = Head(q)
  BY <1>1, AppendProperties
<1>4. /\ w \o q \in Seq(Message) /\ Len(w \o q) = Len(w) + Len(q)
      /\ \A i \in 1 .. Len(w) + Len(q) :
            (w \o q)[i] = IF i <= Len(w) THEN w[i] ELSE q[i - Len(w)]
  BY ConcatProperties
<1> DEFINE l == Append(w, Head(q))
           r == Tail(q)
<1>5. /\ l \o r \in Seq(Message) /\ Len(l \o r) = Len(l) + Len(r)
      /\ \A i \in 1 .. Len(l) + Len(r) :
            (l \o r)[i] = IF i <= Len(l) THEN l[i] ELSE r[i - Len(l)]
  <2>1. l \in Seq(Message) /\ r \in Seq(Message)
    BY <1>1, <1>3
  <2> HIDE DEF l, r
  <2> QED BY <2>1, ConcatProperties
<1>6. Len(l \o r) = Len(w) + Len(q)
  BY <1>1, <1>2, <1>3, <1>5
<1>7. \A i \in 1 .. Len(w) + Len(q) : (l \o r)[i] = (w \o q)[i]
  <2> SUFFICES ASSUME NEW i \in 1 .. Len(w) + Len(q) PROVE (l \o r)[i] = (w \o q)[i]
    OBVIOUS
  <2>1. CASE i <= Len(w)
    BY <1>1, <1>2, <1>3, <1>4, <1>5, <2>1
  <2>2. CASE i = Len(w) + 1
    BY <1>1, <1>2, <1>3, <1>4, <1>5, <2>2
  <2>3. CASE i > Len(w) + 1
    <3>1. (l \o r)[i] = r[i - (Len(w) + 1)]
      BY <1>1, <1>2, <1>3, <1>5, <2>3
    <3>2. i - (Len(w) + 1) \in 1 .. Len(Tail(q)) /\ i - (Len(w) + 1) + 1 = i - Len(w)
      BY <1>1, <1>2, <2>3
    <3> QED BY <1>1, <1>2, <1>4, <2>3, <3>1, <3>2
  <2> QED BY <1>2, <2>1, <2>2, <2>3
<1> QED BY <1>4, <1>5, <1>6, <1>7, SeqEqual

\* What is read first is the first under way.
LEMMA FirstRead ==
    ASSUME NEW w \in Seq(Message), NEW q \in Seq(Message), w # <<>>
    PROVE  /\ w \o q \in Seq(Message) /\ w \o q # <<>>
           /\ Head(w) = (w \o q)[1] /\ Tail(w) \o q = Tail(w \o q)
<1>1. /\ Tail(w) \in Seq(Message) /\ Len(Tail(w)) = Len(w) - 1
      /\ \A i \in 1 .. Len(Tail(w)) : Tail(w)[i] = w[i + 1]
  BY HeadTailProperties
<1>2. Len(w) \in Nat \ {0} /\ Len(q) \in Nat
  BY EmptySeq, LenProperties
<1>3. /\ w \o q \in Seq(Message) /\ Len(w \o q) = Len(w) + Len(q)
      /\ \A i \in 1 .. Len(w) + Len(q) :
            (w \o q)[i] = IF i <= Len(w) THEN w[i] ELSE q[i - Len(w)]
  BY ConcatProperties
<1>4. w \o q # <<>>
  BY <1>2, <1>3, EmptySeq
<1>5. /\ Tail(w \o q) \in Seq(Message) /\ Len(Tail(w \o q)) = Len(w \o q) - 1
      /\ \A i \in 1 .. Len(Tail(w \o q)) : Tail(w \o q)[i] = (w \o q)[i + 1]
  BY <1>3, <1>4, HeadTailProperties
<1>6. /\ Tail(w) \o q \in Seq(Message) /\ Len(Tail(w) \o q) = Len(Tail(w)) + Len(q)
      /\ \A i \in 1 .. Len(Tail(w)) + Len(q) :
            (Tail(w) \o q)[i] = IF i <= Len(Tail(w)) THEN Tail(w)[i] ELSE q[i - Len(Tail(w))]
  BY <1>1, ConcatProperties
<1>7. Len(Tail(w) \o q) = Len(Tail(w \o q))
  BY <1>1, <1>2, <1>3, <1>5, <1>6
<1>8. \A i \in 1 .. Len(Tail(w) \o q) : (Tail(w) \o q)[i] = Tail(w \o q)[i]
  <2> SUFFICES ASSUME NEW i \in 1 .. Len(Tail(w) \o q)
               PROVE  (Tail(w) \o q)[i] = Tail(w \o q)[i]
    OBVIOUS
  <2>1. Tail(w \o q)[i] = (w \o q)[i + 1] /\ i + 1 \in 1 .. Len(w) + Len(q)
    BY <1>1, <1>2, <1>3, <1>5, <1>6
  <2>2. CASE i <= Len(Tail(w))
    BY <1>1, <1>2, <1>3, <1>6, <2>1, <2>2
  <2>3. CASE ~(i <= Len(Tail(w)))
    <3>1. i - Len(Tail(w)) = (i + 1) - Len(w) /\ ~(i + 1 <= Len(w))
      BY <1>1, <1>2, <1>6, <2>3
    <3> QED BY <1>3, <1>6, <2>1, <2>3, <3>1
  <2> QED BY <2>2, <2>3
<1>9. Tail(w) \o q = Tail(w \o q)
  BY <1>5, <1>6, <1>7, <1>8, SeqEqual
<1>10. Head(w) = (w \o q)[1]
  BY <1>2, <1>3
<1> QED BY <1>3, <1>4, <1>9, <1>10

-----------------------------------------------------------------------------
(* Maps *)

LEMMA MapShape == \A m : m \in Map <=> DOMAIN m \subseteq Topics /\ m \in [DOMAIN m -> Values]
  BY DEF Map

LEMMA WithMap ==
    ASSUME NEW m \in Map, NEW x \in Topics, NEW v \in Values
    PROVE  /\ With(m, x, v) \in Map /\ DOMAIN With(m, x, v) = DOMAIN m \union {x}
           /\ With(m, x, v)[x] = v
           /\ \A y \in DOMAIN m : y # x => With(m, x, v)[y] = m[y]
<1>1. DOMAIN m \subseteq Topics /\ m \in [DOMAIN m -> Values]
  BY MapShape
<1>2. /\ DOMAIN With(m, x, v) = DOMAIN m \union {x}
      /\ With(m, x, v)[x] = v
      /\ \A y \in DOMAIN m : y # x => With(m, x, v)[y] = m[y]
  BY DEF With
<1>3. With(m, x, v) \in [DOMAIN m \union {x} -> Values]
  BY <1>1 DEF With
<1> QED BY <1>1, <1>2, <1>3, MapShape

LEMMA WithoutMap ==
    ASSUME NEW m \in Map, NEW x
    PROVE  /\ Without(m, x) \in Map /\ DOMAIN Without(m, x) = DOMAIN m \ {x}
           /\ \A y \in DOMAIN m \ {x} : Without(m, x)[y] = m[y]
<1>1. DOMAIN m \subseteq Topics /\ m \in [DOMAIN m -> Values]
  BY MapShape
<1>2. /\ DOMAIN Without(m, x) = DOMAIN m \ {x}
      /\ \A y \in DOMAIN m \ {x} : Without(m, x)[y] = m[y]
  BY DEF Without
<1>3. Without(m, x) \in [DOMAIN m \ {x} -> Values]
  BY <1>1 DEF Without
<1> QED BY <1>1, <1>2, <1>3, MapShape

\* A message that is received decides on its topic and on no other.
LEMMA Processed ==
    ASSUME NEW m \in Map, NEW msg \in Message
    PROVE  /\ Process(m, msg) \in Map
           /\ \A x : msg = Marker \/ msg.topic # x =>
                 /\ x \in DOMAIN Process(m, msg) <=> x \in DOMAIN m
                 /\ x \in DOMAIN m => Process(m, msg)[x] = m[x]
           /\ \A x, v : msg = Valued(x, v) =>
                 x \in DOMAIN Process(m, msg) /\ Process(m, msg)[x] = v
           /\ \A x : msg = Removal(x) => x \notin DOMAIN Process(m, msg)
<1>1. CASE msg = Marker
  BY <1>1, MessageParts DEF Process
<1>2. ASSUME NEW y \in Topics, NEW w \in Values, msg = Valued(y, w)
      PROVE  /\ Process(m, msg) = With(m, y, w) /\ msg # Marker /\ msg.topic = y
             /\ \A x, v : msg = Valued(x, v) => x = y /\ v = w
             /\ \A x : msg # Removal(x)
  <2>1. msg # Marker /\ msg.topic = y /\ msg.value = w /\ "value" \in DOMAIN msg
    BY <1>2, MessageParts, Zenon
  <2>2. Process(m, msg) = With(m, y, w)
    BY <2>1, Zenon DEF Process
  <2>3. \A x, v : msg = Valued(x, v) => x = y /\ v = w
    <3> SUFFICES ASSUME NEW x, NEW v, msg = Valued(x, v) PROVE x = y /\ v = w
      OBVIOUS
    <3>1. Valued(x, v).topic = x /\ Valued(x, v).value = v
      BY MessageParts
    <3> QED BY <2>1, <3>1
  <2>4. \A x : msg # Removal(x)
    BY <2>1, MessageParts, Zenon
  <2> QED BY <2>1, <2>2, <2>3, <2>4
<1>3. ASSUME NEW y \in Topics, msg = Removal(y)
      PROVE  /\ Process(m, msg) = Without(m, y) /\ msg # Marker /\ msg.topic = y
             /\ \A x, v : msg # Valued(x, v)
             /\ \A x : msg = Removal(x) => x = y
  <2>1. msg # Marker /\ msg.topic = y /\ "value" \notin DOMAIN msg
    BY <1>3, MessageParts, Zenon
  <2>2. Process(m, msg) = Without(m, y)
    BY <2>1, Zenon DEF Process
  <2>3. \A x, v : msg # Valued(x, v)
    BY <2>1, MessageParts, Zenon
  <2>4. \A x : msg = Removal(x) => x = y
    BY <2>1, MessageParts, Zenon
  <2> QED BY <2>1, <2>2, <2>3, <2>4
<1>4. CASE \E y \in Topics, w \in Values : msg = Valued(y, w)
  <2>1. PICK y \in Topics, w \in Values : msg = Valued(y, w)
    BY <1>4
  <2> DEFINE n == With(m, y, w)
  <2>2. n \in Map /\ DOMAIN n = DOMAIN m \union {y}
    BY WithMap
  <2>3. n[y] = w /\ \A x \in DOMAIN m : x # y => n[x] = m[x]
    BY WithMap
  <2>4. /\ Process(m, msg) = n /\ msg # Marker /\ msg.topic = y
        /\ \A x, v : msg = Valued(x, v) => x = y /\ v = w
        /\ \A x : msg # Removal(x)
    BY <1>2, <2>1, Zenon
  <2> HIDE DEF n
  <2> QED BY <2>2, <2>3, <2>4
<1>5. CASE \E y \in Topics : msg = Removal(y)
  <2>1. PICK y \in Topics : msg = Removal(y)
    BY <1>5
  <2> DEFINE n == Without(m, y)
  <2>2. n \in Map /\ DOMAIN n = DOMAIN m \ {y}
    BY WithoutMap
  <2>3. \A x \in DOMAIN m \ {y} : n[x] = m[x]
    BY WithoutMap
  <2>4. /\ Process(m, msg) = n /\ msg # Marker /\ msg.topic = y
        /\ \A x, v : msg # Valued(x, v)
        /\ \A x : msg = Removal(x) => x = y
    BY <1>3, <2>1, Zenon
  <2> HIDE DEF n
  <2> QED BY <2>2, <2>3, <2>4
<1> QED BY <1>1, <1>4, <1>5, MessageKinds

-----------------------------------------------------------------------------
(* The invariant *)

\* What the last message under way says of a topic is what the server has.
Told(x) ==
    IF x \in DOMAIN cached THEN ArrivesAs(x, cached[x])
    ELSE Leaves(x) \/ (About(UnderWay, x) = {} /\ x \in kept)

\* The signals are connected one after the other.
InTurn(h) ==
    /\ h.at = "connect" => \E n \in 0 .. NumSignals - 1 : h.slots = 1 .. n
    /\ h.at \in {"mark", "get", "written"} => h.slots = Signals

\* There is word of topics of connected signals only; of the others the mirror holds
\* what it held before.
NotYet ==
    \A x \in Topics : x[1] \notin call[opened].slots =>
        About(UnderWay, x) = {} /\ (x \in DOMAIN mirror => x \in kept)

\* The marker is under way when all signals are connected, and what comes after it is new.
AfterMarker ==
    \A i \in DOMAIN UnderWay : UnderWay[i] = Marker =>
        /\ call[opened].at \in {"get", "written"}
        /\ \A x \in Topics : \A j \in About(UnderWay, x) : j > i => x \in touched

ClientInv ==
    /\ call[opened].at \in {"connect", "mark", "get", "written"}
    /\ NotYet /\ AfterMarker
    /\ \A x \in Topics : x[1] \in call[opened].slots => Told(x)

StreamInv ==
    /\ TypeOK
    /\ thread = "read" => opened > 0
    /\ \A c \in Streams : InTurn(call[c]) /\ (call[c].dead => call[c].wire = <<>>)
    /\ Live => ClientInv

LEMMA ClientMisses == StreamInv => NothingMissed
  BY DEF StreamInv, ClientInv, NothingMissed, Told

LEMMA StreamInitInv == Init => StreamInv
<1> SUFFICES ASSUME Init PROVE StreamInv
  OBVIOUS
<1> USE SignalStreamAssumption
<1>1. TypeOK
  <2>1. Empty \in Map
    BY DEF Empty, Map
  <2>2. NewCall \in Handler
    BY DEF NewCall, Handler
  <2> QED BY <2>1, <2>2 DEF Init, TypeOK
<1> QED BY <1>1 DEF Init, StreamInv, Live, NewCall, InTurn

-----------------------------------------------------------------------------
(* Steps that leave what is under way to the client, in its order *)

LEMMA CallType ==
    ASSUME TypeOK, NEW c \in Streams
    PROVE  /\ call[c] \in Handler
           /\ call[c].slots \subseteq Signals /\ call[c].dead \in BOOLEAN
           /\ call[c].queue \in Seq(Message) /\ call[c].wire \in Seq(Message)
  BY DEF TypeOK, Handler

LEMMA LiveStream == TypeOK /\ Live => opened \in Streams
  BY SignalStreamAssumption DEF TypeOK, Live, Streams

LEMMA UnderWayType == TypeOK /\ Live => UnderWay \in Seq(Message)
  BY LiveStream, CallType, ConcatProperties DEF UnderWay

LEMMA Holds ==
    ASSUME StreamInv, opened' = opened, UNCHANGED <<cached, mirror, kept, touched>>,
           Live' => /\ Live /\ UnderWay' = UnderWay
                    /\ call'[opened].slots = call[opened].slots
                    /\ \/ call'[opened].at = call[opened].at
                       \/ {call'[opened].at, call[opened].at} \subseteq {"get", "written"}
    PROVE  Live' => ClientInv'
<1> SUFFICES ASSUME Live' PROVE ClientInv'
  OBVIOUS
<1>1. ClientInv
  BY DEF StreamInv
<1>2. NotYet' /\ AfterMarker'
  BY <1>1 DEF ClientInv, NotYet, AfterMarker
<1>3. \A x \in Topics : Told(x) => Told(x)'
  BY DEF Told, ArrivesAs, Leaves
<1> QED BY <1>1, <1>2, <1>3 DEF ClientInv

LEMMA StandsStill ==
    ASSUME StreamInv, TypeOK', thread' = "read" => thread = "read",
           UNCHANGED <<call, opened, cached, mirror, kept, touched>>
    PROVE  StreamInv'
<1>1. Live' => Live /\ UnderWay' = UnderWay
  BY DEF Live, UnderWay
<1>2. Live' => ClientInv'
  BY <1>1, Holds
<1> QED BY <1>2 DEF StreamInv

\* The receive thread between two streams, start_watching() and stop_watching().
LEMMA ClientRestsInv ==
    ASSUME StreamInv,
           \/ Check \/ Context \/ OpenCancelled \/ ReadEnds \/ Pause \/ Reset
           \/ Start \/ Stop \/ StopIdle \/ Join \/ UNCHANGED vars
    PROVE  StreamInv'
<1>1. UNCHANGED <<call, opened, cached, mirror, kept, touched>>
  BY DEF Check, Context, OpenCancelled, ReadEnds, Pause, Reset, Start, Stop, StopIdle, Join,
         Run, server, history, vars
<1>2. thread' = "read" => thread = "read"
  BY DEF Check, Context, OpenCancelled, ReadEnds, Pause, Reset, Start, Stop, StopIdle, Join,
         Run, vars
<1>3. emits' = emits
  BY DEF Check, Context, OpenCancelled, ReadEnds, Pause, Reset, Start, Stop, StopIdle, Join,
         Run, server, vars
<1>4. /\ thread' \in {"none", "check", "context", "open", "read", "failed", "reset", "ended"}
      /\ keepalive' \in BOOLEAN
      /\ cxt' \in {"none", "new", "cancelled", "open"}
      /\ control' \in {"idle", "watching", "cancel", "join"}
      /\ event' \in [value : BOOLEAN, ready : BOOLEAN]
  BY DEF StreamInv, TypeOK, Check, Context, OpenCancelled, ReadEnds, Pause, Reset,
         Start, Stop, StopIdle, Join, Run, vars
<1>5. TypeOK'
  BY <1>1, <1>3, <1>4 DEF StreamInv, TypeOK
<1> QED BY <1>1, <1>2, <1>5, StandsStill

\* A step of a stream's handler or of the stream that keeps what is under way.
LEMMA StreamGoesOn ==
    ASSUME StreamInv, NEW c \in Streams, NEW h \in Handler, call' = [call EXCEPT ![c] = h],
           UNCHANGED <<server, opened, mirror, history, thread>>, TypeOK',
           InTurn(h), h.dead => h.wire = <<>>, ~h.dead => ~call[c].dead,
           ~h.dead /\ c = opened =>
               /\ h.wire \o h.queue = call[c].wire \o call[c].queue
               /\ h.slots = call[c].slots
               /\ h.at = call[c].at \/ {h.at, call[c].at} \subseteq {"get", "written"}
    PROVE  StreamInv'
<1>1. \A d \in Streams : call'[d] = IF d = c THEN h ELSE call[d]
  BY DEF StreamInv, TypeOK
<1>2. UNCHANGED <<cached, mirror, kept, touched, opened, thread>>
  BY DEF server, history
<1>3. ASSUME Live'
      PROVE  /\ Live /\ UnderWay' = UnderWay
             /\ call'[opened].slots = call[opened].slots
             /\ \/ call'[opened].at = call[opened].at
                \/ {call'[opened].at, call[opened].at} \subseteq {"get", "written"}
  <2>1. opened \in Streams /\ opened > 0 /\ ~call'[opened].dead
    BY <1>2, <1>3, LiveStream DEF StreamInv, TypeOK, Live, Streams
  <2>2. CASE opened = c
    BY <1>1, <1>2, <2>1, <2>2 DEF Live, UnderWay
  <2>3. CASE opened # c
    BY <1>1, <1>2, <2>1, <2>3 DEF Live, UnderWay
  <2> QED BY <2>2, <2>3
<1>4. Live' => ClientInv'
  BY <1>2, <1>3, Holds
<1>5. \A d \in Streams : InTurn(call'[d]) /\ (call'[d].dead => call'[d].wire = <<>>)
  BY <1>1 DEF StreamInv
<1> QED BY <1>2, <1>4, <1>5 DEF StreamInv

\* What a step of one stream's handler leaves to the type invariant.
LEMMA StepType ==
    ASSUME TypeOK, NEW c \in Streams, NEW h \in Handler, Step(c, h), ServerRest
    PROVE  TypeOK'
  BY DEF TypeOK, Step, ServerRest, server, history

LEMMA WriteInv ==
    ASSUME StreamInv, NEW c \in Streams, Write(c) PROVE StreamInv'
<1> DEFINE h == [call[c] EXCEPT !.queue = Tail(@),
                                !.wire = IF call[c].dead THEN @ ELSE Append(@, Head(call[c].queue)),
                                !.at = "written"]
<1>1. /\ call[c] \in Handler /\ call[c].dead \in BOOLEAN
      /\ call[c].queue \in Seq(Message) /\ call[c].wire \in Seq(Message)
      /\ call[c].queue # <<>> /\ call[c].at = "get" /\ Step(c, h) /\ ServerRest
  BY CallType DEF StreamInv, Write, Serving
<1>2. Tail(call[c].queue) \in Seq(Message) /\ Head(call[c].queue) \in Message
  BY <1>1, HeadTailProperties
<1>3. /\ h.queue = Tail(call[c].queue) /\ h.at = "written" /\ h.slots = call[c].slots
      /\ h.dead = call[c].dead
      /\ h.wire = IF call[c].dead THEN call[c].wire
                  ELSE Append(call[c].wire, Head(call[c].queue))
  BY <1>1 DEF Handler
<1>4. h \in Handler
  BY <1>1, <1>2, AppendProperties DEF Handler
<1> HIDE DEF h
<1>5. TypeOK'
  BY <1>1, <1>4, StepType DEF StreamInv
<1>6. ~h.dead => h.wire \o h.queue = call[c].wire \o call[c].queue
  BY <1>1, <1>3, Passed
<1>7. InTurn(h)
  BY <1>1, <1>3 DEF StreamInv, InTurn
<1> QED BY <1>1, <1>3, <1>4, <1>5, <1>6, <1>7, StreamGoesOn DEF Step, ServerRest, StreamInv

LEMMA TestCancelledInv ==
    ASSUME StreamInv, NEW c \in Streams, TestCancelled(c) PROVE StreamInv'
<1> DEFINE h == [call[c] EXCEPT !.at = IF call[c].dead THEN "close" ELSE "get"]
<1>1. /\ call[c] \in Handler /\ call[c].at = "written" /\ Step(c, h) /\ ServerRest
  BY CallType DEF StreamInv, TestCancelled, Serving
<1>2. /\ h.queue = call[c].queue /\ h.slots = call[c].slots
      /\ h.at = IF call[c].dead THEN "close" ELSE "get"
      /\ h.dead = call[c].dead /\ h.wire = call[c].wire
  BY <1>1 DEF Handler
<1>3. h \in Handler
  BY <1>1 DEF Handler
<1> HIDE DEF h
<1>4. TypeOK'
  BY <1>1, <1>3, StepType DEF StreamInv
<1>5. InTurn(h)
  BY <1>1, <1>2 DEF StreamInv, InTurn
<1> QED BY <1>1, <1>2, <1>3, <1>4, <1>5, StreamGoesOn DEF Step, ServerRest, StreamInv

LEMMA DisconnectInv ==
    ASSUME StreamInv, NEW c \in Streams, Disconnect(c) PROVE StreamInv'
<1>1. /\ call[c] \in Handler /\ call[c].at = "close" /\ ServerRest
      /\ call[c].slots \subseteq Signals
  BY CallType DEF StreamInv, Disconnect, Serving
<1>2. PICK h \in {[call[c] EXCEPT !.slots = @ \ {Cardinality(@)}],
                  [call[c] EXCEPT !.queue = <<>>, !.at = "ended"]} : Step(c, h)
  BY DEF Disconnect
<1>3. h.dead = call[c].dead /\ h.wire = call[c].wire
  BY <1>1, <1>2 DEF Handler
<1>4. h \in Handler
  <2>1. <<>> \in Seq(Message)
    BY EmptySeq
  <2>2. CASE h = [call[c] EXCEPT !.slots = @ \ {Cardinality(@)}]
    BY <1>1, <2>2 DEF Handler
  <2>3. CASE h = [call[c] EXCEPT !.queue = <<>>, !.at = "ended"]
    BY <1>1, <2>1, <2>3 DEF Handler
  <2> QED BY <1>2, <2>2, <2>3
<1>5. TypeOK'
  BY <1>1, <1>2, <1>4, StepType DEF StreamInv
\* A stream that its handler closes is not the client's, or it is dead.
<1>6. ~(~h.dead /\ c = opened)
  <2> SUFFICES ASSUME ~h.dead, c = opened PROVE FALSE
    OBVIOUS
  <2>1. Live
    BY <1>3, SignalStreamAssumption DEF Live, Streams
  <2> QED BY <1>1, <2>1 DEF StreamInv, ClientInv
<1>7. InTurn(h)
  BY <1>1, <1>2 DEF InTurn, Handler
<1> QED BY <1>1, <1>2, <1>3, <1>4, <1>5, <1>6, <1>7, StreamGoesOn DEF Step, ServerRest, StreamInv

LEMMA DeadType ==
    ASSUME NEW h \in Handler
    PROVE  /\ Dead(h) \in Handler /\ Dead(h).dead /\ Dead(h).wire = <<>>
           /\ Dead(h).at = h.at /\ Dead(h).slots = h.slots
<1>1. <<>> \in Seq(Message)
  BY EmptySeq
<1> QED BY <1>1 DEF Dead, Handler

LEMMA NewCallType == NewCall \in Handler
<1>1. <<>> \in Seq(Message)
  BY EmptySeq
<1> QED BY <1>1 DEF NewCall, Handler

LEMMA BreakInv == StreamInv /\ Break => StreamInv'
<1> SUFFICES ASSUME StreamInv, Break PROVE StreamInv'
  OBVIOUS
<1> DEFINE h == Dead(call[opened])
<1>1. opened \in Streams /\ Step(opened, h) /\ ServerRest
  BY LiveStream DEF Break, StreamInv
<1>2. /\ h \in Handler /\ h.dead /\ h.wire = <<>>
      /\ h.at = call[opened].at /\ h.slots = call[opened].slots
  BY <1>1, CallType, DeadType DEF StreamInv
<1>4. InTurn(h)
  BY <1>1, <1>2 DEF StreamInv, InTurn
<1> HIDE DEF h
<1>3. TypeOK'
  BY <1>1, <1>2, StepType DEF StreamInv
<1> QED BY <1>1, <1>2, <1>3, <1>4, StreamGoesOn DEF Step, ServerRest, StreamInv

LEMMA RestartInv == StreamInv /\ Restart => StreamInv'
<1> SUFFICES ASSUME StreamInv, Restart PROVE StreamInv'
  OBVIOUS
<1> USE SignalStreamAssumption
<1> DEFINE h == [Dead(NewCall) EXCEPT !.at = "ended"]
<1>1. h \in Handler /\ h.dead /\ h.wire = <<>> /\ InTurn(h)
  <2>1. /\ Dead(NewCall) \in Handler /\ Dead(NewCall).dead
        /\ Dead(NewCall).wire = <<>>
    BY NewCallType, DeadType
  <2>2. \A g \in Handler : /\ [g EXCEPT !.at = "ended"] \in Handler
                           /\ [g EXCEPT !.at = "ended"].dead = g.dead
                           /\ [g EXCEPT !.at = "ended"].wire = g.wire
                           /\ [g EXCEPT !.at = "ended"].at = "ended"
    BY DEF Handler
  <2> QED BY <2>1, <2>2 DEF InTurn
<1>2. /\ cached' = Empty /\ \A c \in Streams : call'[c] = IF c <= opened THEN h ELSE call[c]
      /\ call' \in [Streams -> Handler]
      /\ UNCHANGED <<opened, thread, emits, mirror, kept, touched, keepalive, cxt, control, event>>
  BY <1>1 DEF StreamInv, TypeOK, Restart, history
<1> HIDE DEF h
<1>3. TypeOK'
  <2>1. Empty \in Map
    BY DEF Empty, Map
  <2> QED BY <1>2, <2>1 DEF StreamInv, TypeOK
<1>4. ~Live'
  <2>1. opened > 0 => opened \in Streams
    BY DEF StreamInv, TypeOK, Streams
  <2> QED BY <1>1, <1>2, <2>1 DEF Live, StreamInv, TypeOK
<1>5. \A c \in Streams : InTurn(call'[c]) /\ (call'[c].dead => call'[c].wire = <<>>)
  BY <1>1, <1>2 DEF StreamInv
<1> QED BY <1>2, <1>3, <1>4, <1>5 DEF StreamInv

LEMMA CancelInv == StreamInv /\ Cancel => StreamInv'
<1> SUFFICES ASSUME StreamInv, Cancel PROVE StreamInv'
  OBVIOUS
<1> USE SignalStreamAssumption
<1>1. UNCHANGED <<cached, mirror, kept, touched, opened, thread, emits, keepalive, event>>
  BY DEF Cancel, server, history
<1>2. cxt' \in {"none", "new", "cancelled", "open"} /\ control' \in {"idle", "watching", "cancel", "join"}
  BY DEF Cancel, StreamInv, TypeOK
<1>3. CASE call' = call
  <2>1. TypeOK'
    BY <1>1, <1>2, <1>3 DEF StreamInv, TypeOK
  <2> QED BY <1>1, <1>3, <2>1, StandsStill
<1>4. CASE call' = [call EXCEPT ![opened] = Dead(call[opened])] /\ opened \in Streams
  <2> DEFINE h == Dead(call[opened])
  <2>1. /\ h \in Handler /\ h.dead /\ h.wire = <<>>
        /\ h.at = call[opened].at /\ h.slots = call[opened].slots
    BY <1>4, CallType, DeadType DEF StreamInv
  <2>4. InTurn(h)
    BY <1>4, <2>1 DEF StreamInv, InTurn
  <2> HIDE DEF h
  <2>2. call' \in [Streams -> Handler]
    BY <1>4, <2>1 DEF StreamInv, TypeOK, h
  <2>3. TypeOK'
    BY <1>1, <1>2, <2>2 DEF StreamInv, TypeOK
  <2> QED BY <1>1, <1>4, <2>1, <2>3, <2>4, StreamGoesOn DEF StreamInv, server, history, h
<1>5. CASE call' = [call EXCEPT ![opened] = Dead(call[opened])] /\ opened \notin Streams
  <2>1. call' = call
    BY <1>5 DEF StreamInv, TypeOK
  <2> QED BY <1>3, <2>1
<1> QED BY <1>3, <1>4, <1>5 DEF Cancel, Step

-----------------------------------------------------------------------------
(* Messages are added to what is under way *)

LEMMA OneMessage ==
    ASSUME NEW m \in Message
    PROVE  /\ <<m>> \in Seq(Message) /\ Len(<<m>>) = 1 /\ <<m>>[1] = m
           /\ \A x : m = Marker \/ m.topic # x => About(<<m>>, x) = {}
  BY DEF About

LEMMA ToldStill ==
    ASSUME UnderWay \in Seq(Message), NEW r \in Seq(Message), UnderWay' = UnderWay \o r,
           NEW x, About(r, x) = {}, mirror' = mirror, kept' = kept,
           x \in DOMAIN cached' <=> x \in DOMAIN cached,
           x \in DOMAIN cached => cached'[x] = cached[x],
           Told(x)
    PROVE  Told(x)'
<1> DEFINE p == UnderWay
           q == UnderWay'
<1>1. About(q, x) = About(p, x) /\ \A m : LastWord(p, x, m) => LastWord(q, x, m)
  BY Unrelated
<1>2. CASE x \in DOMAIN cached
  <2>1. ArrivesAs(x, cached[x])
    BY <1>2 DEF Told
  <2>2. \/ LastWord(q, x, Valued(x, cached'[x]))
        \/ About(q, x) = {} /\ x \in DOMAIN mirror' /\ mirror'[x] = cached'[x]
    BY <1>1, <1>2, <2>1 DEF ArrivesAs
  <2> QED BY <1>2, <2>2 DEF Told, ArrivesAs
<1>3. CASE x \notin DOMAIN cached
  <2>1. Leaves(x) \/ (About(p, x) = {} /\ x \in kept)
    BY <1>3 DEF Told
  <2>2. \/ LastWord(q, x, Removal(x))
        \/ About(q, x) = {} /\ x \notin DOMAIN mirror'
        \/ About(q, x) = {} /\ x \in kept'
    BY <1>1, <2>1 DEF Leaves
  <2> QED BY <1>3, <2>2 DEF Told, Leaves
<1> QED BY <1>2, <1>3

\* A replay has one message on a topic.
LEMMA ReplayedWord ==
    ASSUME NEW p \in Seq(Message), NEW r \in Seq(Message), NEW x, About(p, x) = {},
           NEW i \in 1 .. Len(r), r[i] # Marker, r[i].topic = x,
           \A j \in 1 .. Len(r) : r[j] # Marker /\ r[j].topic = x => j = i
    PROVE  LastWord(p \o r, x, r[i])
<1>1. /\ p \o r \in Seq(Message) /\ Len(p \o r) = Len(p) + Len(r)
      /\ Len(p) \in Nat /\ Len(r) \in Nat
      /\ \A k \in 1 .. Len(p) + Len(r) :
            (p \o r)[k] = IF k <= Len(p) THEN p[k] ELSE r[k - Len(p)]
  BY ConcatProperties, LenProperties
<1> DEFINE q == p \o r
<1>2. Len(p) + i \in 1 .. Len(q) /\ q[Len(p) + i] = r[i]
  BY <1>1
<1>3. \A k \in 1 .. Len(p) : q[k] = Marker \/ q[k].topic # x
  <2>1. \A k \in 1 .. Len(p) : q[k] = p[k]
    BY <1>1
  <2> HIDE DEF q
  <2> QED BY <2>1 DEF About
<1>4. \A k \in 1 .. Len(q) : q[k] # Marker /\ q[k].topic = x => k <= Len(p) + i
  <2> SUFFICES ASSUME NEW k \in 1 .. Len(q), q[k] # Marker, q[k].topic = x
               PROVE  k <= Len(p) + i
    OBVIOUS
  <2>1. CASE k <= Len(p)
    BY <1>1, <2>1
  <2>2. CASE ~(k <= Len(p))
    <3>1. k - Len(p) \in 1 .. Len(r) /\ q[k] = r[k - Len(p)]
      BY <1>1, <2>2
    <3>2. k - Len(p) = i
      BY <3>1
    <3> QED BY <1>1, <3>2
  <2> QED BY <2>1, <2>2
<1>5. q \in Seq(Message)
  BY <1>1
<1> HIDE DEF q
<1>6. Len(p) + i \in About(q, x) /\ \A k \in About(q, x) : k <= Len(p) + i
  BY <1>2, <1>4, <1>5 DEF About
<1>7. LastWord(q, x, r[i])
  BY <1>2, <1>6 DEF LastWord
<1> QED BY <1>7 DEF q

\* The cached topics of a signal, each with its value, each once.
LEMMA ReplayOf ==
    ASSUME TypeOK, NEW s, NEW r \in Replays(s)
    PROVE  /\ r \in Seq(Message)
           /\ \A i \in 1 .. Len(r) : \E y \in DOMAIN cached :
                 y[1] = s /\ r[i] = Valued(y, cached[y])
           /\ \A y \in DOMAIN cached : y[1] = s =>
                 \E i \in 1 .. Len(r) : /\ r[i] = Valued(y, cached[y])
                                        /\ \A j \in 1 .. Len(r) : r[j].topic = y => j = i
<1> USE SignalStreamAssumption
<1> DEFINE topics == {x \in DOMAIN cached : x[1] = s}
           n == Cardinality(topics)
<1>1. DOMAIN cached \subseteq Topics /\ \A y \in DOMAIN cached : cached[y] \in Values
  BY MapShape DEF TypeOK
<1>2. IsFiniteSet(topics)
  <2>1. IsFiniteSet(Signals)
    BY FS_Interval DEF Signals
  <2>2. IsFiniteSet(Topics)
    BY <2>1, FS_Product DEF Topics
  <2> QED BY <1>1, <2>2, FS_Subset
<1>3. n \in Nat /\ IsFiniteSet(1 .. n) /\ Cardinality(1 .. n) = n
  BY <1>2, FS_CardinalityType, FS_Interval
<1>4. PICK order \in SetToSeqs(topics) :
          r = [i \in DOMAIN order |-> Valued(order[i], cached[order[i]])]
  BY DEF Replays
<1>5. /\ order \in [1 .. n -> topics]
      /\ \A i, j \in 1 .. n : order[i] = order[j] => i = j
  BY <1>4 DEF SetToSeqs
<1> HIDE DEF n
<1>6. order \in Surjection(1 .. n, topics)
  <2>1. order \in Injection(1 .. n, topics)
    BY <1>5 DEF Injection, IsInjective
  <2> HIDE DEF topics
  <2>2. Cardinality(1 .. n) = Cardinality(topics)
    BY <1>3 DEF n
  <2> QED BY <1>2, <2>1, <2>2, FS_Injection
<1>7. \A y \in topics : \E i \in 1 .. n : order[i] = y
  BY <1>6 DEF Surjection
<1>8. r = [i \in 1 .. n |-> Valued(order[i], cached[order[i]])]
  BY <1>4, <1>5
<1>9. \A i \in 1 .. n : order[i] \in DOMAIN cached /\ order[i][1] = s
  BY <1>5
<1>10. r \in Seq(Message) /\ Len(r) = n
  <2>1. \A i \in 1 .. n : Valued(order[i], cached[order[i]]) \in Message
    BY <1>1, <1>9, MessageType
  <2> QED BY <1>3, <1>8, <2>1
<1>11. \A i \in 1 .. n : r[i] = Valued(order[i], cached[order[i]]) /\ r[i].topic = order[i]
  BY <1>8, MessageParts
<1>12. ASSUME NEW y \in DOMAIN cached, y[1] = s
       PROVE  \E i \in 1 .. Len(r) : /\ r[i] = Valued(y, cached[y])
                                     /\ \A j \in 1 .. Len(r) : r[j].topic = y => j = i
  <2>1. PICK i \in 1 .. n : order[i] = y
    BY <1>7, <1>12
  <2>2. r[i] = Valued(y, cached[y])
    BY <1>11, <2>1
  <2>3. \A j \in 1 .. n : r[j].topic = y => j = i
    BY <1>5, <1>11, <2>1
  <2> QED BY <1>10, <2>1, <2>2, <2>3
<1> QED BY <1>9, <1>10, <1>11, <1>12

LEMMA EmitInv == StreamInv /\ Emit => StreamInv'
<1> SUFFICES ASSUME StreamInv, Emit PROVE StreamInv'
  OBVIOUS
<1> USE SignalStreamAssumption
<1>1. PICK x \in Topics, msg \in Message :
          /\ msg # Marker /\ msg.topic = x /\ Forward(x[1], msg)
          /\ cached' \in Map /\ emits' \in 0 .. MaxEmits
          /\ x \in DOMAIN cached' => msg = Valued(x, cached'[x])
          /\ x \notin DOMAIN cached' => msg = Removal(x)
          /\ \A y : y # x => /\ y \in DOMAIN cached' <=> y \in DOMAIN cached
                             /\ y \in DOMAIN cached => cached'[y] = cached[y]
          /\ touched' = touched \union {x}
  <2>1. PICK x \in Topics :
            /\ emits < MaxEmits /\ emits' = emits + 1
            /\ \/ cached' = With(cached, x, emits') /\ Forward(x[1], Valued(x, emits'))
               \/ cached' = Without(cached, x) /\ Forward(x[1], Removal(x))
            /\ touched' = touched \union {x}
    BY DEF Emit
  <2>2. emits' \in Values /\ emits' \in 0 .. MaxEmits /\ cached \in Map
    BY <2>1 DEF StreamInv, TypeOK, Values
  <2>3. CASE cached' = With(cached, x, emits') /\ Forward(x[1], Valued(x, emits'))
    <3> DEFINE msg == Valued(x, emits')
    <3>1. msg \in Message /\ msg # Marker /\ msg.topic = x
      BY <2>2, MessageType, MessageParts
    <3>2. /\ cached' \in Map /\ DOMAIN cached' = DOMAIN cached \union {x}
          /\ cached'[x] = emits'
          /\ \A y \in DOMAIN cached : y # x => cached'[y] = cached[y]
      BY <2>2, <2>3, WithMap
    <3>3. msg = Valued(x, cached'[x])
      BY <3>2
    <3> HIDE DEF msg
    <3>4. Forward(x[1], msg)
      BY <2>3 DEF msg
    <3> QED BY <2>1, <2>2, <3>1, <3>2, <3>3, <3>4
  <2>4. CASE cached' = Without(cached, x) /\ Forward(x[1], Removal(x))
    <3> DEFINE msg == Removal(x)
    <3>1. msg \in Message /\ msg # Marker /\ msg.topic = x
      BY <2>2, MessageType, MessageParts
    <3>2. /\ cached' \in Map /\ DOMAIN cached' = DOMAIN cached \ {x}
          /\ \A y \in DOMAIN cached : y # x => cached'[y] = cached[y]
      BY <2>2, <2>4, WithoutMap
    <3>3. x \notin DOMAIN cached' => msg = Removal(x)
      OBVIOUS
    <3> HIDE DEF msg
    <3>4. Forward(x[1], msg)
      BY <2>4 DEF msg
    <3> QED BY <2>1, <2>2, <3>1, <3>2, <3>3, <3>4
  <2> QED BY <2>1, <2>3, <2>4
<1>2. UNCHANGED <<opened, thread, keepalive, cxt, control, event, mirror, kept>>
  BY DEF Emit
<1>3. ASSUME NEW c \in Streams
      PROVE  /\ call'[c] \in Handler
             /\ call'[c].at = call[c].at /\ call'[c].slots = call[c].slots
             /\ call'[c].dead = call[c].dead /\ call'[c].wire = call[c].wire
             /\ call'[c].queue = IF x[1] \in call[c].slots THEN Append(call[c].queue, msg)
                                 ELSE call[c].queue
  <2>1. call[c] \in Handler /\ call[c].queue \in Seq(Message)
    BY CallType DEF StreamInv
  <2>2. call'[c] = IF x[1] \in call[c].slots
                   THEN [call[c] EXCEPT !.queue = Append(@, msg)] ELSE call[c]
    BY <1>1 DEF Forward, Listening
  <2>3. Append(call[c].queue, msg) \in Seq(Message)
    BY <2>1, AppendProperties
  <2>4. CASE x[1] \in call[c].slots
    BY <2>1, <2>2, <2>3, <2>4 DEF Handler
  <2>5. CASE x[1] \notin call[c].slots
    BY <2>1, <2>2, <2>5
  <2> QED BY <2>4, <2>5
<1>4. TypeOK'
  <2>1. call' \in [Streams -> Handler]
    BY <1>1, <1>3 DEF Forward
  <2>2. touched' \subseteq Topics
    BY <1>1 DEF StreamInv, TypeOK
  <2> QED BY <1>1, <1>2, <2>1, <2>2 DEF StreamInv, TypeOK
<1>5. \A c \in Streams : InTurn(call'[c]) /\ (call'[c].dead => call'[c].wire = <<>>)
  BY <1>3 DEF StreamInv, InTurn
<1>6. ASSUME Live' PROVE ClientInv'
  <2> DEFINE h == call[opened]
             p == UnderWay
             q == UnderWay'
  <2>1. opened \in Streams /\ Live
    BY <1>2, <1>3, <1>4, <1>6, LiveStream DEF Live, Streams, TypeOK
  <2>2. /\ ClientInv /\ p \in Seq(Message)
        /\ h.queue \in Seq(Message) /\ h.wire \in Seq(Message)
    BY <2>1, UnderWayType, CallType DEF StreamInv
  <2>3. call'[opened'].at = h.at /\ call'[opened'].slots = h.slots
    BY <1>2, <1>3, <2>1
  <2>4. CASE x[1] \in h.slots
    <3> DEFINE r == <<msg>>
    <3>1. /\ r \in Seq(Message) /\ Len(r) = 1 /\ r[1] = msg
          /\ \A y : y # x => About(r, y) = {}
      BY <1>1, OneMessage
    <3>2. q = p \o r /\ q = Append(p, msg)
      <4>1. Append(h.queue, msg) = h.queue \o r /\ Append(p, msg) = p \o r
        BY <2>2, AppendIsConcat
      <4>2. (h.wire \o h.queue) \o r = h.wire \o (h.queue \o r)
        <5>1. \A s, t, u \in Seq(Message) : (s \o t) \o u = s \o (t \o u)
          BY ConcatAssociative
        <5> HIDE DEF h
        <5> QED BY <2>2, <3>1, <5>1
      <4>3. q = h.wire \o Append(h.queue, msg) /\ p = h.wire \o h.queue
        BY <1>2, <1>3, <2>1, <2>4 DEF UnderWay
      <4> QED BY <4>1, <4>2, <4>3
    <3> HIDE DEF r
    <3>3. \A y : y # x => About(q, y) = About(p, y)
      <4>1. \A y : y # x => About(p \o r, y) = About(p, y)
        <5> HIDE DEF p
        <5> QED BY <2>2, <3>1, Unrelated
      <4> HIDE DEF p, q
      <4> QED BY <3>2, <4>1
    <3>4. NotYet'
      BY <1>2, <2>2, <2>3, <2>4, <3>3 DEF ClientInv, NotYet
    <3>5. AfterMarker'
      <4>1. /\ Len(q) = Len(p) + 1 /\ q[Len(p) + 1] = msg /\ q \in Seq(Message)
            /\ Len(p) \in Nat /\ \A i \in 1 .. Len(p) : q[i] = p[i]
        BY <2>2, <3>2, AppendProperties, LenProperties
      <4>2. DOMAIN q = 1 .. Len(q) /\ DOMAIN p = 1 .. Len(p)
        BY <2>2, <4>1, LenProperties
      <4>3. \A i \in DOMAIN q : q[i] = Marker => i \in DOMAIN p /\ p[i] = Marker
        BY <1>1, <4>1, <4>2
      <4>4. \A y \in Topics : y \notin touched' => About(q, y) = About(p, y) /\ y \notin touched
        BY <1>1, <3>3
      <4> HIDE DEF p, q
      <4>5. \A i \in DOMAIN q : q[i] = Marker =>
                /\ call'[opened'].at \in {"get", "written"}
                /\ \A y \in Topics : \A j \in About(q, y) : j > i => y \in touched'
        BY <2>2, <2>3, <4>3, <4>4 DEF ClientInv, AfterMarker, p, h
      <4> QED BY <4>5 DEF AfterMarker, q
    <3>6. \A y \in Topics : y # x /\ y[1] \in h.slots => Told(y)'
      <4> SUFFICES ASSUME NEW y \in Topics, y # x, y[1] \in h.slots PROVE Told(y)'
        OBVIOUS
      <4>1. Told(y) /\ About(r, y) = {}
        BY <2>2, <3>1 DEF ClientInv
      <4>2. /\ y \in DOMAIN cached' <=> y \in DOMAIN cached
            /\ y \in DOMAIN cached => cached'[y] = cached[y]
        BY <1>1
      <4> QED BY <1>2, <2>2, <3>1, <3>2, <4>1, <4>2, ToldStill
    <3>7. Told(x)'
      <4>1. LastWord(q, x, msg)
        BY <1>1, <2>2, <3>2, Appended
      <4> QED BY <1>1, <4>1 DEF Told, ArrivesAs, Leaves
    <3> QED BY <2>2, <2>3, <3>4, <3>5, <3>6, <3>7 DEF ClientInv
  <2>5. CASE x[1] \notin h.slots
    <3>1. UnderWay' = UnderWay
      BY <1>2, <1>3, <2>1, <2>5 DEF UnderWay
    <3>2. NotYet'
      BY <1>2, <2>2, <2>3, <3>1 DEF ClientInv, NotYet
    <3>3. AfterMarker'
      BY <1>1, <2>2, <2>3, <3>1 DEF ClientInv, AfterMarker
    <3>4. \A y \in Topics : y[1] \in h.slots => Told(y)'
      <4> SUFFICES ASSUME NEW y \in Topics, y[1] \in h.slots PROVE Told(y)'
        OBVIOUS
      <4>1. Told(y) /\ y # x
        BY <2>2, <2>5 DEF ClientInv
      <4>2. /\ y \in DOMAIN cached' <=> y \in DOMAIN cached
            /\ y \in DOMAIN cached => cached'[y] = cached[y]
        BY <1>1, <4>1
      <4> QED BY <1>2, <3>1, <4>1, <4>2 DEF Told, ArrivesAs, Leaves
    <3> QED BY <2>2, <2>3, <3>2, <3>3, <3>4 DEF ClientInv
  <2> QED BY <2>4, <2>5
<1> QED BY <1>2, <1>4, <1>5, <1>6 DEF StreamInv

LEMMA Associative ==
    \A s, t, u \in Seq(Message) : (s \o t) \o u = s \o (t \o u)
  BY ConcatAssociative

\* A step of the handler of the client's live stream.
LEMMA ClientStep ==
    ASSUME StreamInv, NEW c \in Streams, c = opened, NEW h \in Handler, Step(c, h), ServerRest,
           InTurn(h), h.dead => h.wire = <<>>, ClientInv'
    PROVE  StreamInv'
<1>1. TypeOK'
  BY StepType DEF StreamInv
<1>2. \A d \in Streams : call'[d] = IF d = c THEN h ELSE call[d]
  BY DEF StreamInv, TypeOK, Step
<1>3. opened' = opened /\ thread' = thread
  BY DEF ServerRest
<1> QED BY <1>1, <1>2, <1>3 DEF StreamInv

LEMMA ConnectInv ==
    ASSUME StreamInv, NEW c \in Streams, Connect(c) PROVE StreamInv'
<1> USE SignalStreamAssumption
<1> DEFINE g == call[c]
           s == Cardinality(g.slots) + 1
<1>1. /\ g \in Handler /\ g.at = "connect" /\ ServerRest
      /\ g.queue \in Seq(Message) /\ g.wire \in Seq(Message)
  BY CallType DEF StreamInv, Connect, Serving
<1>2. PICK n \in 0 .. NumSignals - 1 : g.slots = 1 .. n
  BY <1>1 DEF StreamInv, InTurn
<1>3. s = n + 1 /\ s \in Signals /\ g.slots \union {s} = 1 .. s
  <2>1. Cardinality(1 .. n) = n
    BY FS_Interval
  <2> QED BY <1>2, <2>1 DEF Signals
<1> HIDE DEF s
<1>4. PICK r \in Replays(s) :
          Step(c, [g EXCEPT !.slots = @ \union {s}, !.queue = @ \o r,
                            !.at = IF AllConnected(s) THEN "mark" ELSE @])
  BY DEF Connect, s
<1> DEFINE h == [g EXCEPT !.slots = @ \union {s}, !.queue = @ \o r,
                          !.at = IF AllConnected(s) THEN "mark" ELSE @]
<1>5. /\ r \in Seq(Message)
      /\ \A i \in 1 .. Len(r) : \E y \in DOMAIN cached :
            y[1] = s /\ r[i] = Valued(y, cached[y])
      /\ \A y \in DOMAIN cached : y[1] = s =>
            \E i \in 1 .. Len(r) : /\ r[i] = Valued(y, cached[y])
                                   /\ \A j \in 1 .. Len(r) : r[j].topic = y => j = i
  BY ReplayOf DEF StreamInv
<1>6. g.queue \o r \in Seq(Message) /\ g.slots \subseteq Signals
  BY <1>1, <1>5, ConcatProperties DEF Handler
<1>7. /\ h \in Handler /\ h.dead = g.dead /\ h.wire = g.wire
      /\ h.slots = g.slots \union {s} /\ h.queue = g.queue \o r
      /\ h.at = IF s = NumSignals THEN "mark" ELSE "connect"
  <2>1. (IF AllConnected(s) THEN "mark" ELSE g.at) = IF s = NumSignals THEN "mark" ELSE "connect"
    BY <1>1 DEF AllConnected
  <2> HIDE DEF g
  <2> QED BY <1>1, <1>3, <1>6, <2>1 DEF Handler, AllConnected
<1>8. Step(c, h)
  BY <1>4
<1> HIDE DEF h
<1>9. InTurn(h)
  BY <1>2, <1>3, <1>7 DEF InTurn, Signals
<1>10. h.dead => h.wire = <<>>
  BY <1>7 DEF StreamInv
<1>11. CASE c # opened \/ g.dead
  <2>1. TypeOK'
    BY <1>1, <1>7, <1>8, StepType DEF StreamInv
  <2> QED BY <1>1, <1>7, <1>8, <1>9, <1>10, <1>11, <2>1, StreamGoesOn
          DEF Step, ServerRest, StreamInv
<1>12. CASE c = opened /\ ~g.dead
  <2> DEFINE p == UnderWay
             q == UnderWay'
  <2>1. Live /\ ClientInv /\ p \in Seq(Message)
    <3>1. Live
      BY <1>12 DEF Live, Streams
    <3> QED BY <3>1, UnderWayType DEF StreamInv
  <2>2. UNCHANGED <<cached, mirror, kept, touched, opened>> /\ call'[opened'] = h
    BY <1>1, <1>8, <1>12 DEF ServerRest, server, history, Step, StreamInv, TypeOK
  <2>3. q = p \o r
    <3>1. q = g.wire \o (g.queue \o r) /\ p = g.wire \o g.queue
      BY <1>7, <1>12, <2>2 DEF UnderWay
    <3> HIDE DEF p, q, g
    <3> QED BY <1>1, <1>5, <3>1, Associative
  <2>4. \A y : y[1] # s => About(r, y) = {}
    <3> SUFFICES ASSUME NEW y, y[1] # s, NEW i \in About(r, y) PROVE FALSE
      OBVIOUS
    <3>1. i \in 1 .. Len(r) /\ r[i].topic = y
      BY <1>5 DEF About
    <3>2. PICK z \in DOMAIN cached : z[1] = s /\ r[i] = Valued(z, cached[z])
      BY <1>5, <3>1
    <3>3. r[i].topic = z
      BY <3>2, MessageParts, Zenon
    <3> QED BY <3>1, <3>2, <3>3
  <2>5. \A y : About(r, y) = {} => About(q, y) = About(p, y)
    <3>1. \A y : About(r, y) = {} => About(p \o r, y) = About(p, y)
      <4> HIDE DEF p
      <4> QED BY <1>5, <2>1, Unrelated
    <3> HIDE DEF p, q
    <3> QED BY <2>3, <3>1
  <2>6. NotYet'
    BY <1>7, <1>12, <2>1, <2>2, <2>4, <2>5 DEF ClientInv, NotYet
  <2>7. AfterMarker'
    <3>1. \A i \in DOMAIN p : p[i] # Marker
      BY <1>1, <1>12, <2>1 DEF ClientInv, AfterMarker
    <3>2. \A i \in 1 .. Len(r) : r[i] # Marker
      <4> SUFFICES ASSUME NEW i \in 1 .. Len(r) PROVE r[i] # Marker
        OBVIOUS
      <4>1. PICK z \in DOMAIN cached : r[i] = Valued(z, cached[z])
        BY <1>5
      <4>2. Valued(z, cached[z]) # Marker
        BY MessageParts
      <4> QED BY <4>1, <4>2
    <3>3. \A i \in DOMAIN q : q[i] # Marker
      <4>1. /\ p \o r \in Seq(Message) /\ Len(p \o r) = Len(p) + Len(r)
            /\ \A i \in 1 .. Len(p) + Len(r) :
                  (p \o r)[i] = IF i <= Len(p) THEN p[i] ELSE r[i - Len(p)]
            /\ DOMAIN p = 1 .. Len(p) /\ Len(p) \in Nat /\ Len(r) \in Nat
        <5> HIDE DEF p
        <5> QED BY <1>5, <2>1, ConcatProperties, LenProperties
      <4>2. DOMAIN (p \o r) = 1 .. Len(p) + Len(r)
        <5> HIDE DEF p
        <5> QED BY <4>1, LenProperties
      <4> HIDE DEF p, q
      <4> QED BY <2>3, <3>1, <3>2, <4>1, <4>2
    <3> QED BY <3>3 DEF AfterMarker
  <2>8. ASSUME NEW y \in Topics, y[1] \in h.slots PROVE Told(y)'
    <3>1. CASE y[1] # s
      <4>1. Told(y) /\ About(r, y) = {}
        BY <1>7, <1>12, <2>1, <2>4, <2>8, <3>1 DEF ClientInv
      <4> QED BY <1>5, <2>1, <2>2, <2>3, <4>1, ToldStill
    <3>2. CASE y[1] = s
      <4>1. About(p, y) = {} /\ (y \in DOMAIN mirror => y \in kept)
        <5>1. y[1] \notin g.slots
          BY <1>2, <1>3, <3>2
        <5> QED BY <1>12, <2>1, <5>1 DEF ClientInv, NotYet
      <4>2. CASE y \in DOMAIN cached
        <5>1. PICK i \in 1 .. Len(r) : /\ r[i] = Valued(y, cached[y])
                                       /\ \A j \in 1 .. Len(r) : r[j].topic = y => j = i
          BY <1>5, <3>2, <4>2
        <5>2. r[i] # Marker /\ r[i].topic = y
          <6>1. Valued(y, cached[y]) # Marker /\ Valued(y, cached[y]).topic = y
            BY MessageParts
          <6> QED BY <5>1, <6>1
        <5>3. LastWord(p \o r, y, r[i])
          <6> HIDE DEF p
          <6> QED BY <1>5, <2>1, <4>1, <5>1, <5>2, ReplayedWord
        <5>4. LastWord(q, y, Valued(y, cached'[y]))
          BY <2>2, <2>3, <5>1, <5>3
        <5> QED BY <2>2, <4>2, <5>4 DEF Told, ArrivesAs
      <4>3. CASE y \notin DOMAIN cached
        <5>1. About(r, y) = {}
          <6> SUFFICES ASSUME NEW i \in About(r, y) PROVE FALSE
            OBVIOUS
          <6>1. i \in 1 .. Len(r) /\ r[i].topic = y
            BY <1>5 DEF About
          <6>2. PICK z \in DOMAIN cached : r[i] = Valued(z, cached[z])
            BY <1>5, <6>1
          <6>3. r[i].topic = z
            BY <6>2, MessageParts, Zenon
          <6> QED BY <4>3, <6>1, <6>2, <6>3
        <5>2. About(q, y) = {}
          BY <2>5, <4>1, <5>1
        <5> QED BY <2>2, <4>1, <4>3, <5>2 DEF Told, Leaves
      <4> QED BY <4>2, <4>3
    <3> QED BY <3>1, <3>2
  <2>9. ClientInv'
    BY <1>7, <2>2, <2>6, <2>7, <2>8 DEF ClientInv
  <2> QED BY <1>1, <1>7, <1>8, <1>9, <1>10, <1>12, <2>9, ClientStep
<1> QED BY <1>11, <1>12

LEMMA MarkInv ==
    ASSUME StreamInv, NEW c \in Streams, Mark(c) PROVE StreamInv'
<1> USE SignalStreamAssumption
<1> DEFINE g == call[c]
           h == [g EXCEPT !.queue = Append(@, Marker), !.at = "get"]
           r == <<Marker>>
<1>1. /\ g \in Handler /\ g.at = "mark" /\ ServerRest /\ Step(c, h)
      /\ g.queue \in Seq(Message) /\ g.wire \in Seq(Message)
  BY CallType DEF StreamInv, Mark, Serving
<1>2. Append(g.queue, Marker) \in Seq(Message)
  <2> HIDE DEF g
  <2> QED BY <1>1, MessageType, AppendProperties
<1>3. /\ h \in Handler /\ h.dead = g.dead /\ h.wire = g.wire
      /\ h.slots = g.slots /\ h.queue = Append(g.queue, Marker) /\ h.at = "get"
  <2> HIDE DEF g
  <2> QED BY <1>1, <1>2 DEF Handler
<1> HIDE DEF h
<1>4. InTurn(h) /\ (h.dead => h.wire = <<>>)
  BY <1>1, <1>3 DEF StreamInv, InTurn
<1>5. CASE c # opened \/ g.dead
  <2>1. TypeOK'
    BY <1>1, <1>3, StepType DEF StreamInv
  <2> QED BY <1>1, <1>3, <1>4, <1>5, <2>1, StreamGoesOn DEF Step, ServerRest, StreamInv
<1>6. CASE c = opened /\ ~g.dead
  <2> DEFINE p == UnderWay
             q == UnderWay'
  <2>1. Live /\ ClientInv /\ p \in Seq(Message)
    <3>1. Live
      BY <1>6 DEF Live, Streams
    <3> QED BY <3>1, UnderWayType DEF StreamInv
  <2>2. UNCHANGED <<cached, mirror, kept, touched, opened>> /\ call'[opened'] = h
    BY <1>1, <1>6 DEF ServerRest, server, history, Step, StreamInv, TypeOK
  <2>3. r \in Seq(Message) /\ \A y : About(r, y) = {}
    BY MessageType, OneMessage
  <2>4. q = p \o r /\ q = Append(p, Marker)
    <3>1. q = g.wire \o Append(g.queue, Marker) /\ p = g.wire \o g.queue
      BY <1>3, <1>6, <2>2 DEF UnderWay
    <3>2. Append(g.queue, Marker) = g.queue \o r /\ Append(p, Marker) = p \o r
      <4>1. \A t \in Seq(Message) : Append(t, Marker) = t \o <<Marker>>
        BY MessageType, AppendIsConcat
      <4> QED BY <1>1, <2>1, <4>1
    <3> HIDE DEF p, q, g, r
    <3>3. (g.wire \o g.queue) \o r = g.wire \o (g.queue \o r)
      BY <1>1, <2>3, Associative
    <3> QED BY <3>1, <3>2, <3>3
  <2>5. \A y : About(q, y) = About(p, y)
    <3>1. \A y : About(p \o r, y) = About(p, y)
      <4> HIDE DEF p, r
      <4> QED BY <2>1, <2>3, Unrelated
    <3> HIDE DEF p, q, r
    <3> QED BY <2>4, <3>1
  <2>6. NotYet'
    BY <1>3, <1>6, <2>1, <2>2, <2>5 DEF ClientInv, NotYet
  <2>7. AfterMarker'
    <3>1. \A i \in DOMAIN p : p[i] # Marker
      BY <1>1, <1>6, <2>1 DEF ClientInv, AfterMarker
    <3>2. /\ DOMAIN q = 1 .. Len(p) + 1 /\ DOMAIN p = 1 .. Len(p) /\ Len(p) \in Nat
          /\ \A i \in 1 .. Len(p) : q[i] = p[i]
      <4>1. \A t \in Seq(Message) :
                /\ DOMAIN Append(t, Marker) = 1 .. Len(t) + 1
                /\ DOMAIN t = 1 .. Len(t) /\ Len(t) \in Nat
                /\ \A i \in 1 .. Len(t) : Append(t, Marker)[i] = t[i]
        BY MessageType, AppendProperties, LenProperties
      <4> HIDE DEF p, q
      <4> QED BY <2>1, <2>4, <4>1
    <3>3. \A y : \A j \in About(q, y) : j \in 1 .. Len(p)
      <4>1. \A y : \A j \in About(p, y) : j \in DOMAIN p
        BY DEF About
      <4> HIDE DEF p, q
      <4> QED BY <2>5, <3>2, <4>1
    <3> HIDE DEF p, q
    <3>4. \A i \in DOMAIN q : q[i] = Marker =>
             \A y : \A j \in About(q, y) : ~(j > i)
      BY <3>1, <3>2, <3>3
    <3> QED BY <1>3, <2>2, <3>4 DEF AfterMarker, q
  <2>8. ASSUME NEW y \in Topics, y[1] \in h.slots PROVE Told(y)'
    <3>1. Told(y)
      BY <1>3, <1>6, <2>1, <2>8 DEF ClientInv
    <3> HIDE DEF r
    <3> QED BY <2>1, <2>2, <2>3, <2>4, <3>1, ToldStill
  <2>9. ClientInv'
    BY <1>3, <2>2, <2>6, <2>7, <2>8 DEF ClientInv
  <2> QED BY <1>1, <1>3, <1>4, <1>6, <2>9, ClientStep
<1> QED BY <1>5, <1>6

-----------------------------------------------------------------------------
(* The client opens a stream and reads *)

LEMMA OpenInv == StreamInv /\ Open => StreamInv'
<1> SUFFICES ASSUME StreamInv, Open PROVE StreamInv'
  OBVIOUS
<1> USE SignalStreamAssumption
<1> DEFINE h == [NewCall EXCEPT !.at = "connect"]
<1>1. /\ h \in Handler /\ h.at = "connect" /\ h.slots = {}
      /\ h.queue = <<>> /\ h.wire = <<>>
  <2>1. /\ NewCall \in Handler /\ NewCall.slots = {}
        /\ NewCall.queue = <<>> /\ NewCall.wire = <<>>
    BY NewCallType DEF NewCall
  <2> QED BY <2>1 DEF Handler
<1> HIDE DEF h
<1>2. /\ opened' = opened + 1 /\ opened' \in Streams /\ thread' = "read" /\ cxt' = "open"
      /\ call' = [call EXCEPT ![opened'] = h]
      /\ kept' = DOMAIN mirror /\ touched' = {}
      /\ UNCHANGED <<cached, emits, keepalive, control, event, mirror>>
  BY DEF Open, Run, Step, server, StreamInv, TypeOK, Streams, h
<1>3. \A c \in Streams : call'[c] = IF c = opened' THEN h ELSE call[c]
  BY <1>2 DEF StreamInv, TypeOK
<1>4. TypeOK'
  <2>1. call' \in [Streams -> Handler]
    BY <1>1, <1>2 DEF StreamInv, TypeOK
  <2>2. kept' \subseteq Topics
    BY <1>2, MapShape DEF StreamInv, TypeOK
  <2>3. opened' \in 0 .. MaxStreams
    BY <1>2 DEF Streams
  <2> QED BY <1>2, <2>1, <2>2, <2>3 DEF StreamInv, TypeOK
<1>5. InTurn(h)
  <2>1. h.slots = 1 .. 0 /\ 0 \in 0 .. NumSignals - 1
    BY <1>1
  <2> QED BY <1>1, <2>1 DEF InTurn
<1>6. ClientInv'
  <2> DEFINE q == UnderWay'
  <2>1. call'[opened'] = h
    BY <1>2, <1>3
  <2>2. DOMAIN q = {}
    <3>1. q = h.wire \o h.queue
      BY <2>1 DEF UnderWay
    <3> HIDE DEF q
    <3> QED BY <1>1, <3>1
  <2>3. \A x : About(q, x) = {}
    BY <2>2 DEF About
  <2>4. NotYet' /\ AfterMarker'
    BY <1>2, <2>2, <2>3 DEF NotYet, AfterMarker
  <2> QED BY <1>1, <2>1, <2>4 DEF ClientInv
<1>7. opened' > 0
  BY <1>2 DEF Streams
<1>8. \A c \in Streams : InTurn(call'[c]) /\ (call'[c].dead => call'[c].wire = <<>>)
  BY <1>1, <1>3, <1>5 DEF StreamInv
<1> QED BY <1>4, <1>6, <1>7, <1>8 DEF StreamInv

\* The receive thread reads from the live stream what is first under way.
LEMMA ReadFirst ==
    ASSUME StreamInv, Read
    PROVE  /\ opened \in Streams /\ Live /\ ClientInv
           /\ call[opened].wire \in Seq(Message) /\ call[opened].queue \in Seq(Message)
           /\ UnderWay \in Seq(Message) /\ UnderWay # <<>>
           /\ UnderWay[1] = Head(call[opened].wire) /\ UnderWay[1] \in Message
           /\ UnderWay' = Tail(UnderWay)
           /\ mirror' = Process(mirror, UnderWay[1])
<1> USE SignalStreamAssumption
<1>1. thread = "read" /\ call[opened].wire # <<>> /\ opened > 0
  BY DEF Read, StreamInv
<1>2. opened \in Streams
  BY <1>1 DEF StreamInv, TypeOK, Streams
<1>3. Live /\ ClientInv
  BY <1>1, <1>2 DEF Live, StreamInv
<1> DEFINE g == call[opened]
           h == [g EXCEPT !.wire = Tail(@)]
<1>4. g \in Handler /\ g.wire \in Seq(Message) /\ g.queue \in Seq(Message)
  BY <1>2, CallType DEF StreamInv
<1>5. h.wire = Tail(g.wire) /\ h.queue = g.queue
  BY <1>4 DEF Handler
<1>6. call'[opened'] = h
  BY <1>2 DEF Read, Step, StreamInv, TypeOK
<1> HIDE DEF h
<1>7. UnderWay = g.wire \o g.queue /\ UnderWay' = Tail(g.wire) \o g.queue
  BY <1>5, <1>6 DEF UnderWay
<1>8. /\ g.wire \o g.queue \in Seq(Message) /\ g.wire \o g.queue # <<>>
      /\ Head(g.wire) = (g.wire \o g.queue)[1]
      /\ Tail(g.wire) \o g.queue = Tail(g.wire \o g.queue)
      /\ Head(g.wire) \in Message
  <2>1. g.wire # <<>>
    BY <1>1
  <2> HIDE DEF g
  <2> QED BY <1>4, <2>1, FirstRead, HeadTailProperties
<1>9. mirror' = Process(mirror, Head(g.wire))
  BY DEF Read
<1> QED BY <1>2, <1>3, <1>4, <1>7, <1>8, <1>9

LEMMA ReadInv == StreamInv /\ Read => StreamInv'
<1> SUFFICES ASSUME StreamInv, Read PROVE StreamInv'
  OBVIOUS
<1> USE SignalStreamAssumption
<1> DEFINE g == call[opened]
           h == [g EXCEPT !.wire = Tail(@)]
           p == UnderWay
           q == UnderWay'
           msg == UnderWay[1]
<1>1. /\ opened \in Streams /\ Live /\ ClientInv /\ p \in Seq(Message) /\ p # <<>>
      /\ msg = p[1] /\ msg \in Message /\ q = Tail(p) /\ mirror' = Process(mirror, msg)
      /\ g.wire \in Seq(Message) /\ g.wire # <<>>
  BY ReadFirst DEF Read
<1>2. /\ UNCHANGED <<cached, emits, opened, thread, keepalive, cxt, control, kept, touched>>
      /\ call' = [call EXCEPT ![opened] = h]
  BY DEF Read, Step, server, history
<1>3. /\ h \in Handler /\ h.at = g.at /\ h.slots = g.slots /\ h.dead = g.dead
      /\ h.wire = Tail(g.wire)
  <2>1. g \in Handler
    BY <1>1, CallType DEF StreamInv
  <2>2. Tail(g.wire) \in Seq(Message)
    <3> HIDE DEF g
    <3> QED BY <1>1, HeadTailProperties
  <2> HIDE DEF g
  <2> QED BY <2>1, <2>2 DEF Handler
<1> HIDE DEF h
<1>4. \A c \in Streams : call'[c] = IF c = opened THEN h ELSE call[c]
  BY <1>2 DEF StreamInv, TypeOK
<1>5. /\ mirror' \in Map
      /\ \A x : msg = Marker \/ msg.topic # x =>
            /\ x \in DOMAIN mirror' <=> x \in DOMAIN mirror
            /\ x \in DOMAIN mirror => mirror'[x] = mirror[x]
      /\ \A x, v : msg = Valued(x, v) => x \in DOMAIN mirror' /\ mirror'[x] = v
      /\ \A x : msg = Removal(x) => x \notin DOMAIN mirror'
  <2>1. mirror \in Map
    BY DEF StreamInv, TypeOK
  <2> HIDE DEF msg
  <2> QED BY <1>1, <2>1, Processed
<1>6. TypeOK'
  <2>1. call' \in [Streams -> Handler]
    BY <1>2, <1>3 DEF StreamInv, TypeOK
  <2>2. event' \in [value : BOOLEAN, ready : BOOLEAN]
    BY DEF Read, StreamInv, TypeOK
  <2> QED BY <1>2, <1>5, <2>1, <2>2 DEF StreamInv, TypeOK
<1>7. \A c \in Streams : InTurn(call'[c]) /\ (call'[c].dead => call'[c].wire = <<>>)
  <2>1. InTurn(h)
    BY <1>1, <1>3 DEF StreamInv, InTurn
  <2>2. ~h.dead
    BY <1>1, <1>3 DEF Live
  <2> QED BY <1>4, <2>1, <2>2 DEF StreamInv
<1>8. ClientInv'
  <2>1. call'[opened'] = h
    BY <1>1, <1>2, <1>4
  <2>2. /\ \A x : (msg = Marker \/ msg.topic # x) =>
                 /\ About(p, x) = {} => About(q, x) = {}
                 /\ \A m : LastWord(p, x, m) => LastWord(q, x, m)
        /\ \A x, m : LastWord(p, x, m) =>
                 LastWord(q, x, m) \/ (About(q, x) = {} /\ msg = m)
    <3>1. /\ \A x : (p[1] = Marker \/ p[1].topic # x) =>
                 /\ About(p, x) = {} => About(Tail(p), x) = {}
                 /\ \A m : LastWord(p, x, m) => LastWord(Tail(p), x, m)
          /\ \A x, m : LastWord(p, x, m) =>
                 LastWord(Tail(p), x, m) \/ (About(Tail(p), x) = {} /\ p[1] = m)
      <4> HIDE DEF p
      <4> QED BY <1>1, Taken
    <3> HIDE DEF p, q, msg
    <3> QED BY <1>1, <3>1
  <2>3. \A x : About(p, x) = {} => msg = Marker \/ msg.topic # x
    <3>1. 1 \in DOMAIN p
      <4> HIDE DEF p
      <4> QED BY <1>1, EmptySeq, LenProperties
    <3> QED BY <1>1, <3>1 DEF About
  <2>4. NotYet'
    BY <1>1, <1>2, <1>3, <1>5, <2>1, <2>2, <2>3 DEF ClientInv, NotYet
  <2>5. AfterMarker'
    <3>1. /\ DOMAIN q = 1 .. Len(q) /\ DOMAIN p = 1 .. Len(p) /\ Len(q) = Len(p) - 1
          /\ Len(p) \in Nat \ {0} /\ \A i \in 1 .. Len(q) : q[i] = p[i + 1]
      <4> HIDE DEF p, q
      <4> QED BY <1>1, HeadTailProperties, LenProperties, EmptySeq
    <3> HIDE DEF p, q
    <3>2. \A x : \A j \in About(q, x) : j \in Nat /\ j + 1 \in About(p, x)
      BY <3>1 DEF About
    <3>3. \A i \in DOMAIN q : q[i] = Marker =>
             /\ g.at \in {"get", "written"}
             /\ \A x \in Topics : \A j \in About(q, x) : j > i => x \in touched
      <4> SUFFICES ASSUME NEW i \in DOMAIN q, q[i] = Marker
                   PROVE  /\ g.at \in {"get", "written"}
                          /\ \A x \in Topics : \A j \in About(q, x) : j > i => x \in touched
        OBVIOUS
      <4>1. i \in Nat /\ i + 1 \in DOMAIN p /\ p[i + 1] = Marker
        BY <3>1
      <4>2. /\ g.at \in {"get", "written"}
            /\ \A x \in Topics : \A j \in About(p, x) : j > i + 1 => x \in touched
        BY <1>1, <4>1 DEF ClientInv, AfterMarker, p
      <4>3. \A x \in Topics : \A j \in About(q, x) :
                j > i => j + 1 \in About(p, x) /\ j + 1 > i + 1
        BY <3>2, <4>1
      <4> QED BY <4>2, <4>3
    <3> QED BY <1>2, <1>3, <2>1, <3>3 DEF AfterMarker, q
  <2>6. ASSUME NEW x \in Topics, x[1] \in h.slots PROVE Told(x)'
    <3>1. Told(x)
      BY <1>1, <1>3, <2>6 DEF ClientInv
    <3>2. CASE x \in DOMAIN cached
      <4> DEFINE v == cached[x]
      <4>1. LastWord(p, x, Valued(x, v)) \/ (About(p, x) = {} /\ x \in DOMAIN mirror /\ mirror[x] = v)
        BY <3>1, <3>2 DEF Told, ArrivesAs
      <4>2. LastWord(q, x, Valued(x, v)) \/ (About(q, x) = {} /\ x \in DOMAIN mirror' /\ mirror'[x] = v)
        <5> HIDE DEF p, q, msg, v
        <5> QED BY <1>5, <2>2, <2>3, <4>1
      <4> QED BY <1>2, <3>2, <4>2 DEF Told, ArrivesAs
    <3>3. CASE x \notin DOMAIN cached
      <4>1. \/ LastWord(p, x, Removal(x))
            \/ About(p, x) = {} /\ x \notin DOMAIN mirror
            \/ About(p, x) = {} /\ x \in kept
        BY <3>1, <3>3 DEF Told, Leaves
      <4>2. \/ LastWord(q, x, Removal(x))
            \/ About(q, x) = {} /\ x \notin DOMAIN mirror'
            \/ About(q, x) = {} /\ x \in kept
        <5> HIDE DEF p, q, msg
        <5> QED BY <1>5, <2>2, <2>3, <4>1
      <4> QED BY <1>2, <3>3, <4>2 DEF Told, Leaves
    <3> QED BY <3>2, <3>3
  <2> QED BY <1>1, <1>3, <2>1, <2>4, <2>5, <2>6 DEF ClientInv
<1> QED BY <1>2, <1>6, <1>7, <1>8 DEF StreamInv

-----------------------------------------------------------------------------
(* The theorems *)

LEMMA StreamNextInv == StreamInv /\ [Next]_vars => StreamInv'
<1> SUFFICES ASSUME StreamInv, [Next]_vars PROVE StreamInv'
  OBVIOUS
<1>1. ASSUME NEW c \in Streams, Serve(c) PROVE StreamInv'
  BY <1>1, ConnectInv, MarkInv, WriteInv, TestCancelledInv, DisconnectInv DEF Serve
<1>2. CASE Emit \/ Break \/ Restart \/ Cancel
  BY <1>2, EmitInv, BreakInv, RestartInv, CancelInv
<1>3. CASE KeepStreaming
  BY <1>3, OpenInv, ReadInv, ClientRestsInv DEF KeepStreaming
<1>4. CASE Start \/ Stop \/ StopIdle \/ Join \/ UNCHANGED vars
  BY <1>4, ClientRestsInv
<1> QED BY <1>1, <1>2, <1>3, <1>4 DEF Next

\* Every variable keeps its type, whatever breaks and restarts.
THEOREM StreamTypes == Spec => []TypeOK
<1>1. StreamInv => TypeOK
  BY DEF StreamInv
<1> QED BY StreamInitInv, StreamNextInv, <1>1, PTL DEF Spec

\* No emission falls between the replay of the cache and the stream (SignalQueue,
\* stream_signals()): what is under way ends with the server's word on every topic.
THEOREM Missed == Spec => []NothingMissed
<1> QED BY StreamInitInv, StreamNextInv, ClientMisses, PTL DEF Spec

\* When the marker is received, the mirror holds the server's value of every topic that
\* was not emitted since the stream was opened (wait_complete()).
THEOREM Complete == Spec => CompleteMeansReplayed
<1>1. ASSUME StreamInv, [Next]_vars, Read, Head(call[opened].wire) = Marker
      PROVE  CaughtUpOn(DOMAIN cached \ touched)
  <2> DEFINE p == UnderWay
  <2>1. ClientInv /\ p \in Seq(Message) /\ p # <<>> /\ p[1] = Marker
    BY <1>1, ReadFirst
  <2>2. 1 \in DOMAIN p
    <3> HIDE DEF p
    <3> QED BY <2>1, EmptySeq, LenProperties
  <2>3. /\ call[opened].at \in {"get", "written"}
        /\ \A x \in Topics : \A j \in About(p, x) : j > 1 => x \in touched
    BY <2>1, <2>2 DEF ClientInv, AfterMarker
  <2>4. call[opened].slots = Signals
    <3>1. opened \in Streams
      BY <1>1, ReadFirst
    <3> QED BY <1>1, <2>3, <3>1 DEF StreamInv, InTurn
  <2>5. DOMAIN cached \subseteq Topics
    BY <1>1, MapShape DEF StreamInv, TypeOK
  <2>6. ASSUME NEW x \in DOMAIN cached \ touched
        PROVE  x \in DOMAIN mirror /\ mirror[x] = cached[x]
    <3>1. x \in Topics /\ x[1] \in Signals
      BY <2>5 DEF Topics
    <3>2. ArrivesAs(x, cached[x])
      BY <2>1, <2>4, <3>1 DEF ClientInv, Told
    <3>3. About(p, x) = {}
      <4> SUFFICES ASSUME NEW j \in About(p, x) PROVE FALSE
        OBVIOUS
      <4>1. j \in DOMAIN p /\ p[j] # Marker
        BY DEF About
      <4>2. j \in Nat /\ j > 1
        <5> HIDE DEF p
        <5> QED BY <2>1, <4>1, LenProperties
      <4> QED BY <2>3, <3>1, <4>2
    <3> QED BY <3>2, <3>3 DEF ArrivesAs, LastWord
  <2> QED BY <2>6 DEF CaughtUpOn
<1>2. StreamInv /\ [Next]_vars =>
          [Read /\ Head(call[opened].wire) = Marker => CaughtUpOn(DOMAIN cached \ touched)]_vars
  BY <1>1
<1> QED BY StreamInitInv, StreamNextInv, <1>2, PTL DEF Spec, CompleteMeansReplayed

===============================================================================
