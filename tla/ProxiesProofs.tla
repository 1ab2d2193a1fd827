----------------------------- MODULE ProxiesProofs -----------------------------
(***************************************************************************)
(* The two mirrors of what a server has, for any names, requests of other  *)
(* clients and interleavings: the board of local switches is the server's  *)
(* once everything was received, and so is a client's store of signals.    *)
(***************************************************************************)
EXTENDS SwitchProxy, WatchSignals, FiniteSetTheorems, SequenceTheorems, NaturalsInduction, TLAPS

-----------------------------------------------------------------------------
(***************************************************************************)
(* The board of local switches                                             *)
(***************************************************************************)
(* The invariant *)

\* The local switch once the message in hand is applied.
Updated(s, m) == IF m.field = "specification" THEN [s EXCEPT !.spec = m.value]
                 ELSE [s EXCEPT !.status = m.value]
Seen(h) == IF reader.msg # Nil /\ reader.switch = h THEN Updated(local[h], reader.msg) ELSE local[h]

\* Each map has switches under their own names; whoever holds the lock is not idle.
ServerShape ==
    /\ stream \in Seq(Signals)
    /\ DOMAIN board \subseteq SwitchNames
    /\ \A n \in DOMAIN board : board[n] \in Switch /\ board[n].name = n
ClientShape ==
    /\ \E k \in Nat : DOMAIN local = 1 .. k
    /\ DOMAIN local \subseteq Handles
    /\ \A h \in DOMAIN local : local[h] \in Switch
    /\ DOMAIN switches \subseteq SwitchNames
    /\ \A n \in DOMAIN switches : switches[n] \in DOMAIN local /\ local[switches[n]].name = n
BoardShape == ServerShape /\ ClientShape

ThreadInv ==
    /\ app \in [pc : {"idle", "add", "register", "initial"}, name : SwitchNames \cup {Nil}]
    /\ \/ lock = "app" /\ app.pc # "idle"
       \/ lock = Nil /\ app.pc = "idle"
    /\ app.pc \in {"add", "register"} => app.name \in SwitchNames \ DOMAIN switches
    /\ app.pc = "initial" => held # Nil
    /\ held \in DOMAIN local \cup {Nil}
    /\ reader \in [switch : DOMAIN local \cup {Nil}, msg : Signals \cup {Nil}]
    /\ reader.msg # Nil => reader.switch # Nil

\* What the application has been shown, and what it works with.
ShownInv ==
    /\ DOMAIN told \subseteq DOMAIN local
    /\ \A h \in DOMAIN told : told[h] = View(local[h])
    /\ HeldIsRegistered

\* The places in the stream that speak of a switch: of its specification, of its end, of
\* its state, which begins with an addition and ends with a removal.
Says(i, n) == i \in DOMAIN stream /\ stream[i].key = n
SpecAt(i, n) == Says(i, n) /\ stream[i].field = "specification"
GoneAt(i, n) == SpecAt(i, n) /\ stream[i].action = "REMOVAL"
AddAt(i, n) == SpecAt(i, n) /\ stream[i].action = "ADDITION"
StatusAt(i, n) == Says(i, n) /\ (stream[i].field = "status" \/ stream[i].action # "UPDATE")

\* The last word on a specification is the server's, or the client has it already.
SpecInv(n) ==
    /\ \A i \in Nat : SpecAt(i, n) /\ (\A j \in Nat : SpecAt(j, n) => j <= i) =>
           IF stream[i].action = "REMOVAL" THEN n \notin DOMAIN board
           ELSE n \in DOMAIN board /\ board[n].spec = stream[i].value
    /\ (\A i \in Nat : ~SpecAt(i, n)) =>
           /\ n \in DOMAIN board => n \in DOMAIN switches /\ Seen(switches[n]).spec = board[n].spec
           /\ n \in DOMAIN switches \ DOMAIN board =>
                  n \in phantoms /\ Seen(switches[n]).status = "INITIAL"

\* So is the last word on a state.
StatusInv(n) ==
    /\ \A i \in Nat : StatusAt(i, n) /\ (\A j \in Nat : StatusAt(j, n) => j <= i) =>
           IF stream[i].action = "REMOVAL" THEN n \notin DOMAIN board
           ELSE /\ n \in DOMAIN board
                /\ board[n].status = IF stream[i].field = "status" THEN stream[i].value ELSE "INITIAL"
    /\ (\A i \in Nat : ~StatusAt(i, n)) /\ n \in DOMAIN board =>
           n \in DOMAIN switches /\ Seen(switches[n]).status = board[n].status

\* What is said of a switch that is gone comes before its end, and what is said before an
\* addition belongs to a switch that has ended in between.
OrderInv(n) ==
    /\ n \notin DOMAIN board => \A i \in Nat : Says(i, n) => \E j \in Nat : j >= i /\ GoneAt(j, n)
    /\ \A i \in Nat : Says(i, n) /\ stream[i].field = "status" /\ stream[i].action = "REMOVAL" =>
           \E j \in Nat : j > i /\ GoneAt(j, n)
    /\ \A i \in Nat : AddAt(i, n) =>
           /\ \A j \in Nat : j < i /\ Says(j, n) => \E k \in Nat : j <= k /\ k < i /\ GoneAt(k, n)
           /\ (\A j \in Nat : j < i => ~Says(j, n)) /\ n \in DOMAIN switches =>
                  Seen(switches[n]).status = "INITIAL"

\* A name that the application registers is on the server's board, or was, or is an alias.
RegisterInv ==
    app.pc = "register" =>
        \/ app.name \in DOMAIN board \cup phantoms
        \/ \E i \in Nat : GoneAt(i, app.name)

FollowInv(n) == SpecInv(n) /\ StatusInv(n) /\ OrderInv(n)
BoardInv == BoardShape /\ ThreadInv /\ ShownInv /\ RegisterInv /\ \A n \in SwitchNames : FollowInv(n)

-----------------------------------------------------------------------------
(* The server's steps and the reader's, for a name that they are not about *)

\* The messages about m are those before, d places further to the front.
LEMMA Elsewhere ==
    ASSUME NEW m \in SwitchNames, FollowInv(m), NEW d \in {0, 1},
           \A i \in Nat : Says(i, m)' <=> Says(i + d, m),
           \A i \in Nat : Says(i, m) => i > d,
           \A i \in Nat : Says(i + d, m) => stream'[i] = stream[i + d],
           m \in phantoms => m \in phantoms',
           m \in DOMAIN board' <=> m \in DOMAIN board,
           m \in DOMAIN board => board'[m] = board[m],
           m \in DOMAIN switches' <=> m \in DOMAIN switches,
           m \in DOMAIN switches => Seen(switches[m])' = Seen(switches[m])
    PROVE  FollowInv(m)'
<1>1. \A i \in Nat : /\ i + d \in Nat
                     /\ SpecAt(i, m)' <=> SpecAt(i + d, m)
                     /\ GoneAt(i, m)' <=> GoneAt(i + d, m)
                     /\ AddAt(i, m)' <=> AddAt(i + d, m)
                     /\ StatusAt(i, m)' <=> StatusAt(i + d, m)
  BY DEF SpecAt, GoneAt, AddAt, StatusAt
<1>2. \A i \in Nat : /\ SpecAt(i, m) => Says(i, m)
                     /\ GoneAt(i, m) => Says(i, m)
                     /\ AddAt(i, m) => Says(i, m)
                     /\ StatusAt(i, m) => Says(i, m)
  BY DEF SpecAt, GoneAt, AddAt, StatusAt
<1>3. \A j \in Nat : Says(j, m) => j - d \in Nat /\ (j - d) + d = j
  OBVIOUS
<1>4. SpecInv(m)'
  <2>1. ASSUME NEW i \in Nat, SpecAt(i, m)', \A j \in Nat : SpecAt(j, m)' => j <= i
        PROVE  IF stream'[i].action = "REMOVAL" THEN m \notin DOMAIN board'
               ELSE m \in DOMAIN board' /\ board'[m].spec = stream'[i].value
    <3>1. SpecAt(i + d, m) /\ stream'[i] = stream[i + d] /\ i + d \in Nat
      BY <1>1, <1>2, <2>1
    <3>2. ASSUME NEW j \in Nat, SpecAt(j, m) PROVE j <= i + d
      <4>1. j - d \in Nat /\ SpecAt(j - d, m)'
        BY <1>1, <1>2, <1>3, <3>2
      <4> QED BY <2>1, <4>1
    <3> QED BY <3>1, <3>2 DEF FollowInv, SpecInv
  <2>2. ASSUME \A i \in Nat : ~SpecAt(i, m)' PROVE \A i \in Nat : ~SpecAt(i, m)
    BY <1>1, <1>2, <1>3, <2>2
  <2> QED BY <2>1, <2>2 DEF FollowInv, SpecInv
<1>5. StatusInv(m)'
  <2>1. ASSUME NEW i \in Nat, StatusAt(i, m)', \A j \in Nat : StatusAt(j, m)' => j <= i
        PROVE  IF stream'[i].action = "REMOVAL" THEN m \notin DOMAIN board'
               ELSE /\ m \in DOMAIN board'
                    /\ board'[m].status = IF stream'[i].field = "status" THEN stream'[i].value ELSE "INITIAL"
    <3>1. StatusAt(i + d, m) /\ stream'[i] = stream[i + d] /\ i + d \in Nat
      BY <1>1, <1>2, <2>1
    <3>2. ASSUME NEW j \in Nat, StatusAt(j, m) PROVE j <= i + d
      <4>1. j - d \in Nat /\ StatusAt(j - d, m)'
        BY <1>1, <1>2, <1>3, <3>2
      <4> QED BY <2>1, <4>1
    <3> QED BY <3>1, <3>2 DEF FollowInv, StatusInv
  <2>2. ASSUME \A i \in Nat : ~StatusAt(i, m)' PROVE \A i \in Nat : ~StatusAt(i, m)
    BY <1>1, <1>2, <1>3, <2>2
  <2> QED BY <2>1, <2>2 DEF FollowInv, StatusInv
<1>6. OrderInv(m)'
  <2>1. ASSUME m \notin DOMAIN board', NEW i \in Nat, Says(i, m)'
        PROVE  \E j \in Nat : j >= i /\ GoneAt(j, m)'
    <3>1. PICK j \in Nat : j >= i + d /\ GoneAt(j, m)
      BY <1>1, <2>1 DEF FollowInv, OrderInv
    <3>2. j - d \in Nat /\ GoneAt(j - d, m)' /\ j - d >= i
      BY <1>1, <1>2, <1>3, <3>1
    <3> QED BY <3>2
  <2>2. ASSUME NEW i \in Nat, Says(i, m)', stream'[i].field = "status", stream'[i].action = "REMOVAL"
        PROVE  \E j \in Nat : j > i /\ GoneAt(j, m)'
    <3>1. PICK j \in Nat : j > i + d /\ GoneAt(j, m)
      BY <1>1, <2>2 DEF FollowInv, OrderInv
    <3>2. j - d \in Nat /\ GoneAt(j - d, m)' /\ j - d > i
      BY <1>1, <1>2, <1>3, <3>1
    <3> QED BY <3>2
  <2>3. ASSUME NEW i \in Nat, AddAt(i, m)', NEW j \in Nat, j < i, Says(j, m)'
        PROVE  \E k \in Nat : j <= k /\ k < i /\ GoneAt(k, m)'
    <3>1. PICK k \in Nat : j + d <= k /\ k < i + d /\ GoneAt(k, m)
      BY <1>1, <2>3 DEF FollowInv, OrderInv
    <3>2. k - d \in Nat /\ GoneAt(k - d, m)' /\ j <= k - d /\ k - d < i
      BY <1>1, <1>2, <1>3, <3>1
    <3> QED BY <3>2
  <2>4. ASSUME NEW i \in Nat, AddAt(i, m)', \A j \in Nat : j < i => ~Says(j, m)', m \in DOMAIN switches'
        PROVE  Seen(switches[m])'.status = "INITIAL"
    <3>1. AddAt(i + d, m) /\ i + d \in Nat
      BY <1>1, <2>4
    <3>2. ASSUME NEW j \in Nat, j < i + d PROVE ~Says(j, m)
      BY <1>3, <2>4, <3>2
    <3> QED BY <2>4, <3>1, <3>2 DEF FollowInv, OrderInv
  <2> QED BY <2>1, <2>2, <2>3, <2>4 DEF OrderInv
<1> QED BY <1>4, <1>5, <1>6 DEF FollowInv

-----------------------------------------------------------------------------
(* What the server sends *)

LEMMA Sent ==
    ASSUME BoardShape, NEW n \in SwitchNames, NEW s \in Seq(Signals),
           \A i \in 1 .. Len(s) : s[i].key = n, stream' = stream \o s
    PROVE  /\ Len(stream) \in Nat /\ Len(s) \in Nat /\ stream' \in Seq(Signals)
           /\ \A i \in Nat : Says(i, n)' <=> Says(i, n) \/ (Len(stream) < i /\ i <= Len(stream) + Len(s))
           /\ \A m : \A i \in Nat : Says(i, m) => i <= Len(stream) /\ stream'[i] = stream[i]
           /\ \A m : \A i \in Nat : m # n => (Says(i, m)' <=> Says(i, m))
           /\ \A i \in 1 .. Len(s) : stream'[Len(stream) + i] = s[i]
<1> DEFINE L == Len(stream)
<1>1. /\ stream \in Seq(Signals) /\ L \in Nat /\ Len(s) \in Nat
      /\ DOMAIN stream = 1 .. L /\ DOMAIN s = 1 .. Len(s)
  BY DEF BoardShape, ServerShape
<1> HIDE DEF L
<1>2. /\ stream \o s \in Seq(Signals) /\ Len(stream \o s) = L + Len(s)
      /\ DOMAIN (stream \o s) = 1 .. L + Len(s)
      /\ \A i \in 1 .. L + Len(s) : (stream \o s)[i] = IF i <= L THEN stream[i] ELSE s[i - L]
  BY <1>1 DEF L
<1>3. \A i \in Nat : i <= L /\ i > 0 => stream'[i] = stream[i]
  BY <1>1, <1>2
<1>4. \A i \in 1 .. Len(s) : stream'[L + i] = s[i]
  <2> SUFFICES ASSUME NEW i \in 1 .. Len(s) PROVE stream'[L + i] = s[i]
    OBVIOUS
  <2>1. L + i \in 1 .. L + Len(s) /\ ~(L + i <= L) /\ (L + i) - L = i
    BY <1>1
  <2> QED BY <1>2, <2>1
<1>5. \A i \in Nat : L < i /\ i <= L + Len(s) => stream'[i].key = n
  <2> SUFFICES ASSUME NEW i \in Nat, L < i, i <= L + Len(s) PROVE stream'[i].key = n
    OBVIOUS
  <2>1. i - L \in 1 .. Len(s) /\ L + (i - L) = i
    BY <1>1
  <2> QED BY <1>4, <2>1
<1>6. ASSUME NEW i \in Nat, NEW m
      PROVE  /\ Says(i, m) => i <= L /\ stream'[i] = stream[i]
             /\ Says(i, m)' <=> Says(i, m) \/ (L < i /\ i <= L + Len(s) /\ m = n)
  <2>1. i \in DOMAIN stream <=> 0 < i /\ i <= L
    BY <1>1
  <2>2. i \in DOMAIN stream' <=> 0 < i /\ i <= L + Len(s)
    BY <1>2
  <2>3. CASE i <= L
    BY <1>1, <1>3, <2>1, <2>2, <2>3 DEF Says
  <2>4. CASE L < i
    BY <1>1, <1>5, <2>1, <2>2, <2>4 DEF Says
  <2>5. i <= L \/ L < i
    BY <1>1
  <2> QED BY <2>3, <2>4, <2>5
<1>7. \A i \in Nat : Says(i, n)' <=> Says(i, n) \/ (L < i /\ i <= L + Len(s))
  BY <1>6
<1>8. \A m : \A i \in Nat : Says(i, m) => i <= L /\ stream'[i] = stream[i]
  BY <1>6
<1>9. \A m : \A i \in Nat : m # n => (Says(i, m)' <=> Says(i, m))
  BY <1>6
<1>a. stream' \in Seq(Signals)
  BY <1>2
<1> QED BY <1>1, <1>4, <1>7, <1>8, <1>9, <1>a DEF L

LEMMA AddSent ==
    ASSUME BoardShape, NEW n \in SwitchNames, FollowInv(n), n \notin DOMAIN board,
           stream' = stream \o <<Signal("specification", "ADDITION", n, Spec0)>>,
           n \in DOMAIN board', board'[n] = Blank(n), UNCHANGED <<switches, local, reader>>
    PROVE  FollowInv(n)'
<1> DEFINE m == Signal("specification", "ADDITION", n, Spec0)
<1>1. m \in Signals /\ m.key = n /\ m.field = "specification" /\ m.action = "ADDITION" /\ m.value = Spec0
  BY DEF Signal, Signals, Spec0, Specs
<1> HIDE DEF m
<1>2. PICK L : L = Len(stream)
  OBVIOUS
<1>3. PICK s : s = <<m>>
  OBVIOUS
<1>4. /\ s \in Seq(Signals) /\ Len(s) = 1 /\ \A i \in 1 .. Len(s) : s[i] = m
      /\ stream' = stream \o s
  BY <1>1, <1>3 DEF m
<1>5. /\ L \in Nat /\ stream'[L + 1] = m
      /\ \A i \in Nat : Says(i, n)' <=> Says(i, n) \/ i = L + 1
      /\ \A i \in Nat : Says(i, n) => i <= L /\ stream'[i] = stream[i]
  <2>1. \A i \in 1 .. Len(s) : s[i].key = n
    BY <1>1, <1>4
  <2>2. /\ Len(stream) \in Nat /\ \A i \in 1 .. Len(s) : stream'[Len(stream) + i] = s[i]
        /\ \A i \in Nat : Says(i, n)' <=> Says(i, n) \/ (Len(stream) < i /\ i <= Len(stream) + Len(s))
        /\ \A i \in Nat : Says(i, n) => i <= Len(stream) /\ stream'[i] = stream[i]
    BY <1>4, <2>1, Sent
  <2>3. \A i \in Nat : (L < i /\ i <= L + Len(s)) <=> i = L + 1
    BY <1>2, <1>4, <2>2
  <2>4. \A i \in Nat : Says(i, n)' <=> Says(i, n) \/ i = L + 1
    BY <1>2, <2>2, <2>3
  <2>5. 1 \in 1 .. Len(s) /\ s[1] = m
    BY <1>4
  <2>6. stream'[L + 1] = m
    BY <1>2, <2>2, <2>5
  <2> QED BY <1>2, <2>2, <2>4, <2>6
<1>6. \A i \in Nat : /\ SpecAt(i, n)' <=> SpecAt(i, n) \/ i = L + 1
                     /\ GoneAt(i, n)' <=> GoneAt(i, n)
                     /\ AddAt(i, n)' <=> AddAt(i, n) \/ i = L + 1
                     /\ StatusAt(i, n)' <=> StatusAt(i, n) \/ i = L + 1
  BY <1>1, <1>5 DEF SpecAt, GoneAt, AddAt, StatusAt
<1>7. board'[n].spec = Spec0 /\ board'[n].status = "INITIAL"
  BY DEF Blank
<1>8. \A h : Seen(h)' = Seen(h)
  BY DEF Seen
<1>9. SpecInv(n)'
  <2>1. ASSUME NEW i \in Nat, SpecAt(i, n)', \A j \in Nat : SpecAt(j, n)' => j <= i PROVE i = L + 1
    <3>1. L + 1 <= i
      BY <1>5, <1>6, <2>1
    <3> QED BY <1>5, <1>6, <2>1, <3>1 DEF SpecAt
  <2>2. SpecAt(L + 1, n)' /\ L + 1 \in Nat
    BY <1>5, <1>6
  <2> QED BY <1>1, <1>5, <1>7, <2>1, <2>2 DEF SpecInv
<1>a. StatusInv(n)'
  <2>1. ASSUME NEW i \in Nat, StatusAt(i, n)', \A j \in Nat : StatusAt(j, n)' => j <= i PROVE i = L + 1
    <3>1. L + 1 <= i
      BY <1>5, <1>6, <2>1
    <3> QED BY <1>5, <1>6, <2>1, <3>1 DEF StatusAt
  <2>2. StatusAt(L + 1, n)' /\ L + 1 \in Nat
    BY <1>5, <1>6
  <2> QED BY <1>1, <1>5, <1>7, <2>1, <2>2 DEF StatusInv
<1>b. OrderInv(n)'
  <2>1. ASSUME NEW i \in Nat, Says(i, n)', stream'[i].field = "status", stream'[i].action = "REMOVAL"
        PROVE  \E j \in Nat : j > i /\ GoneAt(j, n)'
    <3>1. Says(i, n) /\ stream'[i] = stream[i]
      BY <1>1, <1>5, <2>1
    <3> QED BY <1>6, <2>1, <3>1 DEF FollowInv, OrderInv
  <2>2. ASSUME NEW i \in Nat, AddAt(i, n)', NEW j \in Nat, j < i, Says(j, n)'
        PROVE  \E k \in Nat : j <= k /\ k < i /\ GoneAt(k, n)'
    <3>1. CASE i = L + 1
      <4>1. Says(j, n)
        BY <1>5, <2>2, <3>1
      <4>2. PICK k \in Nat : k >= j /\ GoneAt(k, n)
        BY <4>1 DEF FollowInv, OrderInv
      <4>3. k <= L
        BY <1>5, <4>2 DEF GoneAt, SpecAt
      <4> QED BY <1>5, <1>6, <3>1, <4>2, <4>3
    <3>2. CASE i # L + 1
      <4>1. AddAt(i, n) /\ i <= L
        BY <1>5, <1>6, <2>2, <3>2 DEF AddAt, SpecAt
      <4>2. Says(j, n)
        BY <1>5, <2>2, <4>1
      <4> QED BY <1>6, <2>2, <4>1, <4>2 DEF FollowInv, OrderInv
    <3> QED BY <3>1, <3>2
  <2>3. ASSUME NEW i \in Nat, AddAt(i, n)', \A j \in Nat : j < i => ~Says(j, n)', n \in DOMAIN switches'
        PROVE  Seen(switches[n])'.status = "INITIAL"
    <3>1. CASE i = L + 1
      <4>1. \A j \in Nat : ~Says(j, n)
        BY <1>5, <2>3, <3>1
      <4>2. \A j \in Nat : ~SpecAt(j, n)
        BY <4>1 DEF SpecAt
      <4>3. Seen(switches[n]).status = "INITIAL"
        BY <2>3, <4>2 DEF FollowInv, SpecInv
      <4> QED BY <1>8, <4>3
    <3>2. CASE i # L + 1
      <4>1. AddAt(i, n) /\ \A j \in Nat : j < i => ~Says(j, n)
        BY <1>5, <1>6, <2>3, <3>2
      <4>2. Seen(switches[n]).status = "INITIAL"
        BY <2>3, <4>1 DEF FollowInv, OrderInv
      <4> QED BY <1>8, <4>2
    <3> QED BY <3>1, <3>2
  <2> QED BY <2>1, <2>2, <2>3 DEF OrderInv
<1> QED BY <1>9, <1>a, <1>b DEF FollowInv

LEMMA RemovalSent ==
    ASSUME BoardShape, NEW n \in SwitchNames, FollowInv(n), NEW s \in Seq(Signals), Len(s) > 0,
           \A i \in 1 .. Len(s) : /\ s[i].key = n /\ s[i].action = "REMOVAL"
                                  /\ (s[i].field = "specification" <=> i = Len(s)),
           stream' = stream \o s, n \notin DOMAIN board', UNCHANGED <<switches, local, reader>>
    PROVE  FollowInv(n)'
<1>b. PICK L : L = Len(stream)
  OBVIOUS
<1>e. PICK e : e = L + Len(s)
  OBVIOUS
<1>1. /\ L \in Nat /\ Len(s) \in Nat
      /\ \A i \in 1 .. Len(s) : stream'[L + i] = s[i]
      /\ \A i \in Nat : Says(i, n)' <=> Says(i, n) \/ (L < i /\ i <= L + Len(s))
      /\ \A i \in Nat : Says(i, n) => i <= L /\ stream'[i] = stream[i]
  <2>1. \A i \in 1 .. Len(s) : s[i].key = n
    OBVIOUS
  <2>2. /\ Len(stream) \in Nat /\ Len(s) \in Nat
        /\ \A i \in 1 .. Len(s) : stream'[Len(stream) + i] = s[i]
        /\ \A i \in Nat : Says(i, n)' <=> Says(i, n) \/ (Len(stream) < i /\ i <= Len(stream) + Len(s))
        /\ \A i \in Nat : Says(i, n) => i <= Len(stream) /\ stream'[i] = stream[i]
    BY <2>1, Sent
  <2> QED BY <1>b, <2>2
<1>2. e \in Nat /\ L < e
  BY <1>1, <1>e
<1>3. \A i \in Nat : L < i /\ i <= e => /\ stream'[i].action = "REMOVAL"
                                        /\ (stream'[i].field = "specification" <=> i = e)
  <2> SUFFICES ASSUME NEW i \in Nat, L < i, i <= e
               PROVE  /\ stream'[i].action = "REMOVAL"
                      /\ (stream'[i].field = "specification" <=> i = e)
    OBVIOUS
  <2>1. i - L \in 1 .. Len(s) /\ L + (i - L) = i /\ (i - L = Len(s) <=> i = e)
    BY <1>1, <1>e
  <2>2. stream'[i] = s[i - L]
    BY <1>1, <2>1
  <2> QED BY <2>1, <2>2
<1>4. Says(e, n)' /\ \A i \in Nat : Says(i, n)' <=> Says(i, n) \/ (L < i /\ i <= e)
  <2>1. \A i \in Nat : Says(i, n)' <=> Says(i, n) \/ (L < i /\ i <= e)
    BY <1>1, <1>e
  <2>2. e <= e
    BY <1>2
  <2> QED BY <1>2, <2>1, <2>2
<1>5. \A i \in Nat : /\ SpecAt(i, n)' <=> SpecAt(i, n) \/ i = e
                     /\ GoneAt(i, n)' <=> GoneAt(i, n) \/ i = e
                     /\ AddAt(i, n)' <=> AddAt(i, n)
                     /\ StatusAt(i, n)' <=> StatusAt(i, n) \/ (L < i /\ i <= e)
                     /\ Says(i, n)' => i <= e
  <2> SUFFICES ASSUME NEW i \in Nat
               PROVE  /\ SpecAt(i, n)' <=> SpecAt(i, n) \/ i = e
                      /\ GoneAt(i, n)' <=> GoneAt(i, n) \/ i = e
                      /\ AddAt(i, n)' <=> AddAt(i, n)
                      /\ StatusAt(i, n)' <=> StatusAt(i, n) \/ (L < i /\ i <= e)
                      /\ Says(i, n)' => i <= e
    OBVIOUS
  <2>1. CASE i <= L
    <3>1. i # e /\ ~(L < i) /\ i <= e
      BY <1>1, <1>2, <2>1
    <3>2. Says(i, n)' <=> Says(i, n)
      BY <1>4, <3>1
    <3>3. Says(i, n) => stream'[i] = stream[i]
      BY <1>1
    <3> QED BY <3>1, <3>2, <3>3 DEF SpecAt, GoneAt, AddAt, StatusAt
  <2>2. CASE L < i
    <3>1. ~Says(i, n)
      BY <1>1, <2>2
    <3>2. CASE i <= e
      <4>1. Says(i, n)'
        BY <1>4, <2>2, <3>2
      <4>2. /\ stream'[i].action = "REMOVAL"
            /\ (stream'[i].field = "specification" <=> i = e)
        BY <1>1, <1>2, <1>3, <2>2, <3>2
      <4> QED BY <2>2, <3>1, <3>2, <4>1, <4>2 DEF SpecAt, GoneAt, AddAt, StatusAt
    <3>3. CASE ~(i <= e)
      <4>1. ~Says(i, n)' /\ i # e
        BY <1>2, <1>4, <3>1, <3>3
      <4> QED BY <3>1, <3>3, <4>1 DEF SpecAt, GoneAt, AddAt, StatusAt
    <3> QED BY <3>2, <3>3
  <2> QED BY <1>1, <2>1, <2>2
<1>6. stream'[e].action = "REMOVAL" /\ stream'[e].field = "specification"
  <2>1. e <= e
    BY <1>2
  <2> QED BY <1>2, <1>3, <2>1
<1>7. SpecInv(n)'
  <2>1. SpecAt(e, n)'
    BY <1>2, <1>5
  <2>2. ASSUME NEW i \in Nat, SpecAt(i, n)', \A j \in Nat : SpecAt(j, n)' => j <= i PROVE i = e
    <3>1. e <= i /\ i <= e
      BY <1>2, <1>5, <2>1, <2>2 DEF SpecAt
    <3> QED BY <1>2, <3>1
  <2> QED BY <1>2, <1>6, <2>1, <2>2 DEF SpecInv
<1>8. StatusInv(n)'
  <2>1. StatusAt(e, n)'
    BY <1>2, <1>5
  <2>2. ASSUME NEW i \in Nat, StatusAt(i, n)', \A j \in Nat : StatusAt(j, n)' => j <= i PROVE i = e
    <3>1. e <= i /\ i <= e
      BY <1>2, <1>5, <2>1, <2>2 DEF StatusAt
    <3> QED BY <1>2, <3>1
  <2> QED BY <1>2, <1>6, <2>1, <2>2 DEF StatusInv
<1>9. OrderInv(n)'
  <2>1. ASSUME NEW i \in Nat, Says(i, n)' PROVE \E j \in Nat : j >= i /\ GoneAt(j, n)'
    BY <1>2, <1>5, <2>1
  <2>2. ASSUME NEW i \in Nat, Says(i, n)', stream'[i].field = "status"
        PROVE  \E j \in Nat : j > i /\ GoneAt(j, n)'
    <3>1. i # e
      BY <1>6, <2>2
    <3>2. i < e /\ GoneAt(e, n)'
      BY <1>2, <1>5, <2>2, <3>1
    <3> QED BY <1>2, <3>2
  <2>3. ASSUME NEW i \in Nat, AddAt(i, n)' PROVE i <= L /\ AddAt(i, n)
    BY <1>1, <1>5, <2>3 DEF AddAt, SpecAt
  <2>4. ASSUME NEW i \in Nat, AddAt(i, n)', NEW j \in Nat, j < i, Says(j, n)'
        PROVE  \E k \in Nat : j <= k /\ k < i /\ GoneAt(k, n)'
    <3>1. AddAt(i, n) /\ i <= L
      BY <2>3, <2>4
    <3>2. ~(L < j)
      BY <1>1, <2>4, <3>1
    <3>3. Says(j, n)
      BY <1>1, <2>4, <3>2
    <3> QED BY <1>5, <2>4, <3>1, <3>3 DEF FollowInv, OrderInv
  <2>5. ASSUME NEW i \in Nat, AddAt(i, n)', \A j \in Nat : j < i => ~Says(j, n)', n \in DOMAIN switches'
        PROVE  Seen(switches[n])'.status = "INITIAL"
    <3>1. AddAt(i, n)
      BY <2>3, <2>5
    <3>2. \A j \in Nat : j < i => ~Says(j, n)
      BY <1>1, <2>5
    <3>3. Seen(switches[n]).status = "INITIAL"
      BY <2>5, <3>1, <3>2 DEF FollowInv, OrderInv
    <3> QED BY <3>3 DEF Seen
  <2> QED BY <2>1, <2>2, <2>4, <2>5 DEF OrderInv
<1> QED BY <1>7, <1>8, <1>9 DEF FollowInv

\* A change of the specification, or the changes of the state on the way to a target.
LEMMA UpdateSent ==
    ASSUME BoardShape, NEW n \in SwitchNames, FollowInv(n), NEW s \in Seq(Signals), Len(s) > 0,
           \A i \in 1 .. Len(s) : s[i].key = n /\ s[i].action = "UPDATE" /\ s[i].field = s[1].field,
           stream' = stream \o s, n \in DOMAIN board, n \in DOMAIN board',
           \/ /\ s[1].field = "specification" /\ board'[n].status = board[n].status
              /\ board'[n].spec = s[Len(s)].value
           \/ /\ s[1].field = "status" /\ board'[n].spec = board[n].spec
              /\ board'[n].status = s[Len(s)].value,
           UNCHANGED <<switches, local, reader>>
    PROVE  FollowInv(n)'
<1>b. PICK L : L = Len(stream)
  OBVIOUS
<1>e. PICK e : e = L + Len(s)
  OBVIOUS
<1>1. /\ L \in Nat /\ Len(s) \in Nat
      /\ \A i \in 1 .. Len(s) : stream'[L + i] = s[i]
      /\ \A i \in Nat : Says(i, n)' <=> Says(i, n) \/ (L < i /\ i <= L + Len(s))
      /\ \A i \in Nat : Says(i, n) => i <= L /\ stream'[i] = stream[i]
  <2>1. \A i \in 1 .. Len(s) : s[i].key = n
    OBVIOUS
  <2>2. /\ Len(stream) \in Nat /\ Len(s) \in Nat
        /\ \A i \in 1 .. Len(s) : stream'[Len(stream) + i] = s[i]
        /\ \A i \in Nat : Says(i, n)' <=> Says(i, n) \/ (Len(stream) < i /\ i <= Len(stream) + Len(s))
        /\ \A i \in Nat : Says(i, n) => i <= Len(stream) /\ stream'[i] = stream[i]
    BY <2>1, Sent
  <2> QED BY <1>b, <2>2
<1>2. e \in Nat /\ L < e
  BY <1>1, <1>e
<1>3. /\ \A i \in Nat : L < i /\ i <= e => stream'[i].action = "UPDATE" /\ stream'[i].field = s[1].field
      /\ stream'[e] = s[Len(s)]
  <2>1. ASSUME NEW i \in Nat, L < i, i <= e
        PROVE  stream'[i].action = "UPDATE" /\ stream'[i].field = s[1].field
    <3>1. i - L \in 1 .. Len(s) /\ L + (i - L) = i
      BY <1>1, <1>e, <2>1
    <3>2. stream'[i] = s[i - L]
      BY <1>1, <3>1
    <3> QED BY <3>1, <3>2
  <2>2. Len(s) \in 1 .. Len(s)
    BY <1>1
  <2>3. stream'[e] = s[Len(s)]
    BY <1>1, <1>e, <2>2
  <2> QED BY <2>1, <2>3
<1>4. Says(e, n)' /\ \A i \in Nat : Says(i, n)' <=> Says(i, n) \/ (L < i /\ i <= e)
  <2>1. \A i \in Nat : Says(i, n)' <=> Says(i, n) \/ (L < i /\ i <= e)
    BY <1>1, <1>e
  <2>2. e <= e
    BY <1>2
  <2> QED BY <1>2, <2>1, <2>2
<1>5. \A i \in Nat : /\ GoneAt(i, n)' <=> GoneAt(i, n)
                     /\ AddAt(i, n)' <=> AddAt(i, n)
                     /\ SpecAt(i, n)' <=> SpecAt(i, n) \/ (L < i /\ i <= e /\ s[1].field = "specification")
                     /\ StatusAt(i, n)' <=> StatusAt(i, n) \/ (L < i /\ i <= e /\ s[1].field = "status")
                     /\ Says(i, n)' => i <= e
  <2> SUFFICES ASSUME NEW i \in Nat
      PROVE  /\ GoneAt(i, n)' <=> GoneAt(i, n)
             /\ AddAt(i, n)' <=> AddAt(i, n)
             /\ SpecAt(i, n)' <=> SpecAt(i, n) \/ (L < i /\ i <= e /\ s[1].field = "specification")
             /\ StatusAt(i, n)' <=> StatusAt(i, n) \/ (L < i /\ i <= e /\ s[1].field = "status")
             /\ Says(i, n)' => i <= e
    OBVIOUS
  <2>1. CASE i <= L
    <3>1. i # e /\ ~(L < i) /\ i <= e
      BY <1>1, <1>2, <2>1
    <3>2. Says(i, n)' <=> Says(i, n)
      BY <1>4, <3>1
    <3>3. Says(i, n) => stream'[i] = stream[i]
      BY <1>1
    <3> QED BY <3>1, <3>2, <3>3 DEF SpecAt, GoneAt, AddAt, StatusAt
  <2>2. CASE L < i
    <3>1. ~Says(i, n)
      BY <1>1, <2>2
    <3>2. CASE i <= e
      BY <1>2, <1>3, <1>4, <2>2, <3>1, <3>2 DEF SpecAt, GoneAt, AddAt, StatusAt
    <3>3. CASE ~(i <= e)
      BY <1>2, <1>4, <3>1, <3>3 DEF SpecAt, GoneAt, AddAt, StatusAt
    <3> QED BY <3>2, <3>3
  <2> QED BY <1>1, <2>1, <2>2
<1>6. \A h : Seen(h)' = Seen(h)
  BY DEF Seen
<1>7. \A i \in Nat : /\ SpecAt(i, n) => Says(i, n) /\ stream'[i] = stream[i] /\ i <= L
                     /\ StatusAt(i, n) => Says(i, n) /\ stream'[i] = stream[i] /\ i <= L
                     /\ AddAt(i, n) => Says(i, n) /\ stream'[i] = stream[i] /\ i <= L
  BY <1>1 DEF AddAt, SpecAt, StatusAt
<1>8. SpecInv(n)'
  <2>1. CASE s[1].field = "specification"
    <3>1. SpecAt(e, n)'
      BY <1>2, <1>5, <2>1
    <3>2. ASSUME NEW i \in Nat, SpecAt(i, n)', \A j \in Nat : SpecAt(j, n)' => j <= i PROVE i = e
      <4>1. e <= i /\ i <= e
        BY <1>2, <1>5, <3>1, <3>2 DEF SpecAt
      <4> QED BY <1>2, <4>1
    <3>3. stream'[e].action = "UPDATE" /\ board'[n].spec = stream'[e].value
      BY <1>2, <1>3, <2>1
    <3> QED BY <1>2, <3>1, <3>2, <3>3 DEF SpecInv
  <2>2. CASE s[1].field = "status" /\ board'[n].spec = board[n].spec
    <3>1. \A i \in Nat : SpecAt(i, n)' <=> SpecAt(i, n)
      BY <1>5, <2>2
    <3>2. ASSUME NEW i \in Nat, SpecAt(i, n)', \A j \in Nat : SpecAt(j, n)' => j <= i
          PROVE  stream'[i].action # "REMOVAL" /\ board'[n].spec = stream'[i].value
      <4>1. SpecAt(i, n) /\ stream'[i] = stream[i] /\ \A j \in Nat : SpecAt(j, n) => j <= i
        BY <1>7, <3>1, <3>2
      <4> QED BY <2>2, <4>1 DEF FollowInv, SpecInv
    <3>3. ASSUME \A i \in Nat : ~SpecAt(i, n)'
          PROVE  n \in DOMAIN switches /\ Seen(switches[n]).spec = board'[n].spec
      BY <2>2, <3>1, <3>3 DEF FollowInv, SpecInv
    <3> QED BY <1>6, <3>2, <3>3 DEF SpecInv
  <2> QED BY <2>1, <2>2
<1>9. StatusInv(n)'
  <2>1. CASE s[1].field = "status"
    <3>1. StatusAt(e, n)'
      BY <1>2, <1>5, <2>1
    <3>2. ASSUME NEW i \in Nat, StatusAt(i, n)', \A j \in Nat : StatusAt(j, n)' => j <= i PROVE i = e
      <4>1. e <= i /\ i <= e
        BY <1>2, <1>5, <3>1, <3>2 DEF StatusAt
      <4> QED BY <1>2, <4>1
    <3>3. /\ stream'[e].action = "UPDATE" /\ stream'[e].field = "status"
          /\ board'[n].status = stream'[e].value
      BY <1>2, <1>3, <2>1
    <3> QED BY <1>2, <3>1, <3>2, <3>3 DEF StatusInv
  <2>2. CASE s[1].field = "specification" /\ board'[n].status = board[n].status
    <3>1. \A i \in Nat : StatusAt(i, n)' <=> StatusAt(i, n)
      BY <1>5, <2>2
    <3>2. ASSUME NEW i \in Nat, StatusAt(i, n)', \A j \in Nat : StatusAt(j, n)' => j <= i
          PROVE  /\ stream'[i].action # "REMOVAL"
                 /\ board'[n].status = IF stream'[i].field = "status" THEN stream'[i].value ELSE "INITIAL"
      <4>1. StatusAt(i, n) /\ stream'[i] = stream[i] /\ \A j \in Nat : StatusAt(j, n) => j <= i
        BY <1>7, <3>1, <3>2
      <4> QED BY <2>2, <4>1 DEF FollowInv, StatusInv
    <3>3. ASSUME \A i \in Nat : ~StatusAt(i, n)'
          PROVE  n \in DOMAIN switches /\ Seen(switches[n]).status = board'[n].status
      BY <2>2, <3>1, <3>3 DEF FollowInv, StatusInv
    <3> QED BY <1>6, <3>2, <3>3 DEF StatusInv
  <2> QED BY <2>1, <2>2
<1>a. OrderInv(n)'
  <2>1. ASSUME NEW i \in Nat, Says(i, n)', stream'[i].action = "REMOVAL", stream'[i].field = "status"
        PROVE  \E j \in Nat : j > i /\ GoneAt(j, n)'
    <3>1. Says(i, n) /\ stream'[i] = stream[i]
      BY <1>1, <1>3, <1>4, <2>1
    <3> QED BY <1>5, <2>1, <3>1 DEF FollowInv, OrderInv
  <2>2. ASSUME NEW i \in Nat, AddAt(i, n)', NEW j \in Nat, j < i, Says(j, n)'
        PROVE  \E k \in Nat : j <= k /\ k < i /\ GoneAt(k, n)'
    <3>1. AddAt(i, n) /\ Says(j, n)
      BY <1>1, <1>5, <1>7, <2>2
    <3> QED BY <1>5, <2>2, <3>1 DEF FollowInv, OrderInv
  <2>3. ASSUME NEW i \in Nat, AddAt(i, n)', \A j \in Nat : j < i => ~Says(j, n)', n \in DOMAIN switches'
        PROVE  Seen(switches[n])'.status = "INITIAL"
    <3>1. AddAt(i, n) /\ \A j \in Nat : j < i => ~Says(j, n)
      BY <1>1, <1>5, <2>3
    <3>2. Seen(switches[n]).status = "INITIAL"
      BY <2>3, <3>1 DEF FollowInv, OrderInv
    <3> QED BY <1>6, <3>2
  <2> QED BY <2>1, <2>2, <2>3 DEF OrderInv
<1> QED BY <1>8, <1>9, <1>a DEF FollowInv

-----------------------------------------------------------------------------
(* A request *)

LEMMA SentElsewhere ==
    ASSUME BoardShape, \A m \in SwitchNames : FollowInv(m), NEW n \in SwitchNames, NEW s \in Seq(Signals),
           \A i \in 1 .. Len(s) : s[i].key = n, stream' = stream \o s,
           UNCHANGED <<switches, local, reader>>, phantoms \subseteq phantoms',
           \A m \in SwitchNames : m # n => (m \in DOMAIN board' <=> m \in DOMAIN board),
           \A m \in SwitchNames : m # n /\ m \in DOMAIN board => board'[m] = board[m]
    PROVE  /\ stream' \in Seq(Signals)
           /\ \A m \in SwitchNames : m # n => FollowInv(m)'
           /\ \A i \in Nat : \A m \in SwitchNames : GoneAt(i, m) => GoneAt(i, m)'
<1>1. /\ stream' \in Seq(Signals)
      /\ Len(stream) \in Nat
      /\ \A i \in Nat : Says(i, n)' <=> Says(i, n) \/ (Len(stream) < i /\ i <= Len(stream) + Len(s))
      /\ \A m : \A i \in Nat : Says(i, m) => i <= Len(stream) /\ stream'[i] = stream[i]
      /\ \A m : \A i \in Nat : m # n => (Says(i, m)' <=> Says(i, m))
  BY Sent
<1>2. \A i \in Nat : \A m \in SwitchNames : Says(i, m) => Says(i, m)' /\ stream'[i] = stream[i]
  BY <1>1
<1>3. \A i \in Nat : \A m \in SwitchNames : GoneAt(i, m) => GoneAt(i, m)'
  BY <1>2 DEF GoneAt, SpecAt
<1>4. \A i \in Nat : \A m \in SwitchNames : Says(i, m) => i > 0
  BY DEF BoardShape, ServerShape, Says
<1>5. ASSUME NEW m \in SwitchNames, m # n PROVE FollowInv(m)'
  <2>1. PICK d \in {0, 1} : d = 0
    OBVIOUS
  <2>2. \A i \in Nat : i + d = i /\ i + d \in Nat
    BY <2>1
  <2>3. \A i \in Nat : Says(i, m)' <=> Says(i + d, m)
    BY <1>1, <1>5, <2>2
  <2>4. \A i \in Nat : Says(i, m) => i > d
    BY <1>4, <2>1
  <2>5. \A i \in Nat : Says(i + d, m) => stream'[i] = stream[i + d]
    BY <1>1, <2>2
  <2>6. \A h : Seen(h)' = Seen(h)
    BY DEF Seen
  <2>7. m \in DOMAIN switches => Seen(switches[m])' = Seen(switches[m])
    BY <2>6
  <2>8. m \in phantoms => m \in phantoms'
    OBVIOUS
  <2>9. m \in DOMAIN switches' <=> m \in DOMAIN switches
    OBVIOUS
  <2>a. /\ m \in DOMAIN board' <=> m \in DOMAIN board
        /\ m \in DOMAIN board => board'[m] = board[m]
    BY <1>5
  <2> QED BY <2>3, <2>4, <2>5, <2>7, <2>8, <2>9, <2>a, Elsewhere
<1> QED BY <1>1, <1>3, <1>5

\* What every request does for the switches, when it is about n.
LEMMA ServeInv ==
    ASSUME ProxyAssumption, BoardShape, \A m \in SwitchNames : FollowInv(m), NEW r \in Requests, Serve(r),
           UNCHANGED <<switches, local, reader>>, phantoms \subseteq phantoms'
    PROVE  /\ ServerShape'
           /\ \A m \in SwitchNames : FollowInv(m)'
           /\ \A i \in Nat : \A m \in SwitchNames : GoneAt(i, m) => GoneAt(i, m)'
           /\ \A m \in DOMAIN board \ DOMAIN board' : \E i \in Nat : GoneAt(i, m)'
<1>1. PICK n : n = FindOn(board, r.name)
  OBVIOUS
<1>2. PICK s : s = Served(r).sent
  OBVIOUS
<1>3. board' = Served(r).board /\ stream' = stream \o s
  BY <1>2 DEF Serve
<1>4. r.name \in SwitchNames /\ n \in DOMAIN board \cup {Nil} /\ (n = Nil => r.name \notin DOMAIN board)
  <2>1. r.name \in SwitchNames
    BY DEF Requests
  <2> QED BY <1>1, <2>1 DEF FindOn, ProxyAssumption
<1>5. DOMAIN board \subseteq SwitchNames /\ Nil \notin DOMAIN board
  BY DEF BoardShape, ServerShape, ProxyAssumption
<1>6. \A m \in DOMAIN board : board[m] \in Switch /\ board[m].name = m
  BY DEF BoardShape, ServerShape
<1>7. CASE r.kind = "add" /\ n = Nil
  <2>1. PICK a : a = r.name
    OBVIOUS
  <2>2. board' = With(board, a, Blank(a)) /\ s = <<Signal("specification", "ADDITION", a, Spec0)>>
    BY <1>1, <1>2, <1>3, <1>7, <2>1 DEF Served
  <2>3. a \in SwitchNames /\ a \notin DOMAIN board
    BY <1>4, <1>7, <2>1
  <2>4. /\ DOMAIN board' = DOMAIN board \cup {a} /\ board'[a] = Blank(a)
        /\ \A m \in DOMAIN board : board'[m] = board[m]
    BY <2>2, <2>3 DEF With
  <2>5. s \in Seq(Signals) /\ \A i \in 1 .. Len(s) : s[i].key = a
    <3>1. PICK c : c = Signal("specification", "ADDITION", a, Spec0)
      OBVIOUS
    <3>2. c \in Signals /\ c.key = a
      BY <2>3, <3>1 DEF Signal, Signals, Spec0, Specs
    <3>3. s = <<c>>
      BY <2>2, <3>1
    <3> QED BY <3>2, <3>3
  <2>6. \A m \in SwitchNames : m # a => (m \in DOMAIN board' <=> m \in DOMAIN board)
    BY <2>4
  <2>7. \A m \in SwitchNames : m # a /\ m \in DOMAIN board => board'[m] = board[m]
    BY <2>4
  <2>8. /\ stream' \in Seq(Signals)
        /\ \A m \in SwitchNames : m # a => FollowInv(m)'
        /\ \A i \in Nat : \A m \in SwitchNames : GoneAt(i, m) => GoneAt(i, m)'
    BY <1>3, <2>3, <2>5, <2>6, <2>7, SentElsewhere
  <2>9. FollowInv(a)'
    <3>1. stream' = stream \o <<Signal("specification", "ADDITION", a, Spec0)>> /\ a \in DOMAIN board'
      BY <1>3, <2>2, <2>4
    <3> QED BY <2>3, <2>4, <3>1, AddSent
  <2>a. Blank(a) \in Switch /\ Blank(a).name = a
    BY <2>3 DEF Blank, Switch, Spec0, Specs, States
  <2> QED BY <1>5, <1>6, <2>3, <2>4, <2>8, <2>9, <2>a DEF ServerShape
<1>8. CASE r.kind = "remove" /\ n # Nil
  <2>1. board' = Without(board, n)
    BY <1>1, <1>2, <1>3, <1>8 DEF Served
  <2>2. n \in DOMAIN board /\ n \in SwitchNames
    BY <1>4, <1>5, <1>8
  <2>3. DOMAIN board' = DOMAIN board \ {n} /\ \A m \in DOMAIN board' : board'[m] = board[m]
    BY <2>1 DEF Without, Restrict
  <2>4. PICK b : b = Signal("specification", "REMOVAL", n, Spec0)
    OBVIOUS
  <2>5. PICK a : a = Signal("status", "REMOVAL", n, "INITIAL")
    OBVIOUS
  <2>6. /\ a \in Signals /\ a.key = n /\ a.action = "REMOVAL" /\ a.field = "status"
        /\ b \in Signals /\ b.key = n /\ b.action = "REMOVAL" /\ b.field = "specification"
    BY <2>2, <2>4, <2>5 DEF Signal, Signals, Spec0, Specs, States
  <2>7. s = (IF board[n].status = "INITIAL" THEN <<>> ELSE <<a>>) \o <<b>>
    BY <1>1, <1>2, <1>8, <2>4, <2>5 DEF Served
  <2>8. /\ s \in Seq(Signals) /\ Len(s) > 0 /\ Len(s) \in Nat /\ s[Len(s)] = b
        /\ \A i \in 1 .. Len(s) : i # Len(s) => s[i] = a
    <3>1. CASE board[n].status = "INITIAL"
      <4>1. PICK u : u = <<b>>
        OBVIOUS
      <4>2. u \in Seq(Signals) /\ Len(u) = 1 /\ u[1] = b
        BY <2>6, <4>1
      <4>3. s = u
        BY <2>7, <3>1, <4>1, <4>2
      <4>4. \A i \in 1 .. 1 : i = 1
        OBVIOUS
      <4>5. s \in Seq(Signals) /\ Len(s) = 1 /\ s[1] = b
        BY <4>2, <4>3
      <4> QED BY <4>4, <4>5
    <3>2. CASE board[n].status # "INITIAL"
      <4>1. PICK u : u = <<b>>
        OBVIOUS
      <4>2. PICK v : v = <<a>>
        OBVIOUS
      <4>3. u \in Seq(Signals) /\ Len(u) = 1 /\ u[1] = b /\ v \in Seq(Signals) /\ Len(v) = 1 /\ v[1] = a
        BY <2>6, <4>1, <4>2
      <4>4. s = v \o u
        BY <2>7, <3>2, <4>1, <4>2
      <4>5. s \in Seq(Signals) /\ Len(s) = 2
        <5>0. v \in Seq(Signals) /\ u \in Seq(Signals)
          BY <4>3
        <5>1. v \o u \in Seq(Signals) /\ Len(v \o u) = Len(v) + Len(u)
          BY <5>0, ConcatProperties
        <5> QED BY <4>3, <4>4, <5>1
      <4>6. s[1] = a /\ s[2] = b
        BY <4>3, <4>4, <4>5
      <4> QED BY <4>5, <4>6
    <3> QED BY <3>1, <3>2
  <2>9. \A i \in 1 .. Len(s) : /\ s[i].key = n /\ s[i].action = "REMOVAL"
                               /\ (s[i].field = "specification" <=> i = Len(s))
    BY <2>6, <2>8
  <2>a. /\ stream' \in Seq(Signals)
        /\ \A m \in SwitchNames : m # n => FollowInv(m)'
        /\ \A i \in Nat : \A m \in SwitchNames : GoneAt(i, m) => GoneAt(i, m)'
    <3>1. \A i \in 1 .. Len(s) : s[i].key = n
      BY <2>9
    <3>2. \A m \in SwitchNames : m # n => (m \in DOMAIN board' <=> m \in DOMAIN board)
      BY <2>3
    <3>3. \A m \in SwitchNames : m # n /\ m \in DOMAIN board => board'[m] = board[m]
      BY <2>3
    <3> QED BY <1>3, <2>2, <2>8, <3>1, <3>2, <3>3, SentElsewhere
  <2>b. FollowInv(n)'
    BY <1>3, <2>2, <2>3, <2>8, <2>9, RemovalSent
  <2>c. \E i \in Nat : GoneAt(i, n)'
    <3>1. PICK e \in Nat : e = Len(stream) + Len(s)
      BY <2>8 DEF BoardShape, ServerShape
    <3>2. \A i \in 1 .. Len(s) : s[i].key = n
      BY <2>9
    <3>3. /\ Len(stream) \in Nat /\ Len(s) \in Nat
          /\ \A i \in Nat : Says(i, n)' <=> Says(i, n) \/ (Len(stream) < i /\ i <= Len(stream) + Len(s))
          /\ \A i \in 1 .. Len(s) : stream'[Len(stream) + i] = s[i]
      BY <1>3, <2>2, <2>8, <3>2, Sent
    <3>4. Len(stream) < e /\ e <= Len(stream) + Len(s) /\ Len(s) \in 1 .. Len(s)
      BY <2>8, <3>1, <3>3
    <3>5. Says(e, n)' /\ stream'[e] = b
      BY <2>8, <3>1, <3>3, <3>4
    <3>6. GoneAt(e, n)'
      BY <2>6, <3>5 DEF GoneAt, SpecAt
    <3> QED BY <3>6
  <2>d. ServerShape'
    BY <1>5, <1>6, <2>3, <2>a DEF ServerShape
  <2>e. \A m \in DOMAIN board \ DOMAIN board' : m = n
    BY <2>3
  <2>f. \A m \in SwitchNames : FollowInv(m)'
    BY <2>a, <2>b
  <2> QED BY <2>a, <2>c, <2>d, <2>e, <2>f
<1>9. ASSUME n # Nil, NEW w \in Switch, w.name = n, board' = With(board, n, w), s \in Seq(Signals), Len(s) > 0,
             \A i \in 1 .. Len(s) : s[i].key = n /\ s[i].action = "UPDATE" /\ s[i].field = s[1].field,
             \/ s[1].field = "specification" /\ w.status = board[n].status /\ w.spec = s[Len(s)].value
             \/ s[1].field = "status" /\ w.spec = board[n].spec /\ w.status = s[Len(s)].value
      PROVE  /\ ServerShape'
             /\ \A m \in SwitchNames : FollowInv(m)'
             /\ \A i \in Nat : \A m \in SwitchNames : GoneAt(i, m) => GoneAt(i, m)'
             /\ DOMAIN board' = DOMAIN board
  <2>1. n \in DOMAIN board /\ n \in SwitchNames
    BY <1>4, <1>5, <1>9
  <2>2. DOMAIN board' = DOMAIN board /\ board'[n] = w /\ \A m \in DOMAIN board : m # n => board'[m] = board[m]
    BY <1>9, <2>1 DEF With
  <2>3. /\ stream' \in Seq(Signals)
        /\ \A m \in SwitchNames : m # n => FollowInv(m)'
        /\ \A i \in Nat : \A m \in SwitchNames : GoneAt(i, m) => GoneAt(i, m)'
    <3>1. \A i \in 1 .. Len(s) : s[i].key = n
      BY <1>9
    <3>2. \A m \in SwitchNames : m # n => (m \in DOMAIN board' <=> m \in DOMAIN board)
      BY <2>2
    <3>3. \A m \in SwitchNames : m # n /\ m \in DOMAIN board => board'[m] = board[m]
      BY <2>2
    <3> QED BY <1>3, <1>9, <2>1, <3>1, <3>2, <3>3, SentElsewhere
  <2>4. FollowInv(n)'
    <3>1. \/ /\ s[1].field = "specification" /\ board'[n].status = board[n].status
             /\ board'[n].spec = s[Len(s)].value
          \/ /\ s[1].field = "status" /\ board'[n].spec = board[n].spec
             /\ board'[n].status = s[Len(s)].value
      BY <1>9, <2>2
    <3> QED BY <1>3, <1>9, <2>1, <2>2, <3>1, UpdateSent
  <2>5. ServerShape'
    BY <1>5, <1>6, <1>9, <2>1, <2>2, <2>3 DEF ServerShape
  <2> QED BY <2>2, <2>3, <2>4, <2>5
<1>a. ASSUME DOMAIN board' = DOMAIN board, \A m \in DOMAIN board : board'[m] = board[m], stream' = stream
      PROVE  /\ ServerShape'
             /\ \A m \in SwitchNames : FollowInv(m)'
             /\ \A i \in Nat : \A m \in SwitchNames : GoneAt(i, m) => GoneAt(i, m)'
             /\ DOMAIN board' = DOMAIN board
  <2>1. /\ \A i \in Nat : \A m : Says(i, m)' <=> Says(i, m)
        /\ \A h : Seen(h)' = Seen(h)
    BY <1>a DEF Says, Seen
  <2>2. ASSUME NEW m \in SwitchNames PROVE FollowInv(m)'
    <3>1. PICK d \in {0, 1} : d = 0
      OBVIOUS
    <3>2. \A i \in Nat : Says(i, m)' <=> Says(i + d, m)
      BY <2>1, <3>1
    <3>3. \A i \in Nat : Says(i, m) => i > d
      BY <3>1 DEF BoardShape, ServerShape, Says
    <3>4. \A i \in Nat : Says(i + d, m) => stream'[i] = stream[i + d]
      BY <1>a, <3>1
    <3>5. m \in DOMAIN switches => Seen(switches[m])' = Seen(switches[m])
      BY <2>1
    <3>6. m \in phantoms => m \in phantoms'
      OBVIOUS
    <3>7. m \in DOMAIN switches' <=> m \in DOMAIN switches
      OBVIOUS
    <3>8. /\ m \in DOMAIN board' <=> m \in DOMAIN board
          /\ m \in DOMAIN board => board'[m] = board[m]
      BY <1>a
    <3> QED BY <3>2, <3>3, <3>4, <3>5, <3>6, <3>7, <3>8, Elsewhere
  <2>3. ServerShape'
    BY <1>a DEF BoardShape, ServerShape
  <2>4. \A i \in Nat : \A m \in SwitchNames : GoneAt(i, m) => GoneAt(i, m)'
    BY <1>a DEF GoneAt, SpecAt, Says
  <2> QED BY <1>a, <2>2, <2>3, <2>4
<1>b. CASE r.kind = "spec" /\ n # Nil
  <2>1. PICK x : x = SpecOf(board[n].spec, r)
    OBVIOUS
  <2>2. n \in DOMAIN board /\ n \in SwitchNames /\ board[n] \in Switch /\ board[n].name = n
    BY <1>4, <1>5, <1>6, <1>b
  <2>3. x \in Specs
    BY <1>b, <2>1, <2>2 DEF SpecOf, Requests, Specs, Switch
  <2>4. PICK w : w = [board[n] EXCEPT !.spec = x]
    OBVIOUS
  <2>5. w \in Switch /\ w.name = n /\ w.spec = x /\ w.status = board[n].status
    BY <2>2, <2>3, <2>4 DEF Switch
  <2>6. board' = With(board, n, w)
    BY <1>1, <1>2, <1>3, <1>b, <2>1, <2>4 DEF Served
  <2>7. PICK c : c = Signal("specification", "UPDATE", n, x)
    OBVIOUS
  <2>8. c \in Signals /\ c.key = n /\ c.action = "UPDATE" /\ c.field = "specification" /\ c.value = x
    BY <2>2, <2>3, <2>7 DEF Signal, Signals
  <2>9. s = IF x = board[n].spec THEN <<>> ELSE <<c>>
    BY <1>1, <1>2, <1>b, <2>1, <2>7 DEF Served
  <2>a. CASE x = board[n].spec
    <3>1. w = board[n]
      BY <2>2, <2>4, <2>a DEF Switch
    <3>2. DOMAIN board' = DOMAIN board /\ \A m \in DOMAIN board : board'[m] = board[m]
      BY <2>2, <2>6, <3>1 DEF With
    <3>3. stream' = stream
      BY <1>3, <2>9, <2>a DEF BoardShape, ServerShape
    <3> QED BY <1>a, <3>2, <3>3
  <2>b. CASE x # board[n].spec
    <3>1. PICK u : u = <<c>>
      OBVIOUS
    <3>2. s \in Seq(Signals) /\ Len(s) = 1 /\ s[1] = c
      BY <2>8, <2>9, <2>b, <3>1
    <3> QED BY <1>9, <1>b, <2>5, <2>6, <2>8, <3>2
  <2> QED BY <2>a, <2>b
<1>c. CASE r.kind = "target" /\ n # Nil /\ board[n].status # r.target
  <2>1. n \in DOMAIN board /\ n \in SwitchNames /\ board[n] \in Switch /\ board[n].name = n
    BY <1>4, <1>5, <1>6, <1>c
  <2>2. PICK w : w = [board[n] EXCEPT !.status = r.target]
    OBVIOUS
  <2>3. r.target \in Settled
    BY <1>c DEF Requests
  <2>4. w \in Switch /\ w.name = n /\ w.spec = board[n].spec /\ w.status = r.target
    BY <2>1, <2>2, <2>3 DEF Switch, States
  <2>5. board' = With(board, n, w)
    BY <1>1, <1>2, <1>3, <1>c, <2>2 DEF Served
  <2>6. PICK a : a = Signal("status", "UPDATE", n, Via(r.target))
    OBVIOUS
  <2>7. PICK c : c = Signal("status", "UPDATE", n, r.target)
    OBVIOUS
  <2>8. /\ a \in Signals /\ a.key = n /\ a.action = "UPDATE" /\ a.field = "status"
        /\ c \in Signals /\ c.key = n /\ c.action = "UPDATE" /\ c.field = "status" /\ c.value = r.target
    BY <2>1, <2>3, <2>6, <2>7 DEF Signal, Signals, Via, Settled, States, PendingStates
  <2>9. s = <<a, c>>
    BY <1>1, <1>2, <1>c, <2>6, <2>7 DEF Served
  <2>a. s \in Seq(Signals) /\ Len(s) = 2 /\ s[1] = a /\ s[2] = c
    BY <2>8, <2>9
  <2>b. \A i \in 1 .. Len(s) : s[i].key = n /\ s[i].action = "UPDATE" /\ s[i].field = s[1].field
    BY <2>8, <2>a
  <2> QED BY <1>9, <1>c, <2>4, <2>5, <2>8, <2>a, <2>b
<1>d. CASE /\ ~(r.kind = "add" /\ n = Nil) /\ ~(r.kind = "remove" /\ n # Nil) /\ ~(r.kind = "spec" /\ n # Nil)
           /\ ~(r.kind = "target" /\ n # Nil /\ board[n].status # r.target)
  <2>1. board' = board /\ s = <<>>
    BY <1>1, <1>2, <1>3, <1>d DEF Served
  <2>2. stream' = stream
    BY <1>3, <2>1 DEF BoardShape, ServerShape
  <2> QED BY <1>a, <2>1, <2>2
<1> QED BY <1>7, <1>8, <1>b, <1>c, <1>d

-----------------------------------------------------------------------------
(* The reader *)

\* Nothing is sent or received, and the switch of this name stays what it will be.
LEMMA Still ==
    ASSUME BoardShape, NEW m \in SwitchNames, FollowInv(m), UNCHANGED <<stream, board>>,
           m \in phantoms => m \in phantoms',
           m \in DOMAIN switches' <=> m \in DOMAIN switches,
           m \in DOMAIN switches => Seen(switches[m])' = Seen(switches[m])
    PROVE  FollowInv(m)'
<1>1. PICK d \in {0, 1} : d = 0
  OBVIOUS
<1>2. \A i \in Nat : Says(i, m)' <=> Says(i + d, m)
  BY <1>1 DEF Says
<1>3. \A i \in Nat : Says(i, m) => i > d
  BY <1>1 DEF BoardShape, ServerShape, Says
<1>4. \A i \in Nat : Says(i + d, m) => stream'[i] = stream[i + d]
  BY <1>1
<1>5. /\ m \in DOMAIN board' <=> m \in DOMAIN board
      /\ m \in DOMAIN board => board'[m] = board[m]
  OBVIOUS
<1> QED BY <1>2, <1>3, <1>4, <1>5, Elsewhere

\* CopyFrom() makes of a switch what it was going to be.
LEMMA UpdateInv == ASSUME ProxyAssumption, BoardInv, Update PROVE BoardInv'
<1>1. PICK c : c = reader.switch
  OBVIOUS
<1>2. PICK w : w = Updated(local[c], reader.msg)
  OBVIOUS
<1>3. /\ reader.msg # Nil /\ reader.msg \in Signals /\ c \in DOMAIN local
      /\ local' = [local EXCEPT ![c] = w] /\ told' = Shown(c, w)
      /\ reader' = [switch |-> Nil, msg |-> Nil]
      /\ UNCHANGED <<board, stream, requests, switches, lock, app, held, popped, phantoms>>
  BY <1>1, <1>2 DEF Update, Updated, serverVars, BoardInv, ThreadInv
<1>4. /\ local[c] \in Switch /\ w \in Switch /\ w.name = local[c].name
  <2>1. local[c] \in Switch
    BY <1>3 DEF BoardInv, BoardShape, ClientShape
  <2> QED BY <1>2, <1>3, <2>1 DEF Updated, Switch, Signals
<1>5. /\ DOMAIN local' = DOMAIN local /\ local'[c] = w
      /\ \A h \in DOMAIN local : h # c => local'[h] = local[h]
  BY <1>3
<1>6. \A h \in DOMAIN local : Seen(h)' = Seen(h)
  BY <1>1, <1>2, <1>3, <1>5 DEF Seen
<1>7. \A m \in SwitchNames : FollowInv(m)'
  <2>1. ASSUME NEW m \in SwitchNames PROVE FollowInv(m)'
    <3>1. m \in DOMAIN switches => Seen(switches[m])' = Seen(switches[m])
      <4>1. m \in DOMAIN switches => switches[m] \in DOMAIN local
        BY DEF BoardInv, BoardShape, ClientShape
      <4>2. m \in DOMAIN switches => switches'[m] = switches[m]
        BY <1>3
      <4> QED BY <1>3, <1>6, <4>1, <4>2 DEF Seen
    <3>2. FollowInv(m) /\ BoardShape
      BY DEF BoardInv
    <3> QED BY <1>3, <3>1, <3>2, Still
  <2> QED BY <2>1
<1>8. BoardShape'
  <2>1. ServerShape'
    BY <1>3 DEF BoardInv, BoardShape, ServerShape
  <2>2. ClientShape'
    BY <1>3, <1>4, <1>5 DEF BoardInv, BoardShape, ClientShape
  <2> QED BY <2>1, <2>2 DEF BoardShape
<1>9. ThreadInv'
  BY <1>3, <1>5 DEF BoardInv, ThreadInv
<1>a. ShownInv'
  <2>1. DOMAIN told' = DOMAIN told /\ \A h \in DOMAIN told : told'[h] = IF h = c THEN View(w) ELSE told[h]
    BY <1>3 DEF Shown
  <2>2. HeldIsRegistered'
    BY <1>3 DEF BoardInv, ShownInv, HeldIsRegistered
  <2> QED BY <1>5, <2>1, <2>2 DEF BoardInv, ShownInv
<1>b. RegisterInv'
  BY <1>3 DEF BoardInv, RegisterInv, GoneAt, SpecAt, Says
<1> QED BY <1>7, <1>8, <1>9, <1>a, <1>b DEF BoardInv

\* The rest of the stream, one place further to the front.
LEMMA TailSays ==
    ASSUME stream \in Seq(Signals), stream # <<>>, stream' = Tail(stream)
    PROVE  /\ stream' \in Seq(Signals) /\ stream[1] \in Signals
           /\ \A n : Says(1, n) <=> stream[1].key = n
           /\ \A n : ~Says(0, n) /\ ~Says(0, n)'
           /\ \A n : \A i \in Nat : i > 0 => (Says(i, n)' <=> Says(i + 1, n))
           /\ \A n : \A i \in Nat : i > 0 /\ Says(i + 1, n) => stream'[i] = stream[i + 1]
<1>1. PICK L \in Nat : L = Len(stream) /\ L > 0 /\ DOMAIN stream = 1 .. L
  BY EmptySeq
<1>2. /\ stream' \in Seq(Signals) /\ DOMAIN stream' = 1 .. (L - 1)
      /\ \A i \in 1 .. (L - 1) : stream'[i] = stream[i + 1]
  BY <1>1
<1>3. 1 \in DOMAIN stream /\ stream[1] \in Signals
  BY <1>1
<1>4. ASSUME NEW i \in Nat, i > 0
      PROVE  /\ i \in DOMAIN stream' <=> i + 1 \in DOMAIN stream
             /\ i + 1 \in DOMAIN stream => stream'[i] = stream[i + 1]
  <2>1. i \in 1 .. (L - 1) <=> i + 1 \in 1 .. L
    BY <1>1, <1>4
  <2> QED BY <1>1, <1>2, <2>1
<1>5. ~(0 \in DOMAIN stream) /\ ~(0 \in DOMAIN stream')
  BY <1>1, <1>2
<1> QED BY <1>2, <1>3, <1>4, <1>5 DEF Says

\* The switch that the head of the stream is about.
LEMMA Received ==
    ASSUME BoardShape, NEW n \in SwitchNames, FollowInv(n), stream # <<>>, stream' = Tail(stream),
           NEW m \in Signals, m = stream[1], m.key = n, UNCHANGED <<board, phantoms>>,
           NEW b \in Switch, b = IF n \in DOMAIN switches THEN Seen(switches[n]) ELSE Blank(n),
           m.action = "REMOVAL" => n \notin DOMAIN switches',
           m.action # "REMOVAL" => n \in DOMAIN switches' /\ Seen(switches[n])' = Updated(b, m)
    PROVE  FollowInv(n)'
<1>1. /\ Says(1, n) /\ ~Says(0, n) /\ ~Says(0, n)'
      /\ \A i \in Nat : i > 0 => (Says(i, n)' <=> Says(i + 1, n))
      /\ \A i \in Nat : i > 0 /\ Says(i + 1, n) => stream'[i] = stream[i + 1]
  BY TailSays DEF BoardShape, ServerShape
<1>2. \A i \in Nat : /\ Says(i, n) => i > 0
                     /\ Says(i, n)' => i > 0 /\ i + 1 \in Nat /\ Says(i + 1, n) /\ stream'[i] = stream[i + 1]
  <2>1. \A i \in Nat : (i = 0 \/ i > 0) /\ i + 1 \in Nat
    OBVIOUS
  <2> QED BY <1>1, <2>1
<1>3. \A j \in Nat : Says(j, n) /\ j # 1 =>
          j - 1 \in Nat /\ (j - 1) + 1 = j /\ Says(j - 1, n)' /\ stream'[j - 1] = stream[j]
  <2>1. ASSUME NEW j \in Nat, Says(j, n), j # 1
        PROVE  j - 1 \in Nat /\ (j - 1) + 1 = j /\ Says(j - 1, n)' /\ stream'[j - 1] = stream[j]
    <3>1. j > 0
      BY <1>2, <2>1
    <3>2. j - 1 \in Nat /\ j - 1 > 0 /\ (j - 1) + 1 = j
      BY <2>1, <3>1
    <3> QED BY <1>1, <2>1, <3>2
  <2> QED BY <2>1
<1>4. \A i \in Nat : i > 0 => /\ SpecAt(i, n)' <=> SpecAt(i + 1, n)
                              /\ StatusAt(i, n)' <=> StatusAt(i + 1, n)
                              /\ GoneAt(i, n)' <=> GoneAt(i + 1, n)
                              /\ AddAt(i, n)' <=> AddAt(i + 1, n)
  BY <1>1 DEF SpecAt, StatusAt, GoneAt, AddAt
<1>5. \A i \in Nat : /\ SpecAt(i, n) \/ GoneAt(i, n) \/ AddAt(i, n) \/ StatusAt(i, n) => Says(i, n)
                     /\ SpecAt(i, n)' \/ GoneAt(i, n)' \/ AddAt(i, n)' \/ StatusAt(i, n)' => Says(i, n)'
                     /\ GoneAt(i, n) => SpecAt(i, n)
                     /\ GoneAt(i, n)' => SpecAt(i, n)'
  BY DEF SpecAt, StatusAt, GoneAt, AddAt
<1>6. \A j \in Nat : j # 1 => /\ SpecAt(j, n) => SpecAt(j - 1, n)'
                              /\ StatusAt(j, n) => StatusAt(j - 1, n)'
                              /\ GoneAt(j, n) => GoneAt(j - 1, n)'
  BY <1>3 DEF SpecAt, StatusAt, GoneAt
<1>7. /\ SpecAt(1, n) <=> m.field = "specification"
      /\ GoneAt(1, n) <=> m.field = "specification" /\ m.action = "REMOVAL"
      /\ AddAt(1, n) <=> m.field = "specification" /\ m.action = "ADDITION"
      /\ StatusAt(1, n) <=> (m.field = "status" \/ m.action # "UPDATE")
  BY <1>1 DEF SpecAt, StatusAt, GoneAt, AddAt
<1>8. /\ Updated(b, m).spec = IF m.field = "specification" THEN m.value ELSE b.spec
      /\ Updated(b, m).status = IF m.field = "specification" THEN b.status ELSE m.value
  BY DEF Updated, Switch
<1>9. Blank(n).status = "INITIAL" /\ Blank(n).spec = Spec0
  BY DEF Blank
<1>a. \/ m.field = "specification" /\ m.action \in {"ADDITION", "UPDATE", "REMOVAL"}
      \/ m.field = "status" /\ m.action \in {"UPDATE", "REMOVAL"}
  BY DEF Signals
<1> HIDE DEF Updated
<1>b. SpecInv(n)'
  <2>1. ASSUME NEW i \in Nat, SpecAt(i, n)', \A j \in Nat : SpecAt(j, n)' => j <= i
        PROVE  IF stream'[i].action = "REMOVAL" THEN n \notin DOMAIN board'
               ELSE n \in DOMAIN board' /\ board'[n].spec = stream'[i].value
    <3>1. SpecAt(i + 1, n) /\ stream'[i] = stream[i + 1] /\ i + 1 \in Nat /\ i > 0
      BY <1>2, <1>4, <1>5, <2>1
    <3>2. ASSUME NEW j \in Nat, SpecAt(j, n) PROVE j <= i + 1
      <4>1. CASE j = 1
        BY <3>1, <4>1
      <4>2. CASE j # 1
        <5>1. j - 1 \in Nat /\ SpecAt(j - 1, n)'
          BY <1>3, <1>5, <1>6, <3>2, <4>2
        <5> QED BY <2>1, <5>1
      <4> QED BY <4>1, <4>2
    <3> QED BY <3>1, <3>2 DEF FollowInv, SpecInv
  <2>2. ASSUME \A i \in Nat : ~SpecAt(i, n)'
        PROVE  /\ n \in DOMAIN board' => n \in DOMAIN switches' /\ Seen(switches[n])'.spec = board'[n].spec
               /\ n \in DOMAIN switches' \ DOMAIN board' => n \in phantoms' /\ Seen(switches[n])'.status = "INITIAL"
    <3>1. ASSUME NEW j \in Nat, SpecAt(j, n) PROVE j = 1
      BY <1>3, <1>5, <1>6, <2>2, <3>1
    <3>2. CASE m.field = "specification"
      <4>1. SpecAt(1, n) /\ 1 \in Nat /\ \A j \in Nat : SpecAt(j, n) => j <= 1
        BY <1>7, <3>1, <3>2
      <4>2. IF m.action = "REMOVAL" THEN n \notin DOMAIN board
            ELSE n \in DOMAIN board /\ board[n].spec = m.value
        BY <4>1 DEF FollowInv, SpecInv
      <4> QED BY <1>8, <3>2, <4>2
    <3>3. CASE m.field = "status"
      <4>1. \A j \in Nat : ~SpecAt(j, n)
        BY <1>7, <3>1, <3>3
      <4>2. n \in DOMAIN board
        <5>1. \A j \in Nat : ~GoneAt(j, n)
          BY <1>5, <4>1
        <5> QED BY <1>1, <5>1 DEF FollowInv, OrderInv
      <4>3. n \in DOMAIN switches /\ Seen(switches[n]).spec = board[n].spec
        BY <4>1, <4>2 DEF FollowInv, SpecInv
      <4>4. m.action # "REMOVAL"
        <5>1. \A j \in Nat : ~GoneAt(j, n)
          BY <1>5, <4>1
        <5> QED BY <1>1, <3>3, <5>1 DEF FollowInv, OrderInv
      <4> QED BY <1>8, <3>3, <4>2, <4>3, <4>4
    <3> QED BY <1>a, <3>2, <3>3
  <2> QED BY <2>1, <2>2 DEF SpecInv
<1>c. StatusInv(n)'
  <2>1. ASSUME NEW i \in Nat, StatusAt(i, n)', \A j \in Nat : StatusAt(j, n)' => j <= i
        PROVE  IF stream'[i].action = "REMOVAL" THEN n \notin DOMAIN board'
               ELSE /\ n \in DOMAIN board'
                    /\ board'[n].status = IF stream'[i].field = "status" THEN stream'[i].value ELSE "INITIAL"
    <3>1. StatusAt(i + 1, n) /\ stream'[i] = stream[i + 1] /\ i + 1 \in Nat /\ i > 0
      BY <1>2, <1>4, <1>5, <2>1
    <3>2. ASSUME NEW j \in Nat, StatusAt(j, n) PROVE j <= i + 1
      <4>1. CASE j = 1
        BY <3>1, <4>1
      <4>2. CASE j # 1
        <5>1. j - 1 \in Nat /\ StatusAt(j - 1, n)'
          BY <1>3, <1>5, <1>6, <3>2, <4>2
        <5> QED BY <2>1, <5>1
      <4> QED BY <4>1, <4>2
    <3> QED BY <3>1, <3>2 DEF FollowInv, StatusInv
  <2>2. ASSUME \A i \in Nat : ~StatusAt(i, n)', n \in DOMAIN board'
        PROVE  n \in DOMAIN switches' /\ Seen(switches[n])'.status = board'[n].status
    <3>1. ASSUME NEW j \in Nat, StatusAt(j, n) PROVE j = 1
      BY <1>3, <1>5, <1>6, <2>2, <3>1
    <3>2. CASE m.field = "status" \/ m.action # "UPDATE"
      <4>1. StatusAt(1, n) /\ 1 \in Nat /\ \A j \in Nat : StatusAt(j, n) => j <= 1
        BY <1>7, <3>1, <3>2
      <4>2. /\ m.action # "REMOVAL"
            /\ board[n].status = IF m.field = "status" THEN m.value ELSE "INITIAL"
        BY <2>2, <4>1 DEF FollowInv, StatusInv
      <4>3. CASE m.field = "status"
        BY <1>8, <4>2, <4>3
      <4>4. CASE m.field = "specification"
        <5>1. AddAt(1, n)
          BY <1>7, <1>a, <3>2, <4>2, <4>4
        <5>2. \A j \in Nat : j < 1 => ~Says(j, n)
          BY <1>2
        <5>3. n \in DOMAIN switches => Seen(switches[n]).status = "INITIAL"
          BY <5>1, <5>2 DEF FollowInv, OrderInv
        <5>4. b.status = "INITIAL"
          BY <1>9, <5>3
        <5> QED BY <1>8, <4>2, <4>4, <5>4
      <4> QED BY <1>a, <4>3, <4>4
    <3>3. CASE m.field = "specification" /\ m.action = "UPDATE"
      <4>1. \A j \in Nat : ~StatusAt(j, n)
        BY <1>7, <3>1, <3>3
      <4>2. n \in DOMAIN switches /\ Seen(switches[n]).status = board[n].status
        BY <2>2, <4>1 DEF FollowInv, StatusInv
      <4> QED BY <1>8, <3>3, <4>2
    <3> QED BY <1>a, <3>2, <3>3
  <2> QED BY <2>1, <2>2 DEF StatusInv
<1>d. OrderInv(n)'
  <2>1. ASSUME n \notin DOMAIN board', NEW i \in Nat, Says(i, n)'
        PROVE  \E j \in Nat : j >= i /\ GoneAt(j, n)'
    <3>1. PICK j \in Nat : j >= i + 1 /\ GoneAt(j, n)
      BY <1>2, <2>1 DEF FollowInv, OrderInv
    <3>2. j # 1 /\ j - 1 >= i
      BY <1>2, <2>1, <3>1
    <3>3. j - 1 \in Nat /\ GoneAt(j - 1, n)'
      BY <1>3, <1>5, <1>6, <3>1, <3>2
    <3> QED BY <3>2, <3>3
  <2>2. ASSUME NEW i \in Nat, Says(i, n)', stream'[i].field = "status", stream'[i].action = "REMOVAL"
        PROVE  \E j \in Nat : j > i /\ GoneAt(j, n)'
    <3>0. Says(i + 1, n) /\ stream'[i] = stream[i + 1] /\ i + 1 \in Nat
      BY <1>2, <2>2
    <3>1. PICK j \in Nat : j > i + 1 /\ GoneAt(j, n)
      BY <2>2, <3>0 DEF FollowInv, OrderInv
    <3>2. j # 1 /\ j - 1 > i
      BY <1>2, <2>2, <3>1
    <3>3. j - 1 \in Nat /\ GoneAt(j - 1, n)'
      BY <1>3, <1>5, <1>6, <3>1, <3>2
    <3> QED BY <3>2, <3>3
  <2>3. ASSUME NEW i \in Nat, AddAt(i, n)', NEW j \in Nat, j < i, Says(j, n)'
        PROVE  \E k \in Nat : j <= k /\ k < i /\ GoneAt(k, n)'
    <3>1. AddAt(i + 1, n) /\ Says(j + 1, n) /\ j + 1 < i + 1 /\ i + 1 \in Nat /\ j + 1 \in Nat /\ j > 0
      BY <1>2, <1>4, <1>5, <2>3
    <3>2. PICK k \in Nat : j + 1 <= k /\ k < i + 1 /\ GoneAt(k, n)
      BY <3>1 DEF FollowInv, OrderInv
    <3>3. k # 1 /\ j <= k - 1 /\ k - 1 < i
      BY <3>1, <3>2
    <3>4. k - 1 \in Nat /\ GoneAt(k - 1, n)'
      BY <1>3, <1>5, <1>6, <3>2, <3>3
    <3> QED BY <3>3, <3>4
  <2>4. ASSUME NEW i \in Nat, AddAt(i, n)', \A j \in Nat : j < i => ~Says(j, n)', n \in DOMAIN switches'
        PROVE  FALSE
    <3>1. AddAt(i + 1, n) /\ i + 1 \in Nat /\ i > 0 /\ 1 < i + 1
      BY <1>2, <1>4, <1>5, <2>4
    <3>2. PICK k \in Nat : 1 <= k /\ k < i + 1 /\ GoneAt(k, n)
      BY <1>1, <3>1 DEF FollowInv, OrderInv
    <3>3. k # 1
      BY <1>7, <2>4, <3>2
    <3>4. k - 1 \in Nat /\ Says(k - 1, n)' /\ k - 1 < i
      BY <1>3, <1>5, <3>2, <3>3
    <3> QED BY <2>4, <3>4
  <2> QED BY <2>1, <2>2, <2>3, <2>4 DEF OrderInv
<1> QED BY <1>b, <1>c, <1>d DEF FollowInv

\* The client knows this many switches; the next one is new.
LEMMA NextIsNew ==
    ASSUME ProxyAssumption, ClientShape, NextHandle \in Handles
    PROVE  /\ NextHandle \notin DOMAIN local /\ NextHandle # Nil
           /\ \E k \in Nat : DOMAIN local \cup {NextHandle} = 1 .. k
<1>1. PICK k \in Nat : DOMAIN local = 1 .. k
  BY DEF ClientShape
<1>2. NextHandle = k + 1
  <2>1. Cardinality(1 .. k) = IF 1 > k THEN 0 ELSE k - 1 + 1
    BY <1>1, FS_Interval
  <2>2. Cardinality(1 .. k) = k
    BY <1>1, <2>1
  <2> QED BY <1>1, <2>2 DEF NextHandle, Count
<1>3. (1 .. k) \cup {k + 1} = 1 .. (k + 1) /\ k + 1 \notin 1 .. k /\ k + 1 \in Nat
  BY <1>1
<1> QED BY <1>1, <1>2, <1>3 DEF ProxyAssumption

LEMMA BlankIs ==
    ASSUME NEW n \in SwitchNames
    PROVE  /\ Blank(n) \in Switch /\ Blank(n).name = n
           /\ Blank(n).status = "INITIAL" /\ Blank(n).spec = Spec0
BY DEF Blank, Switch, Spec0, Specs, States

\* A switch that is not known is made.
LEMMA Made ==
    ASSUME ProxyAssumption, ClientShape, NextHandle \in Handles, NEW n \in SwitchNames, n \notin DOMAIN switches,
           local' = With(local, NextHandle, Blank(n)), switches' = With(switches, n, NextHandle)
    PROVE  /\ ClientShape'
           /\ DOMAIN local' = DOMAIN local \cup {NextHandle} /\ DOMAIN switches' = DOMAIN switches \cup {n}
           /\ \A h \in DOMAIN local : local'[h] = local[h]
           /\ \A m \in DOMAIN switches : switches'[m] = switches[m]
           /\ local'[NextHandle] = Blank(n) /\ switches'[n] = NextHandle
           /\ \A h \in Range(switches) \cup {NextHandle} : h \in Range(switches)'
<1>1. PICK k : k = NextHandle
  OBVIOUS
<1>2. k \notin DOMAIN local /\ k \in Handles /\ \E j \in Nat : DOMAIN local \cup {k} = 1 .. j
  BY <1>1, NextIsNew
<1>3. local' = With(local, k, Blank(n)) /\ switches' = With(switches, n, k)
  BY <1>1
<1>4. /\ DOMAIN local' = DOMAIN local \cup {k} /\ local'[k] = Blank(n)
      /\ \A h \in DOMAIN local : local'[h] = local[h]
  BY <1>2, <1>3 DEF With
<1>5. /\ DOMAIN switches' = DOMAIN switches \cup {n} /\ switches'[n] = k
      /\ \A m \in DOMAIN switches : switches'[m] = switches[m]
  BY <1>3 DEF With
<1>6. ClientShape'
  <2>1. \E j \in Nat : DOMAIN local' = 1 .. j
    BY <1>2, <1>4
  <2>2. DOMAIN local' \subseteq Handles /\ \A h \in DOMAIN local' : local'[h] \in Switch
    BY <1>2, <1>4, BlankIs DEF ClientShape
  <2>3. DOMAIN switches' \subseteq SwitchNames
    BY <1>5 DEF ClientShape
  <2>4. \A m \in DOMAIN switches' : switches'[m] \in DOMAIN local' /\ local'[switches'[m]].name = m
    BY <1>4, <1>5, BlankIs DEF ClientShape
  <2> QED BY <2>1, <2>2, <2>3, <2>4 DEF ClientShape
<1>7. \A h \in Range(switches) \cup {k} : h \in Range(switches)'
  BY <1>5 DEF Range
<1> QED BY <1>1, <1>4, <1>5, <1>6, <1>7

\* A signal is taken: its switch is found, made or forgotten.
LEMMA MappedInv == ASSUME ProxyAssumption, BoardInv, Mapped PROVE BoardInv'
<1>1. PICK m : m = stream[1]
  OBVIOUS
<1>2. PICK n : n = m.key
  OBVIOUS
<1>3. /\ stream \in Seq(Signals) /\ stream # <<>> /\ stream' = Tail(stream) /\ Head(stream) = m
      /\ reader.msg = Nil /\ lock = Nil
      /\ UNCHANGED <<board, requests, lock, app, held, told, phantoms>>
  BY <1>1 DEF Mapped, BoardInv, BoardShape, ServerShape
<1>4. /\ m \in Signals /\ stream' \in Seq(Signals)
      /\ \A x : Says(1, x) <=> m.key = x
      /\ \A x : ~Says(0, x) /\ ~Says(0, x)'
      /\ \A x : \A i \in Nat : i > 0 => (Says(i, x)' <=> Says(i + 1, x))
      /\ \A x : \A i \in Nat : i > 0 /\ Says(i + 1, x) => stream'[i] = stream[i + 1]
  BY <1>1, <1>3, TailSays
<1>5. n \in SwitchNames /\ m.action \in {"ADDITION", "UPDATE", "REMOVAL"} /\ m # Nil
  BY <1>2, <1>4 DEF Signals, ProxyAssumption
<1>6. /\ BoardShape /\ ServerShape /\ ClientShape /\ ThreadInv /\ ShownInv
      /\ \A x \in SwitchNames : FollowInv(x)
  BY DEF BoardInv, BoardShape
<1>7. \A h : Seen(h) = local[h]
  BY <1>3 DEF Seen
<1>8. /\ app.pc = "idle" /\ app \in [pc : {"idle", "add", "register", "initial"}, name : SwitchNames \cup {Nil}]
      /\ held \in DOMAIN local \cup {Nil}
  BY <1>3, <1>6 DEF ThreadInv, ProxyAssumption
\* The switch of another name is as before.
<1>9. ASSUME NEW x \in SwitchNames, x # n, x \in DOMAIN switches' <=> x \in DOMAIN switches,
             x \in DOMAIN switches => Seen(switches[x])' = Seen(switches[x])
      PROVE  FollowInv(x)'
  <2>1. PICK d \in {0, 1} : d = 1
    OBVIOUS
  <2>2. ~Says(1, x)
    BY <1>2, <1>4, <1>9
  <2>3. \A i \in Nat : Says(i, x)' <=> Says(i + d, x)
    <3>1. \A i \in Nat : i = 0 \/ i > 0
      OBVIOUS
    <3>2. 0 + 1 = 1
      OBVIOUS
    <3> QED BY <1>4, <2>1, <2>2, <3>1, <3>2
  <2>4. \A i \in Nat : Says(i, x) => i > d
    <3>1. \A i \in Nat : i = 0 \/ i = 1 \/ i > 1
      OBVIOUS
    <3> QED BY <1>4, <2>1, <2>2, <3>1
  <2>5. \A i \in Nat : Says(i + d, x) => stream'[i] = stream[i + d]
    <3>1. \A i \in Nat : i = 0 \/ i > 0
      OBVIOUS
    <3>2. 0 + 1 = 1
      OBVIOUS
    <3> QED BY <1>4, <2>1, <2>2, <3>1, <3>2
  <2>6. /\ x \in phantoms => x \in phantoms'
        /\ x \in DOMAIN board' <=> x \in DOMAIN board
        /\ x \in DOMAIN board => board'[x] = board[x]
    BY <1>3
  <2>7. FollowInv(x)
    BY <1>6
  <2> QED BY <1>9, <2>3, <2>4, <2>5, <2>6, <2>7, Elsewhere
\* What does not depend on the case.
<1>a. ASSUME ClientShape', \A x \in SwitchNames : FollowInv(x)', HeldIsRegistered',
             DOMAIN local \subseteq DOMAIN local', \A h \in DOMAIN local : local'[h] = local[h],
             \/ reader' = reader
             \/ \E h \in DOMAIN local' : reader' = [switch |-> h, msg |-> m] /\ h # Nil
      PROVE  BoardInv'
  <2>1. ServerShape'
    BY <1>3, <1>4, <1>6 DEF ServerShape
  <2>2. ThreadInv'
    <3>1. reader' \in [switch : DOMAIN local' \cup {Nil}, msg : Signals \cup {Nil}]
      BY <1>4, <1>6, <1>a DEF ThreadInv
    <3>2. reader'.msg # Nil => reader'.switch # Nil
      BY <1>6, <1>a DEF ThreadInv
    <3> QED BY <1>3, <1>8, <1>a, <3>1, <3>2 DEF ThreadInv
  <2>3. ShownInv'
    BY <1>3, <1>6, <1>a DEF ShownInv
  <2>4. RegisterInv'
    BY <1>3, <1>8 DEF RegisterInv
  <2> QED BY <1>a, <2>1, <2>2, <2>3, <2>4 DEF BoardInv, BoardShape
<1>b. ASSUME NEW b \in Switch, b = IF n \in DOMAIN switches THEN local[switches[n]] ELSE Blank(n),
             m.action = "REMOVAL" => n \notin DOMAIN switches',
             m.action # "REMOVAL" => n \in DOMAIN switches' /\ Seen(switches[n])' = Updated(b, m)
      PROVE  FollowInv(n)'
  <2>1. b = IF n \in DOMAIN switches THEN Seen(switches[n]) ELSE Blank(n)
    BY <1>7, <1>b
  <2>2. m.key = n /\ BoardShape /\ FollowInv(n) /\ UNCHANGED <<board, phantoms>>
    BY <1>2, <1>3, <1>5, <1>6
  <2> QED BY <1>1, <1>3, <1>4, <1>5, <1>b, <2>1, <2>2, Received
<1>c. CASE /\ m.action \in {"ADDITION", "UPDATE"} /\ n \in DOMAIN switches
           /\ reader' = [switch |-> switches[n], msg |-> m] /\ UNCHANGED <<switches, local, popped>>
  <2>1. PICK c : c = switches[n]
    OBVIOUS
  <2>2. c \in DOMAIN local /\ local[c] \in Switch /\ c # Nil /\ local[c].name = n
    BY <1>6, <1>c, <2>1 DEF ClientShape, ProxyAssumption
  <2>3. reader'.msg = m /\ reader'.switch = c
    BY <1>c, <2>1
  <2>4. \A h : Seen(h)' = IF h = c THEN Updated(local[c], m) ELSE local[h]
    BY <1>5, <1>c, <2>3 DEF Seen, Updated
  <2>5. FollowInv(n)'
    <3>1. Seen(switches[n])' = Updated(local[c], m)
      BY <1>c, <2>1, <2>4 DEF Seen
    <3> QED BY <1>b, <1>c, <2>1, <2>2, <3>1
  <2>6. ASSUME NEW x \in SwitchNames, x # n PROVE FollowInv(x)'
    <3>1. x \in DOMAIN switches => switches[x] # c
      BY <1>6, <2>2, <2>6 DEF ClientShape
    <3>2. x \in DOMAIN switches => Seen(switches[x])' = Seen(switches[x])
      BY <1>7, <1>c, <2>4, <3>1 DEF Seen
    <3> QED BY <1>9, <1>c, <2>6, <3>2
  <2>7. ClientShape'
    BY <1>6, <1>c DEF ClientShape
  <2>8. HeldIsRegistered'
    BY <1>3, <1>6, <1>c DEF ShownInv, HeldIsRegistered
  <2> QED BY <1>a, <1>c, <2>1, <2>2, <2>5, <2>6, <2>7, <2>8
<1>d. CASE /\ m.action \in {"ADDITION", "UPDATE"} /\ n \notin DOMAIN switches /\ NextHandle \in Handles
           /\ local' = With(local, NextHandle, Blank(n)) /\ switches' = With(switches, n, NextHandle)
           /\ reader' = [switch |-> NextHandle, msg |-> m] /\ UNCHANGED popped
  <2>1. PICK c : c = NextHandle
    OBVIOUS
  <2>2. /\ ClientShape'
        /\ DOMAIN local' = DOMAIN local \cup {c} /\ DOMAIN switches' = DOMAIN switches \cup {n}
        /\ \A h \in DOMAIN local : local'[h] = local[h]
        /\ \A x \in DOMAIN switches : switches'[x] = switches[x]
        /\ local'[c] = Blank(n) /\ switches'[n] = c
        /\ \A h \in Range(switches) \cup {c} : h \in Range(switches)'
    BY <1>5, <1>6, <1>d, <2>1, Made
  <2>3. c \notin DOMAIN local /\ c # Nil
    BY <1>6, <1>d, <2>1, NextIsNew
  <2>4. reader'.msg = m /\ reader'.switch = c
    BY <1>d, <2>1
  <2>5. \A h : Seen(h)' = IF h = c THEN Updated(Blank(n), m) ELSE local'[h]
    BY <1>5, <2>2, <2>4 DEF Seen, Updated
  <2>6. FollowInv(n)'
    <3>1. Seen(switches[n])' = Updated(Blank(n), m)
      BY <2>2, <2>5 DEF Seen
    <3>2. Blank(n) \in Switch
      BY <1>5, BlankIs
    <3> QED BY <1>b, <1>d, <2>2, <3>1, <3>2
  <2>7. ASSUME NEW x \in SwitchNames, x # n PROVE FollowInv(x)'
    <3>1. x \in DOMAIN switches => switches[x] \in DOMAIN local
      BY <1>6 DEF ClientShape
    <3>2. x \in DOMAIN switches => Seen(switches[x])' = Seen(switches[x])
      BY <1>7, <2>2, <2>3, <2>5, <3>1 DEF Seen
    <3>3. x \in DOMAIN switches' <=> x \in DOMAIN switches
      BY <2>2, <2>7
    <3> QED BY <1>9, <2>7, <3>2, <3>3
  <2>8. HeldIsRegistered'
    BY <1>3, <1>6, <1>d, <2>2 DEF ShownInv, HeldIsRegistered
  <2>9. reader' = [switch |-> c, msg |-> m]
    BY <1>d, <2>1
  <2> QED BY <1>a, <2>2, <2>3, <2>6, <2>7, <2>8, <2>9
<1>e. CASE /\ m.action = "REMOVAL" /\ n \in DOMAIN switches /\ switches' = Without(switches, n)
           /\ popped' = popped \cup {switches[n]} /\ reader' = [switch |-> switches[n], msg |-> m]
           /\ UNCHANGED local
  <2>1. PICK c : c = switches[n]
    OBVIOUS
  <2>2. c \in DOMAIN local /\ local[c] \in Switch /\ c # Nil /\ local[c].name = n
    BY <1>6, <1>e, <2>1 DEF ClientShape, ProxyAssumption
  <2>3. DOMAIN switches' = DOMAIN switches \ {n} /\ \A x \in DOMAIN switches : x # n => switches'[x] = switches[x]
    BY <1>e DEF Without, Restrict
  <2>4. reader'.msg = m /\ reader'.switch = c
    BY <1>e, <2>1
  <2>5. \A h : Seen(h)' = IF h = c THEN Updated(local[c], m) ELSE local[h]
    BY <1>5, <1>e, <2>4 DEF Seen, Updated
  <2>6. FollowInv(n)'
    BY <1>b, <1>e, <2>1, <2>2, <2>3
  <2>7. ASSUME NEW x \in SwitchNames, x # n PROVE FollowInv(x)'
    <3>1. x \in DOMAIN switches => switches[x] # c
      BY <1>6, <2>2, <2>7 DEF ClientShape
    <3>2. x \in DOMAIN switches => Seen(switches[x])' = Seen(switches[x])
      BY <1>7, <2>3, <2>5, <2>7, <3>1 DEF Seen
    <3>3. x \in DOMAIN switches' <=> x \in DOMAIN switches
      BY <2>3, <2>7
    <3> QED BY <1>9, <2>7, <3>2, <3>3
  <2>8. ClientShape'
    BY <1>6, <1>e, <2>3 DEF ClientShape
  <2>9. HeldIsRegistered'
    <3>1. ASSUME held \in Range(switches) PROVE held \in popped' \/ held \in Range(switches)'
      <4>1. PICK x \in DOMAIN switches : held = switches[x]
        BY <3>1 DEF Range
      <4>2. CASE x = n
        BY <1>e, <4>1, <4>2
      <4>3. CASE x # n
        BY <2>3, <4>1, <4>3 DEF Range
      <4> QED BY <4>2, <4>3
    <3> QED BY <1>3, <1>6, <1>e, <3>1 DEF ShownInv, HeldIsRegistered
  <2>a. reader' = [switch |-> c, msg |-> m]
    BY <1>e, <2>1
  <2> QED BY <1>a, <1>e, <2>2, <2>6, <2>7, <2>8, <2>9, <2>a
<1>f. CASE m.action = "REMOVAL" /\ n \notin DOMAIN switches /\ UNCHANGED <<switches, local, reader, popped>>
  <2>1. \A h : Seen(h)' = Seen(h)
    BY <1>f DEF Seen
  <2>2. FollowInv(n)'
    BY <1>5, <1>b, <1>f, BlankIs
  <2>3. ASSUME NEW x \in SwitchNames, x # n PROVE FollowInv(x)'
    <3>1. x \in DOMAIN switches => Seen(switches[x])' = Seen(switches[x])
      BY <1>f, <2>1 DEF Seen
    <3> QED BY <1>9, <1>f, <2>3, <3>1
  <2>4. ClientShape'
    BY <1>6, <1>f DEF ClientShape
  <2>5. HeldIsRegistered'
    BY <1>3, <1>6, <1>f DEF ShownInv, HeldIsRegistered
  <2> QED BY <1>a, <1>f, <2>2, <2>3, <2>4, <2>5
<1> QED
  BY <1>2, <1>3, <1>c, <1>d, <1>e, <1>f DEF Mapped

-----------------------------------------------------------------------------
(* The application and other clients *)

\* A request changes what the server knows, and what is on its way.
LEMMA RequestInv ==
    ASSUME ProxyAssumption, BoardInv, NEW r \in Requests, Serve(r),
           UNCHANGED <<switches, local, held, reader, popped, told>>, phantoms \subseteq phantoms',
           ThreadInv', app' = app \/ RegisterInv'
    PROVE  BoardInv'
<1>1. /\ BoardShape /\ ServerShape /\ ClientShape /\ ShownInv /\ RegisterInv /\ ThreadInv
      /\ \A m \in SwitchNames : FollowInv(m)
  BY DEF BoardInv, BoardShape
<1>2. /\ ServerShape'
      /\ \A m \in SwitchNames : FollowInv(m)'
      /\ \A i \in Nat : \A m \in SwitchNames : GoneAt(i, m) => GoneAt(i, m)'
      /\ \A m \in DOMAIN board \ DOMAIN board' : \E i \in Nat : GoneAt(i, m)'
  BY <1>1, ServeInv
<1>3. ClientShape'
  BY <1>1 DEF ClientShape
<1>4. ShownInv'
  BY <1>1 DEF ShownInv, HeldIsRegistered
<1>5. RegisterInv'
  <2>1. ASSUME app' = app, app.pc = "register"
        PROVE  app.name \in DOMAIN board' \cup phantoms' \/ \E i \in Nat : GoneAt(i, app.name)'
    <3>1. app.name \in SwitchNames
      BY <1>1, <2>1 DEF ThreadInv
    <3> QED BY <1>1, <1>2, <2>1, <3>1 DEF RegisterInv
  <2> QED BY <2>1 DEF RegisterInv
<1> QED BY <1>2, <1>3, <1>4, <1>5 DEF BoardInv, BoardShape

\* What an operation asks, when it does not raise, names the switch.
LEMMA OperationAsks ==
    ASSUME NEW s \in Switch, NEW r \in Operations(s), r # Raises
    PROVE  r \in Requests
<1>1. s.name \in SwitchNames
  BY DEF Switch
<1>2. ASSUME NEW l \in Languages, r = SetLocalizations(s, {l}) PROVE r \in Requests
  BY <1>1, <1>2 DEF SetLocalizations, SpecRequest, Requests
<1>3. ASSUME NEW a \in SwitchNames, r = AddAliases(s, {a}) PROVE r \in Requests
  BY <1>1, <1>3 DEF AddAliases, SpecRequest, Requests
<1>4. ASSUME r = SetPrimary(s, TRUE) PROVE r \in Requests
  <2>1. r = [kind |-> "spec", name |-> s.name, aliases |-> {}, languages |-> {}, replace |-> FALSE, primary |-> TRUE]
    BY <1>4 DEF SetPrimary, SpecRequest
  <2> QED BY <1>1, <2>1 DEF Requests
<1>5. ASSUME r \in {SetActive(s, TRUE), SetActive(s, FALSE), SetError(s)} PROVE r \in Requests
  BY <1>1, <1>5 DEF SetActive, SetError, SetTarget, TargetRequest, Requests, Settled
<1> QED
  BY <1>2, <1>3, <1>4, <1>5
     DEF Operations, SetLocalizationsFrom, SetTargetTexts, SetLocalization, SetStateTexts, RemoveDependency,
         AddInterceptor, InvokeInterceptor

LEMMA OthersInv == ASSUME ProxyAssumption, BoardInv, Others PROVE BoardInv'
<1>1. PICK r \in Requests : Serve(r) /\ UNCHANGED <<clientVars, phantoms>>
  BY DEF Others, ProxyAssumption
<1>2. ThreadInv'
  BY <1>1 DEF BoardInv, ThreadInv, clientVars
<1> QED BY <1>1, <1>2, RequestInv DEF clientVars

LEMMA OperateInv ==
    ASSUME ProxyAssumption, BoardInv, Operate \/ \E a \in SwitchNames : OperateRemoveAlias(a)
    PROVE  BoardInv'
<1>1. held # Nil /\ UNCHANGED <<clientVars, phantoms>>
  BY DEF Operate, OperateRemoveAlias
<1>2. local[held] \in Switch /\ local[held].name \in SwitchNames
  BY <1>1 DEF BoardInv, BoardShape, ClientShape, ThreadInv, Switch
<1>3. \E r \in Requests : Serve(r)
  <2>1. CASE Operate
    <3>1. PICK r \in Operations(local[held]) \cup {RemoveRequest(local[held].name)} : Serve(r)
      BY <2>1 DEF Operate
    <3>2. CASE r \in Operations(local[held])
      BY <1>2, <3>1, <3>2, OperationAsks DEF Serve
    <3>3. CASE r = RemoveRequest(local[held].name)
      BY <1>2, <3>1, <3>3 DEF RemoveRequest, Requests
    <3> QED BY <3>1, <3>2, <3>3
  <2>2. ASSUME NEW a \in SwitchNames, OperateRemoveAlias(a) PROVE \E r \in Requests : Serve(r)
    <3>1. RemoveAliases(local[held], {a}) \in Requests
      BY <1>2 DEF RemoveAliases, SetAliases, SpecRequest, Requests, Switch, Specs
    <3> QED BY <2>2, <3>1 DEF OperateRemoveAlias
  <2> QED BY <2>1, <2>2
<1>4. ThreadInv'
  BY <1>1 DEF BoardInv, ThreadInv, clientVars
<1> QED BY <1>1, <1>3, <1>4, RequestInv DEF clientVars

LEMMA SetInitialInv == ASSUME ProxyAssumption, BoardInv, SetInitial PROVE BoardInv'
<1>1. held # Nil
  BY DEF SetInitial, BoardInv, ThreadInv
<1>2. local[held] \in Switch /\ local[held].name \in SwitchNames
  BY <1>1 DEF BoardInv, BoardShape, ClientShape, ThreadInv, Switch
<1>3. PICK active \in BOOLEAN : Serve(SetActive(local[held], active))
  BY DEF SetInitial
<1>4. SetActive(local[held], active) \in Requests
  BY <1>2 DEF SetActive, SetTarget, TargetRequest, Requests, Settled
<1>5. ThreadInv'
  BY DEF SetInitial, BoardInv, ThreadInv
<1>6. RegisterInv'
  BY DEF SetInitial, RegisterInv
<1> QED BY <1>3, <1>4, <1>5, <1>6, RequestInv DEF SetInitial

\* The name is on the board after the request, unless it was taken for an alias.
LEMMA AddSwitchInv == ASSUME ProxyAssumption, BoardInv, AddSwitch PROVE BoardInv'
<1>1. PICK n : n = app.name
  OBVIOUS
<1>2. /\ n \in SwitchNames /\ app.pc = "add" /\ Serve(AddRequest(n)) /\ app' = [app EXCEPT !.pc = "register"]
      /\ UNCHANGED <<switches, local, lock, held, reader, popped, told>>
  BY <1>1 DEF AddSwitch, BoardInv, ThreadInv
<1>3. app' \in [pc : {"idle", "add", "register", "initial"}, name : SwitchNames \cup {Nil}]
      /\ app'.pc = "register" /\ app'.name = n
  BY <1>1, <1>2 DEF BoardInv, ThreadInv
<1>4. ThreadInv'
  BY <1>1, <1>2, <1>3 DEF BoardInv, ThreadInv
<1>5. phantoms \subseteq phantoms' /\ (FindOn(board, n) \notin {Nil, n} => n \in phantoms')
  BY <1>1 DEF AddSwitch
<1>6. n \in DOMAIN board' \cup phantoms'
  <2>1. PICK r : r = AddRequest(n)
    OBVIOUS
  <2>2. r.kind = "add" /\ r.name = n /\ board' = Served(r).board
    BY <1>2, <2>1 DEF AddRequest, Serve
  <2>3. CASE FindOn(board, n) = Nil
    <3>1. board' = With(board, n, Blank(n))
      BY <2>2, <2>3 DEF Served
    <3> QED BY <3>1 DEF With
  <2>4. CASE FindOn(board, n) = n
    <3>1. n # Nil
      BY <1>2 DEF ProxyAssumption
    <3>2. n \in DOMAIN board
      BY <2>4, <3>1 DEF FindOn
    <3>3. board' = board
      BY <2>2, <2>4, <3>1 DEF Served
    <3> QED BY <3>2, <3>3
  <2> QED BY <1>5, <2>3, <2>4
<1>7. RegisterInv'
  BY <1>3, <1>6 DEF RegisterInv
<1>8. AddRequest(n) \in Requests
  BY <1>2 DEF AddRequest, Requests
<1> QED BY <1>2, <1>4, <1>5, <1>7, <1>8, RequestInv

LEMMA RegisterStepInv == ASSUME ProxyAssumption, BoardInv, Register PROVE BoardInv'
<1>1. PICK n : n = app.name
  OBVIOUS
<1>2. PICK k : k = NextHandle
  OBVIOUS
<1>3. /\ app.pc = "register" /\ NextHandle \in Handles
      /\ local' = With(local, NextHandle, Blank(n)) /\ switches' = With(switches, n, NextHandle) /\ held' = k
      /\ \/ app' = [app EXCEPT !.pc = "initial"] /\ lock' = lock
         \/ app' = [pc |-> "idle", name |-> Nil] /\ lock' = Nil
      /\ UNCHANGED <<board, stream, requests, reader, popped, told, phantoms>>
  BY <1>1, <1>2 DEF Register, serverVars
<1>4. /\ BoardShape /\ ServerShape /\ ClientShape /\ ShownInv /\ RegisterInv /\ ThreadInv
      /\ \A m \in SwitchNames : FollowInv(m)
  BY DEF BoardInv, BoardShape
<1>5. n \in SwitchNames /\ n \notin DOMAIN switches
  BY <1>1, <1>3, <1>4 DEF ThreadInv
<1>6. k \notin DOMAIN local /\ k # Nil
  BY <1>2, <1>3, <1>4, NextIsNew
<1>7. /\ ClientShape'
      /\ DOMAIN local' = DOMAIN local \cup {k} /\ DOMAIN switches' = DOMAIN switches \cup {n}
      /\ \A h \in DOMAIN local : local'[h] = local[h]
      /\ \A m \in DOMAIN switches : switches'[m] = switches[m]
      /\ local'[k] = Blank(n) /\ switches'[n] = k
      /\ \A h \in Range(switches) \cup {k} : h \in Range(switches)'
  BY <1>2, <1>3, <1>4, <1>5, Made
<1>8. \A h \in DOMAIN local : Seen(h)' = Seen(h)
  BY <1>3, <1>7 DEF Seen
<1>9. Seen(k)' = Blank(n)
  <2>1. reader.msg = Nil \/ reader.switch # k
    BY <1>4, <1>6 DEF ThreadInv
  <2> QED BY <1>3, <1>7, <2>1 DEF Seen
<1>a. ASSUME NEW m \in SwitchNames, m # n PROVE FollowInv(m)'
  <2>1. m \in DOMAIN switches' <=> m \in DOMAIN switches
    BY <1>7, <1>a
  <2>2. m \in DOMAIN switches => Seen(switches[m])' = Seen(switches[m])
    <3>1. m \in DOMAIN switches => switches[m] \in DOMAIN local /\ switches'[m] = switches[m]
      BY <1>4, <1>7 DEF ClientShape
    <3> QED BY <1>8, <3>1 DEF Seen
  <2>3. UNCHANGED <<stream, board>> /\ FollowInv(m) /\ (m \in phantoms => m \in phantoms')
    BY <1>3, <1>4
  <2> QED BY <1>4, <2>1, <2>2, <2>3, Still
<1>b. FollowInv(n)'
  <2>1. Seen(switches[n])' = Blank(n) /\ n \in DOMAIN switches'
    BY <1>7, <1>9 DEF Seen
  <2>2. \A i \in Nat : /\ Says(i, n)' <=> Says(i, n)
                       /\ SpecAt(i, n)' <=> SpecAt(i, n)
                       /\ GoneAt(i, n)' <=> GoneAt(i, n)
                       /\ AddAt(i, n)' <=> AddAt(i, n)
                       /\ StatusAt(i, n)' <=> StatusAt(i, n)
    BY <1>3 DEF Says, SpecAt, GoneAt, AddAt, StatusAt
  <2>3. Blank(n).status = "INITIAL"
    BY DEF Blank
  <2>4. FollowInv(n)
    BY <1>4, <1>5
  <2>5. SpecInv(n)'
    <3>1. ASSUME \A i \in Nat : ~SpecAt(i, n) PROVE n \notin DOMAIN board /\ n \in phantoms
      <4>1. n \notin DOMAIN board
        BY <1>5, <2>4, <3>1 DEF FollowInv, SpecInv
      <4>2. \A i \in Nat : ~GoneAt(i, n)
        BY <3>1 DEF GoneAt
      <4> QED BY <1>1, <1>3, <1>4, <4>1, <4>2 DEF RegisterInv
    <3>2. ASSUME \A i \in Nat : ~SpecAt(i, n)'
          PROVE  n \notin DOMAIN board' /\ n \in phantoms' /\ Seen(switches[n])'.status = "INITIAL"
      BY <1>3, <2>1, <2>2, <2>3, <3>1, <3>2
    <3>3. ASSUME NEW i \in Nat, SpecAt(i, n)', \A j \in Nat : SpecAt(j, n)' => j <= i
          PROVE  IF stream'[i].action = "REMOVAL" THEN n \notin DOMAIN board'
                 ELSE n \in DOMAIN board' /\ board'[n].spec = stream'[i].value
      BY <1>3, <2>2, <2>4, <3>3 DEF FollowInv, SpecInv
    <3> QED BY <3>2, <3>3 DEF SpecInv
  <2>6. StatusInv(n)'
    <3>1. ASSUME \A i \in Nat : ~StatusAt(i, n)' PROVE n \notin DOMAIN board'
      BY <1>3, <1>5, <2>2, <2>4, <3>1 DEF FollowInv, StatusInv
    <3>2. ASSUME NEW i \in Nat, StatusAt(i, n)', \A j \in Nat : StatusAt(j, n)' => j <= i
          PROVE  IF stream'[i].action = "REMOVAL" THEN n \notin DOMAIN board'
                 ELSE /\ n \in DOMAIN board'
                      /\ board'[n].status = IF stream'[i].field = "status" THEN stream'[i].value ELSE "INITIAL"
      BY <1>3, <2>2, <2>4, <3>2 DEF FollowInv, StatusInv
    <3> QED BY <3>1, <3>2 DEF StatusInv
  <2>7. OrderInv(n)'
    BY <1>3, <2>1, <2>2, <2>3, <2>4 DEF FollowInv, OrderInv
  <2> QED BY <2>5, <2>6, <2>7 DEF FollowInv
<1>c. ServerShape'
  BY <1>3, <1>4 DEF ServerShape
<1>d. ThreadInv'
  <2>1. reader' \in [switch : DOMAIN local' \cup {Nil}, msg : Signals \cup {Nil}]
    BY <1>3, <1>4, <1>7 DEF ThreadInv
  <2>2. /\ app' \in [pc : {"idle", "add", "register", "initial"}, name : SwitchNames \cup {Nil}]
        /\ app'.pc \in {"idle", "initial"}
        /\ \/ lock' = "app" /\ app'.pc # "idle"
           \/ lock' = Nil /\ app'.pc = "idle"
    BY <1>3, <1>4 DEF ThreadInv
  <2> QED BY <1>3, <1>4, <1>6, <1>7, <2>1, <2>2 DEF ThreadInv
<1>e. ShownInv'
  <2>1. HeldIsRegistered'
    BY <1>3, <1>7 DEF HeldIsRegistered
  <2>2. DOMAIN told' \subseteq DOMAIN local' /\ \A h \in DOMAIN told' : told'[h] = View(local[h])
    BY <1>3, <1>4, <1>7 DEF ShownInv
  <2>3. \A h \in DOMAIN told' : local'[h] = local[h]
    BY <1>3, <1>4, <1>7 DEF ShownInv
  <2> QED BY <2>1, <2>2, <2>3 DEF ShownInv
<1>f. RegisterInv'
  BY <1>3, <1>4 DEF RegisterInv, ThreadInv
<1> QED BY <1>7, <1>a, <1>b, <1>c, <1>d, <1>e, <1>f DEF BoardInv, BoardShape

\* Steps that change neither the server, the stream nor the client's switches.
LEMMA QuietInv ==
    ASSUME BoardInv, UNCHANGED <<board, stream, switches, local, reader, phantoms>>, ThreadInv', ShownInv',
           RegisterInv'
    PROVE  BoardInv'
<1>1. BoardShape'
  BY DEF BoardInv, BoardShape, ServerShape, ClientShape
<1>2. ASSUME NEW m \in SwitchNames PROVE FollowInv(m)'
  <2>1. m \in DOMAIN switches => Seen(switches[m])' = Seen(switches[m])
    BY DEF Seen
  <2>2. FollowInv(m) /\ BoardShape
    BY DEF BoardInv
  <2>3. (m \in phantoms => m \in phantoms') /\ (m \in DOMAIN switches' <=> m \in DOMAIN switches)
    OBVIOUS
  <2> QED BY <2>1, <2>2, <2>3, Still
<1> QED BY <1>1, <1>2 DEF BoardInv

LEMMA GetOrAddInv == ASSUME ProxyAssumption, BoardInv, NEW n \in SwitchNames, GetOrAdd(n) PROVE BoardInv'
<1>1. /\ app.pc = "idle" /\ lock = Nil /\ held' = GetSwitch(n)
      /\ \/ GetSwitch(n) = Nil /\ lock' = "app" /\ app' = [pc |-> "add", name |-> n]
         \/ GetSwitch(n) # Nil /\ lock' = lock /\ app' = app
      /\ UNCHANGED <<board, stream, requests, switches, local, reader, popped, told, phantoms>>
  BY DEF GetOrAdd, serverVars
<1>2. /\ GetSwitch(n) \in Range(switches) \cup {Nil}
      /\ GetSwitch(n) = Nil => n \notin DOMAIN switches
  <2>1. \A m \in DOMAIN switches : switches[m] # Nil /\ switches[m] \in Range(switches)
    BY DEF BoardInv, BoardShape, ClientShape, ProxyAssumption, Range
  <2>2. PICK known : known = {m \in DOMAIN switches : n \in local[switches[m]].spec.aliases}
    OBVIOUS
  <2>3. GetSwitch(n) = IF n \in DOMAIN switches THEN switches[n]
                       ELSE IF known = {} THEN Nil ELSE switches[CHOOSE m \in known : TRUE]
    BY <2>2 DEF GetSwitch
  <2>4. known # {} => (CHOOSE m \in known : TRUE) \in known
    OBVIOUS
  <2> QED BY <2>1, <2>2, <2>3, <2>4
<1>3. Range(switches) \subseteq DOMAIN local
  BY DEF BoardInv, BoardShape, ClientShape, Range
<1>4. ThreadInv'
  BY <1>1, <1>2, <1>3 DEF BoardInv, ThreadInv
<1>5. HeldIsRegistered'
  BY <1>1, <1>2 DEF HeldIsRegistered
<1>6. ShownInv'
  BY <1>1, <1>5 DEF BoardInv, ShownInv
<1>7. RegisterInv'
  BY <1>1 DEF RegisterInv
<1> QED BY <1>1, <1>4, <1>6, <1>7, QuietInv

LEMMA SubscribeInv == ASSUME ProxyAssumption, BoardInv, Subscribe PROVE BoardInv'
<1>1. /\ app.pc = "idle" /\ held # Nil
      /\ told' = IF held \in DOMAIN told THEN Without(told, held) ELSE With(told, held, View(local[held]))
      /\ UNCHANGED <<board, stream, requests, switches, local, lock, app, held, reader, popped, phantoms>>
  BY DEF Subscribe, serverVars
<1>2. ThreadInv'
  BY <1>1 DEF BoardInv, ThreadInv
<1>3. ShownInv'
  <2>1. held \in DOMAIN local
    BY <1>1 DEF BoardInv, ThreadInv
  <2>2. HeldIsRegistered'
    BY <1>1 DEF BoardInv, ShownInv, HeldIsRegistered
  <2>3. CASE held \in DOMAIN told
    <3>1. DOMAIN told' = DOMAIN told \ {held} /\ \A h \in DOMAIN told : h # held => told'[h] = told[h]
      BY <1>1, <2>3 DEF Without, Restrict
    <3> QED BY <1>1, <2>2, <3>1 DEF BoardInv, ShownInv
  <2>4. CASE held \notin DOMAIN told
    <3>1. /\ DOMAIN told' = DOMAIN told \cup {held} /\ told'[held] = View(local[held])
          /\ \A h \in DOMAIN told : told'[h] = told[h]
      BY <1>1, <2>4 DEF With
    <3> QED BY <1>1, <2>1, <2>2, <3>1 DEF BoardInv, ShownInv
  <2> QED BY <2>3, <2>4
<1>4. RegisterInv'
  BY <1>1 DEF RegisterInv
<1> QED BY <1>1, <1>2, <1>3, <1>4, QuietInv

-----------------------------------------------------------------------------
(* The theorems *)

LEMMA InitBoard == ASSUME ProxyAssumption, ProxyInit PROVE BoardInv
<1>1. /\ DOMAIN board = {} /\ DOMAIN switches = {} /\ DOMAIN local = {} /\ DOMAIN told = {} /\ DOMAIN stream = {}
  BY DEF ProxyInit
<1>2. BoardShape
  <2>1. stream \in Seq(Signals)
    BY DEF ProxyInit
  <2>2. DOMAIN local = 1 .. 0
    BY <1>1
  <2> QED BY <1>1, <2>1, <2>2 DEF BoardShape, ServerShape, ClientShape
<1>3. ThreadInv
  BY <1>1 DEF ProxyInit, ThreadInv
<1>4. ShownInv /\ RegisterInv
  BY <1>1 DEF ProxyInit, ShownInv, HeldIsRegistered, RegisterInv
<1>5. \A n \in SwitchNames : FollowInv(n)
  BY <1>1 DEF FollowInv, SpecInv, StatusInv, OrderInv, SpecAt, StatusAt, AddAt, Says
<1> QED BY <1>2, <1>3, <1>4, <1>5 DEF BoardInv

LEMMA BoardStep == ASSUME ProxyAssumption, BoardInv, [ProxyNext]_proxyVars PROVE BoardInv'
<1>1. CASE UNCHANGED proxyVars
  <2>1. UNCHANGED <<board, stream, switches, local, lock, app, held, reader, popped, told, phantoms>>
    BY <1>1 DEF proxyVars, serverVars, clientVars
  <2>2. ThreadInv' /\ ShownInv'
    BY <2>1 DEF BoardInv, ThreadInv, ShownInv, HeldIsRegistered
  <2>3. RegisterInv'
    BY <2>1 DEF BoardInv, RegisterInv, GoneAt, SpecAt, Says
  <2> QED BY <2>1, <2>2, <2>3, QuietInv
<1>2. CASE ProxyNext
  BY <1>2, OthersInv, GetOrAddInv, AddSwitchInv, RegisterStepInv, SetInitialInv, OperateInv, SubscribeInv,
     MappedInv, UpdateInv DEF ProxyNext
<1> QED BY <1>1, <1>2

\* Every switch of the server is on the board, as it is, once its signals were received.
LEMMA BoardShows == ASSUME ProxyAssumption, BoardInv PROVE BoardIsServers
<1> SUFFICES ASSUME AtRest PROVE BoardFollows
  BY DEF BoardIsServers, BoardFollows, BoardInv, ShownInv
<1>1. stream = <<>> /\ \A h : Seen(h) = local[h]
  BY DEF AtRest, Seen
<1>2. \A n : \A i \in Nat : ~SpecAt(i, n) /\ ~StatusAt(i, n)
  BY <1>1 DEF SpecAt, StatusAt, Says
<1>3. DOMAIN board \subseteq SwitchNames /\ DOMAIN switches \subseteq SwitchNames
  BY DEF BoardInv, BoardShape, ServerShape, ClientShape
<1>4. ASSUME NEW n \in SwitchNames
      PROVE  /\ n \in DOMAIN board => /\ n \in DOMAIN switches
                                      /\ local[switches[n]].spec = board[n].spec
                                      /\ local[switches[n]].status = board[n].status
             /\ n \in DOMAIN switches \ DOMAIN board => n \in phantoms
  BY <1>1, <1>2 DEF BoardInv, FollowInv, SpecInv, StatusInv
<1>5. ASSUME NEW n \in DOMAIN board PROVE View(local[switches[n]]) = View(board[n])
  <2>1. /\ local[switches[n]].spec = board[n].spec /\ local[switches[n]].status = board[n].status
        /\ local[switches[n]].name = board[n].name
    BY <1>3, <1>4, <1>5 DEF BoardInv, BoardShape, ServerShape, ClientShape
  <2> QED BY <2>1 DEF View, Texts, GetLocalization, IsPending, Target
<1> QED BY <1>3, <1>4, <1>5 DEF BoardFollows, BoardInv, ShownInv

\* The board of _get_mapped_switch(), _update_*() and get_or_add_switch() is the server's
\* at rest, and the application's switch the one that signals reach: for any names, any
\* requests of other clients and any interleaving of the two threads.
THEOREM Boards == ProxySpec => []BoardIsServers
<1>1. ProxyInit => BoardInv
  BY ProxyAssumption, InitBoard
<1>2. BoardInv /\ [ProxyNext]_proxyVars => BoardInv'
  BY ProxyAssumption, BoardStep
<1>3. BoardInv => BoardIsServers
  BY ProxyAssumption, BoardShows
<1> QED BY <1>1, <1>2, <1>3, PTL DEF ProxySpec

\* The types, and who holds the lock: the application, while it adds.
THEOREM BoardTypes == ProxySpec => []ProxyTypeOK
<1>1. ProxyInit => BoardInv
  BY ProxyAssumption, InitBoard
<1>2. BoardInv /\ [ProxyNext]_proxyVars => BoardInv'
  BY ProxyAssumption, BoardStep
<1>3. BoardInv => ProxyTypeOK
  BY ProxyAssumption DEF BoardInv, BoardShape, ServerShape, ClientShape, ThreadInv, ProxyTypeOK, ProxyAssumption
<1> QED BY <1>1, <1>2, <1>3, PTL DEF ProxySpec


-----------------------------------------------------------------------------
(***************************************************************************)
(* The streams of signals                                                  *)
(***************************************************************************)

(* The invariant of the streams *)

\* What is emitted carries a value or no signal at all.
Emission == {m \in Message : m.name # None => m.value # None}
CacheMaps == UNION {[ks -> Values] : ks \in {ks \in SUBSET (Keys \cup {None}) : IsFiniteSet(ks)}}
Calls ==
    [pc : {"new", "requested", "connect", "wait", "replay", "serve", "finally", "ended"},
     at : Nat, visited : SUBSET (Keys \cup {None}), size : Nat, held : Message \cup {None}]

WatchShape ==
    /\ DOMAIN cache \subseteq Names /\ \A n \in DOMAIN cache : cache[n] \in CacheMaps
    /\ completed \in BOOLEAN
    /\ slots \in [Names -> Seq(Streams)]
    /\ todo \in Seq(Emission) /\ telling \in Emission \cup {None}
    /\ call \in [Streams -> Calls]
    /\ queue \in [Streams -> Seq(Message)] /\ \A t \in Streams : Len(queue[t]) <= QueueSize
    /\ readers \in [Clients -> Streams \cup {None}]
    /\ worker \in [Streams -> {"new", "read", "finish", "ended"}]
    /\ mirror = [c \in Clients |-> mirror[c]]

\* Where a call is: in the midst of names, of which those before its place are registered.
Here(t) == call[t].pc \in {"connect", "wait", "replay", "serve"}
Registered(t, i) == i < call[t].at \/ (i = call[t].at /\ call[t].pc # "connect")

PlaceInv(t) ==
    /\ worker[t] = "new" <=> call[t].pc = "new"
    /\ call[t].pc \in {"new", "requested"} => queue[t] = <<>>
    /\ Here(t) => call[t].at >= 1
    /\ call[t].pc \in {"wait", "replay"} => call[t].at <= Len(Order)
    /\ call[t].pc = "serve" => call[t].at > Len(Order)
    /\ Here(t) /\ call[t].pc # "replay" => call[t].held = None
    /\ call[t].pc = "replay" /\ call[t].held # None =>
          /\ call[t].held.name = Order[call[t].at] /\ call[t].held.action # "REMOVAL"
          /\ call[t].held.key \in call[t].visited

\* The slots of a call: where it was, unless another call took them away; nothing was said
\* to it of the other names.
SlotsInv(t) ==
    /\ \A i \in DOMAIN Order :
          /\ t \in Range(slots[Order[i]]) =>
                (Here(t) /\ Registered(t, i)) \/ call[t].pc \in {"finally", "ended"}
          /\ Here(t) /\ Registered(t, i) /\ t \notin cut => t \in Range(slots[Order[i]])
          /\ Here(t) /\ ~Registered(t, i) => \A j \in DOMAIN queue[t] : queue[t][j].name # Order[i]

\* The mirror is empty until the first stream of its client serves.
MirrorInv(t) ==
    FirstStream(t) /\ call[t].pc \in {"new", "requested", "connect", "wait", "replay"} =>
        mirror[Client[t]] = EmptyCache

\* The emitter has cached what it is about to tell.
TellingInv ==
    telling # None /\ telling.name # None => Cached(cache, telling.name, telling.key) = Word(telling)

\* A message that is held for the queue is what is cached, or is about to be overtaken.
HeldInv(t) ==
    call[t].pc = "replay" /\ call[t].held # None /\ t \notin cut \cup overtaken =>
        \/ telling # None /\ About(telling, call[t].held.name, call[t].held.key)
        \/ Cached(cache, call[t].held.name, call[t].held.key) = call[t].held.value

\* What a stream will have said of a key, and what that is worth at its place: it is what
\* is cached for names that are done, and for keys that were visited and put; for the
\* others it is nothing yet, unless it was told of them.
Follows(t) == Here(t) /\ worker[t] = "read" /\ FirstStream(t) /\ t \notin cut \cup overtaken
Heard(t, n, k) == Applied(mirror[Client[t]], OnItsWay(t), n, k)
Claim(c, i, k, says, cached) ==
    /\ \/ i < c.at
       \/ i = c.at /\ c.pc = "wait"
       \/ i = c.at /\ c.pc = "replay" /\ k \in c.visited /\ (c.held = None \/ c.held.key # k)
       => says = cached
    /\ i = c.at /\ c.pc = "replay" /\ k \notin c.visited => says \in {None, cached}
Known(t) ==
    Follows(t) => \A i \in DOMAIN Order, k \in Keys \cup {None} :
        Claim(call[t], i, k, Heard(t, Order[i], k), Cached(cache, Order[i], k))

StreamInv(t) == PlaceInv(t) /\ SlotsInv(t) /\ MirrorInv(t) /\ HeldInv(t) /\ Known(t)
WatchInv == WatchShape /\ TellingInv /\ \A t \in Streams : StreamInv(t)

-----------------------------------------------------------------------------
(* What stores have: the last word on a key *)

LEMMA LeastNat ==
    ASSUME NEW S \in SUBSET Nat, S # {}
    PROVE  \E x \in S : \A y \in S : x <= y
<1> DEFINE Less == {ss \in Nat \X Nat : ss[1] < ss[2]}
<1>1. IsWellFoundedOn(Less, Nat)
  BY NatLessThanWellFounded DEF OpToRel
<1>2. PICK x \in S : \A y \in S : ~ (<<y, x>> \in Less)
  <2> HIDE DEF Less
  <2> QED BY <1>1, WFMin, Zenon
<1>3. \A y \in S : ~ (y < x)
  BY <1>2
<1> QED BY <1>3

\* The places of a sequence that have something have a last one.
LEMMA LastPlace ==
    ASSUME NEW n \in Nat, NEW S \in SUBSET (1 .. n), S # {}
    PROVE  Max(S) \in S /\ \A y \in S : y <= Max(S)
<1> DEFINE T == {n - x : x \in S}
<1>1. T \in SUBSET Nat /\ T # {}
  <2>1. \A x \in S : x \in 1 .. n /\ n - x \in Nat
    OBVIOUS
  <2> QED BY <2>1
<1>2. PICK t \in T : \A u \in T : t <= u
  <2> HIDE DEF T
  <2> QED BY <1>1, LeastNat
<1>3. PICK x \in S : t = n - x
  BY <1>2
<1>4. \A y \in S : x >= y
  <2> TAKE y \in S
  <2>1. n - y \in T
    OBVIOUS
  <2> QED BY <2>1, <1>2, <1>3
<1>5. Max(S) \in S /\ \A y \in S : Max(S) >= y
  BY <1>4 DEF Max
<1> QED BY <1>5

LEMMA AppliedNone ==
    ASSUME NEW c, NEW n, NEW k
    PROVE  Applied(c, <<>>, n, k) = Cached(c, n, k)
BY DEF Applied

\* The two ways a sequence of messages is a fold of them: a message behind the others has
\* the last word ...
LEMMA AppliedAppend ==
    ASSUME NEW c, NEW s \in Seq(Message), NEW m \in Message, NEW n, NEW k
    PROVE  Applied(c, Append(s, m), n, k) = IF About(m, n, k) THEN Word(m) ELSE Applied(c, s, n, k)
<1> DEFINE t == Append(s, m)
           L == Len(s)
           old == {i \in DOMAIN s : About(s[i], n, k)}
           new == {i \in DOMAIN t : About(t[i], n, k)}
<1>1. L \in Nat /\ DOMAIN s = 1 .. L /\ DOMAIN t = 1 .. (L + 1) /\ t[L + 1] = m
  OBVIOUS
<1>2. \A i \in 1 .. L : t[i] = s[i]
  OBVIOUS
<1>3. CASE About(m, n, k)
  <2>1. L + 1 \in new /\ new \in SUBSET (1 .. (L + 1)) /\ new # {}
    BY <1>1, <1>3
  <2>2. Max(new) \in new /\ \A y \in new : y <= Max(new)
    <3> HIDE DEF new
    <3> QED BY <2>1, <1>1, LastPlace, L + 1 \in Nat
  <2>3. Max(new) = L + 1
    <3>1. PICK x : x = Max(new)
      OBVIOUS
    <3>2. x \in 1 .. (L + 1) /\ L + 1 <= x
      <4> HIDE DEF new, L
      <4> QED BY <3>1, <2>1, <2>2
    <3>3. x = L + 1
      <4> HIDE DEF new, L
      <4> QED BY <3>2, <1>1
    <3> QED BY <3>1, <3>3
  <2> QED BY <2>1, <2>3, <1>1, <1>3 DEF Applied
<1>4. CASE ~ About(m, n, k)
  <2>1. new = old
    BY <1>1, <1>2, <1>4
  <2>2. old # {} => t[Max(old)] = s[Max(old)]
    <3> SUFFICES ASSUME old # {} PROVE t[Max(old)] = s[Max(old)]
      OBVIOUS
    <3>1. old \in SUBSET (1 .. L)
      BY <1>1
    <3>2. Max(old) \in 1 .. L
      <4> HIDE DEF old
      <4> QED BY <3>1, <1>1, LastPlace
    <3> QED BY <3>2, <1>2
  <2>3. Applied(c, t, n, k) = IF new = {} THEN Cached(c, n, k) ELSE Word(t[Max(new)])
    BY DEF Applied
  <2>4. Applied(c, s, n, k) = IF old = {} THEN Cached(c, n, k) ELSE Word(s[Max(old)])
    BY DEF Applied
  <2> HIDE DEF new, old, t
  <2>5. Applied(c, t, n, k) = Applied(c, s, n, k)
    BY <2>1, <2>2, <2>3, <2>4
  <2> QED BY <2>5, <1>4 DEF t
<1> QED BY <1>3, <1>4

\* What a store has after one message ...
LEMMA CachedUpdate ==
    ASSUME NEW c, NEW m, NEW n \in Names, NEW k
    PROVE  Cached(UpdateCache(c, m), n, k) = IF About(m, n, k) THEN Word(m) ELSE Cached(c, n, k)
<1> USE NoneAssumption
<1>1. CASE m.name = n
  <2> DEFINE old == DataMap(c, n)
             new == IF m.action = "REMOVAL" THEN Restrict(old, DOMAIN old \ {m.key})
                                            ELSE Put(old, m.key, m.value)
  <2>1. n # None
    OBVIOUS
  <2>2. UpdateCache(c, m) = Put(c, n, new)
    BY <1>1, <2>1 DEF UpdateCache
  <2>3. DataMap(Put(c, n, new), n) = new
    BY DEF DataMap, Put
  <2>4. (IF k \in DOMAIN new THEN new[k] ELSE None) =
           IF m.key = k THEN Word(m) ELSE IF k \in DOMAIN old THEN old[k] ELSE None
    <3>1. CASE m.action = "REMOVAL"
      BY <3>1 DEF Restrict, Word
    <3>2. CASE m.action # "REMOVAL"
      BY <3>2 DEF Put, Word
    <3> QED BY <3>1, <3>2
  <2> HIDE DEF old, new
  <2>5. Cached(UpdateCache(c, m), n, k) = IF k \in DOMAIN new THEN new[k] ELSE None
    BY <2>2, <2>3 DEF Cached
  <2>6. Cached(c, n, k) = IF k \in DOMAIN old THEN old[k] ELSE None
    BY DEF Cached, old
  <2> QED BY <2>4, <2>5, <2>6, <1>1 DEF About
<1>2. CASE m.name # n
  <2>1. DataMap(UpdateCache(c, m), n) = DataMap(c, n)
    BY <1>2 DEF UpdateCache, DataMap, Put
  <2> QED BY <2>1, <1>2 DEF Cached, About
<1> QED BY <1>1, <1>2

\* ... and a store that has taken the first one comes to the same.
LEMMA AppliedTail ==
    ASSUME NEW c, NEW s \in Seq(Message), s # <<>>, NEW n \in Names, NEW k
    PROVE  Applied(UpdateCache(c, Head(s)), Tail(s), n, k) = Applied(c, s, n, k)
<1> DEFINE t == Tail(s)
           L == Len(s)
           old == {i \in DOMAIN s : About(s[i], n, k)}
           new == {i \in DOMAIN t : About(t[i], n, k)}
<1>1. L \in Nat \ {0} /\ DOMAIN s = 1 .. L /\ Head(s) = s[1]
  BY EmptySeq
<1>2. DOMAIN t = 1 .. (L - 1) /\ \A i \in 1 .. (L - 1) : t[i] = s[i + 1]
  BY <1>1
<1>3. \A i \in 2 .. L : i - 1 \in 1 .. (L - 1) /\ t[i - 1] = s[i]
  <2> TAKE i \in 2 .. L
  <2>1. i - 1 \in 1 .. (L - 1) /\ (i - 1) + 1 = i
    BY <1>1
  <2> QED BY <2>1, <1>2
<1>4. Applied(UpdateCache(c, Head(s)), t, n, k) =
         IF new = {} THEN Cached(UpdateCache(c, s[1]), n, k) ELSE Word(t[Max(new)])
  BY <1>1 DEF Applied
<1>5. Applied(c, s, n, k) = IF old = {} THEN Cached(c, n, k) ELSE Word(s[Max(old)])
  BY DEF Applied
<1>6. old \in SUBSET (1 .. L) /\ new \in SUBSET (1 .. (L - 1))
  BY <1>1, <1>2
<1>7. CASE new = {}
  <2>1. old \subseteq {1}
    <3> SUFFICES ASSUME NEW i \in old, i # 1 PROVE FALSE
      OBVIOUS
    <3>1. i \in 2 .. L /\ About(s[i], n, k)
      BY <1>1
    <3>2. i - 1 \in new
      BY <3>1, <1>2, <1>3
    <3> QED BY <3>2, <1>7
  <2>2. 1 \in old <=> About(s[1], n, k)
    BY <1>1
  <2>3. CASE About(s[1], n, k)
    <3>1. old = {1}
      BY <2>1, <2>2, <2>3
    <3>2. Max(old) = 1
      BY <3>1 DEF Max
    <3>3. Cached(UpdateCache(c, s[1]), n, k) = Word(s[1])
      BY <2>3, CachedUpdate
    <3> HIDE DEF old, new, t, L
    <3> QED BY <3>1, <3>2, <3>3, <1>4, <1>5, <1>7 DEF t
  <2>4. CASE ~ About(s[1], n, k)
    <3>1. old = {}
      BY <2>1, <2>2, <2>4
    <3>2. Cached(UpdateCache(c, s[1]), n, k) = Cached(c, n, k)
      BY <2>4, CachedUpdate
    <3> HIDE DEF old, new, t, L
    <3> QED BY <3>1, <3>2, <1>4, <1>5, <1>7 DEF t
  <2> QED BY <2>3, <2>4
<1>8. CASE new # {}
  <2>1. Max(new) \in new /\ \A y \in new : y <= Max(new)
    <3> HIDE DEF new
    <3> QED BY <1>1, <1>6, <1>8, LastPlace, L - 1 \in Nat
  <2>2. Max(new) \in 1 .. (L - 1) /\ About(t[Max(new)], n, k)
    BY <2>1, <1>2
  <2>3. PICK j : j = Max(new)
    OBVIOUS
  <2>4. j \in 1 .. (L - 1) /\ j + 1 \in old
    <3>1. j \in 1 .. (L - 1) /\ About(t[j], n, k)
      <4> HIDE DEF t, L
      <4> QED BY <2>2, <2>3
    <3>2. t[j] = s[j + 1]
      BY <3>1, <1>2
    <3>3. j + 1 \in 1 .. L
      <4> HIDE DEF L
      <4> QED BY <3>1, <1>1
    <3> QED BY <3>1, <3>2, <3>3, <1>1
  <2>5. \A i \in old : i <= j + 1
    <3> SUFFICES ASSUME NEW i \in old PROVE i <= j + 1
      OBVIOUS
    <3>1. CASE i = 1
      BY <3>1, <2>4
    <3>2. CASE i # 1
      <4>1. i \in 2 .. L /\ About(s[i], n, k)
        BY <3>2, <1>1
      <4>2. i - 1 \in new
        BY <4>1, <1>2, <1>3
      <4>3. i - 1 <= j
        <5> HIDE DEF new
        <5> QED BY <4>2, <2>1, <2>3
      <4>4. i \in Int /\ j \in Int
        <5> HIDE DEF L
        <5> QED BY <4>1, <2>4, <1>1
      <4> QED BY <4>3, <4>4
    <3> QED BY <3>1, <3>2
  <2>6. old # {} /\ Max(old) \in old /\ \A y \in old : y <= Max(old)
    <3>1. old # {}
      BY <2>4
    <3> HIDE DEF old
    <3> QED BY <3>1, <1>1, <1>6, LastPlace
  <2>7. Max(old) = j + 1
    <3> HIDE DEF old, new, L
    <3>1. PICK x : x = Max(old)
      OBVIOUS
    <3>2. x \in 1 .. L /\ j + 1 <= x /\ x <= j + 1
      BY <3>1, <2>4, <2>5, <2>6, <1>6
    <3>3. x = j + 1
      BY <3>2, <2>4, <1>1
    <3> QED BY <3>1, <3>3
  <2>8. t[j] = s[j + 1]
    BY <2>4, <1>2
  <2> HIDE DEF old, new, t, L
  <2> QED BY <2>3, <2>6, <2>7, <2>8, <1>4, <1>5, <1>8 DEF t
<1> QED BY <1>7, <1>8

-----------------------------------------------------------------------------
(* The messages of a map update *)

LEMMA SetAsSeq ==
    ASSUME NEW S, IsFiniteSet(S)
    PROVE  /\ SetToSeq(S) \in Seq(S)
           /\ \A x \in S : \E i \in DOMAIN SetToSeq(S) : SetToSeq(S)[i] = x
<1> DEFINE c == Cardinality(S)
<1>1. c \in Nat /\ ExistsBijection(1 .. c, S)
  BY FS_CardinalityType
<1>2. \E f \in [1 .. c -> S] : IsInjective(f)
  BY <1>1 DEF ExistsBijection, Bijection, Injection
<1>3. PICK f : f = SetToSeq(S)
  OBVIOUS
<1>4. f \in [1 .. c -> S] /\ IsInjective(f)
  BY <1>2, <1>3 DEF SetToSeq
<1>5. f \in Injection(1 .. c, S)
  BY <1>4 DEF Injection
<1>6. Cardinality(1 .. c) = c
  BY <1>1, FS_Interval
<1>7. f \in Surjection(1 .. c, S)
  <2> HIDE DEF c
  <2>1. Cardinality(1 .. c) = Cardinality(S) <=> f \in Surjection(1 .. c, S)
    BY <1>5, FS_Injection
  <2> QED BY <2>1, <1>6 DEF c
<1>8. f \in Seq(S)
  BY <1>4, <1>1
<1>9. \A x \in S : \E i \in DOMAIN f : f[i] = x
  BY <1>7, <1>4 DEF Surjection
<1> QED BY <1>3, <1>8, <1>9

\* emit_mapping() changes nothing when the value is what is cached already; else its
\* message carries the value.
LEMMA ActionIs ==
    ASSUME NEW old, NEW v \in Values
    PROVE  /\ ActionFor(old, v) = None <=> old = v
           /\ ActionFor(old, v) # None => ActionFor(old, v) \in {"ADDITION", "UPDATE"}
BY NoneAssumption DEF ActionFor, Actions

LEMMA MapIsFinite ==
    ASSUME NEW m \in CacheMaps
    PROVE  /\ m \in [DOMAIN m -> Values] /\ DOMAIN m \in SUBSET (Keys \cup {None})
           /\ IsFiniteSet(DOMAIN m)
BY DEF CacheMaps

LEMMA MapsAreCached == Maps \subseteq CacheMaps
BY DEF Maps, CacheMaps

\* The messages of a map update, whatever is cached: those of the keys that go, those of
\* the keys that differ, all with the value that the key comes to.
LEMMA MapUpdate ==
    ASSUME NEW c, NEW n \in Names, NEW new \in Maps, DataMap(c, n) \in CacheMaps
    PROVE  /\ EmitMapUpdate(c, n, new) \in Seq(Emission)
           /\ \A k : Applied(c, EmitMapUpdate(c, n, new), n, k)
                        = IF k \in DOMAIN new THEN new[k] ELSE None
<1> USE NoneAssumption
<1> DEFINE current == DataMap(c, n)
           lost == DOMAIN current \ DOMAIN new
           action == [k \in DOMAIN new |-> ActionFor(Cached(c, n, k), new[k])]
           changed == {k \in DOMAIN new : action[k] # None}
           gone == SetToSeq(lost)
           differs == SetToSeq(changed)
           removals == [i \in DOMAIN gone |-> MappingMessage(n, "REMOVAL", gone[i], current[gone[i]])]
           changes == [i \in DOMAIN differs |->
                          MappingMessage(n, action[differs[i]], differs[i], new[differs[i]])]
<1>1. /\ current \in [DOMAIN current -> Values] /\ DOMAIN current \in SUBSET (Keys \cup {None})
      /\ IsFiniteSet(DOMAIN current)
  BY MapIsFinite
<1>2. /\ new \in [DOMAIN new -> Values] /\ DOMAIN new \in SUBSET (Keys \cup {None})
      /\ IsFiniteSet(DOMAIN new)
  BY MapIsFinite, MapsAreCached
<1>3. /\ gone \in Seq(lost) /\ \A x \in lost : \E i \in DOMAIN gone : gone[i] = x
  <2>1. IsFiniteSet(lost)
    BY <1>1, FS_Subset, lost \in SUBSET DOMAIN current
  <2> HIDE DEF lost
  <2> QED BY <2>1, SetAsSeq
<1>4. /\ differs \in Seq(changed) /\ \A x \in changed : \E i \in DOMAIN differs : differs[i] = x
  <2>1. IsFiniteSet(changed)
    BY <1>2, FS_Subset, changed \in SUBSET DOMAIN new
  <2> HIDE DEF changed
  <2> QED BY <2>1, SetAsSeq
<1>5. EmitMapUpdate(c, n, new) = removals \o changes
  BY DEF EmitMapUpdate
<1>6. \A k \in DOMAIN new : Cached(c, n, k) = new[k] <=> k \notin changed
  BY <1>2, ActionIs
<1>7. \A k \in changed : action[k] \in {"ADDITION", "UPDATE"} /\ new[k] \in Values
  BY <1>2, ActionIs
<1>8. \A i \in DOMAIN gone :
         /\ gone[i] \in lost
         /\ removals[i] = Msg(n, "REMOVAL", gone[i], current[gone[i]]) /\ removals[i] \in Emission
         /\ removals[i].name = n /\ removals[i].key = gone[i] /\ Word(removals[i]) = None
  <2> SUFFICES ASSUME NEW i \in DOMAIN gone
               PROVE /\ gone[i] \in lost
                     /\ removals[i] = Msg(n, "REMOVAL", gone[i], current[gone[i]]) /\ removals[i] \in Emission
                     /\ removals[i].name = n /\ removals[i].key = gone[i] /\ Word(removals[i]) = None
    OBVIOUS
  <2>1. PICK k : k = gone[i]
    OBVIOUS
  <2>2. k \in lost
    <3> HIDE DEF lost
    <3> QED BY <1>3, <2>1
  <2>3. current[k] \in Values /\ current[k] # None /\ k \in Keys \cup {None}
    BY <2>2, <1>1
  <2>4. removals[i] = MappingMessage(n, "REMOVAL", k, current[k])
    BY <2>1
  <2>5. removals[i] = Msg(n, "REMOVAL", k, current[k])
    BY <2>4, <2>3 DEF MappingMessage
  <2>6. Msg(n, "REMOVAL", k, current[k]) \in Emission
    BY <2>3 DEF Msg, Emission, Message, Actions
  <2>7. /\ Msg(n, "REMOVAL", k, current[k]).name = n /\ Msg(n, "REMOVAL", k, current[k]).key = k
        /\ Word(Msg(n, "REMOVAL", k, current[k])) = None
    BY DEF Msg, Word
  <2> HIDE DEF lost, removals, gone, current
  <2> QED BY <2>1, <2>2, <2>5, <2>6, <2>7
<1>9. \A i \in DOMAIN differs :
         /\ differs[i] \in changed /\ changes[i] \in Emission
         /\ changes[i].name = n /\ changes[i].key = differs[i] /\ Word(changes[i]) = new[differs[i]]
  <2> SUFFICES ASSUME NEW i \in DOMAIN differs
               PROVE /\ differs[i] \in changed /\ changes[i] \in Emission
                     /\ changes[i].name = n /\ changes[i].key = differs[i]
                     /\ Word(changes[i]) = new[differs[i]]
    OBVIOUS
  <2>1. PICK k : k = differs[i]
    OBVIOUS
  <2>2. k \in changed
    <3> HIDE DEF changed
    <3> QED BY <1>4, <2>1
  <2>3. PICK a : a = action[k]
    OBVIOUS
  <2>4. a \in {"ADDITION", "UPDATE"} /\ new[k] \in Values /\ new[k] # None
    BY <2>2, <2>3, <1>7
  <2>5. k \in Keys \cup {None}
    BY <2>2, <1>2
  <2>6. changes[i] = MappingMessage(n, a, k, new[k])
    BY <2>1, <2>3
  <2>7. changes[i] = Msg(n, a, k, new[k])
    BY <2>6, <2>4 DEF MappingMessage
  <2>8. Msg(n, a, k, new[k]) \in Emission
    BY <2>4, <2>5 DEF Msg, Emission, Message, Actions
  <2>9. Msg(n, a, k, new[k]).name = n /\ Msg(n, a, k, new[k]).key = k /\ Word(Msg(n, a, k, new[k])) = new[k]
    BY <2>4 DEF Msg, Word
  <2> HIDE DEF changed, changes, differs, action, current
  <2> QED BY <2>1, <2>2, <2>7, <2>8, <2>9
<1> DEFINE s == removals \o changes
<1>10. removals \in Seq(Emission) /\ changes \in Seq(Emission)
       /\ DOMAIN removals = DOMAIN gone /\ DOMAIN changes = DOMAIN differs
  <2>1. \E l \in Nat : DOMAIN gone = 1 .. l
    <3> HIDE DEF gone, lost
    <3> QED BY <1>3
  <2>2. \E l \in Nat : DOMAIN differs = 1 .. l
    <3> HIDE DEF differs, changed
    <3> QED BY <1>4
  <2>3. DOMAIN removals = DOMAIN gone /\ DOMAIN changes = DOMAIN differs
    OBVIOUS
  <2>4. removals = [i \in DOMAIN gone |-> removals[i]] /\ changes = [i \in DOMAIN differs |-> changes[i]]
    OBVIOUS
  <2>5. \A i \in DOMAIN gone : removals[i] \in Emission
    BY <1>8
  <2>6. \A i \in DOMAIN differs : changes[i] \in Emission
    BY <1>9
  <2> HIDE DEF removals, changes, gone, differs, lost, changed, action
  <2>7. removals \in Seq(Emission)
    BY <2>1, <2>4, <2>5
  <2>8. changes \in Seq(Emission)
    BY <2>2, <2>4, <2>6
  <2> QED BY <2>3, <2>7, <2>8
<1> DEFINE P == Len(removals)
           Q == Len(changes)
<1>11. P \in Nat /\ Q \in Nat /\ DOMAIN removals = 1 .. P /\ DOMAIN changes = 1 .. Q
  <2> HIDE DEF removals, changes
  <2> QED BY <1>10
<1>12. /\ s \in Seq(Emission) /\ DOMAIN s = 1 .. (P + Q)
       /\ \A i \in 1 .. P : s[i] = removals[i]
       /\ \A i \in 1 .. Q : P + i \in 1 .. (P + Q) /\ s[P + i] = changes[i]
       /\ \A i \in 1 .. (P + Q) : i \in 1 .. P \/ (i - P \in 1 .. Q /\ i = P + (i - P))
  <2> HIDE DEF removals, changes
  <2>1. s \in Seq(Emission) /\ Len(s) = P + Q
    BY <1>10
  <2>2. \A i \in 1 .. P : s[i] = removals[i]
    BY <1>10, <1>11
  <2>3. \A i \in 1 .. Q : P + i \in 1 .. (P + Q) /\ s[P + i] = changes[i]
    BY <1>10, <1>11
  <2>4. \A i \in 1 .. (P + Q) : i \in 1 .. P \/ (i - P \in 1 .. Q /\ i = P + (i - P))
    <3> HIDE DEF P, Q
    <3> QED BY <1>11
  <2>5. DOMAIN s = 1 .. (P + Q)
    BY <2>1, <1>11
  <2> QED BY <2>1, <2>2, <2>3, <2>4, <2>5
<1>13. \A k : Applied(c, s, n, k) = IF k \in DOMAIN new THEN new[k] ELSE None
  <2> TAKE k
  <2> DEFINE about == {i \in DOMAIN s : About(s[i], n, k)}
  <2>1. Applied(c, s, n, k) = IF about = {} THEN Cached(c, n, k) ELSE Word(s[Max(about)])
    BY DEF Applied
  <2>2. about # {} => Max(about) \in DOMAIN s /\ About(s[Max(about)], n, k)
    <3> SUFFICES ASSUME about # {} PROVE Max(about) \in about
      OBVIOUS
    <3>1. about \in SUBSET (1 .. (P + Q)) /\ P + Q \in Nat
      <4> HIDE DEF s, P, Q, removals, changes
      <4> QED BY <1>11, <1>12
    <3> HIDE DEF about, P, Q
    <3> QED BY <3>1, LastPlace
  <2> HIDE DEF s, removals, changes, about, P, Q
  <2>3. \A i \in DOMAIN s : About(s[i], n, k) =>
           /\ k \in lost \/ k \in changed
           /\ Word(s[i]) = IF k \in lost THEN None ELSE new[k]
    <3> SUFFICES ASSUME NEW i \in DOMAIN s, About(s[i], n, k)
                 PROVE /\ k \in lost \/ k \in changed
                       /\ Word(s[i]) = IF k \in lost THEN None ELSE new[k]
      OBVIOUS
    <3>1. CASE i \in 1 .. P
      <4>1. s[i] = removals[i] /\ i \in DOMAIN gone
        BY <3>1, <1>10, <1>11, <1>12
      <4>2. k \in lost /\ Word(s[i]) = None
        <5> HIDE DEF lost, gone
        <5> QED BY <4>1, <1>8 DEF About
      <4> QED BY <4>2
    <3>2. CASE i \notin 1 .. P
      <4>1. PICK j \in 1 .. Q : s[i] = changes[j]
        BY <3>2, <1>12
      <4>2. j \in DOMAIN differs
        BY <4>1, <1>10, <1>11
      <4>3. k \in changed /\ Word(s[i]) = new[k]
        <5> HIDE DEF changed, differs
        <5> QED BY <4>1, <4>2, <1>9 DEF About
      <4>4. k \notin lost
        BY <4>3
      <4> HIDE DEF lost, changed
      <4> QED BY <4>3, <4>4
    <3> QED BY <3>1, <3>2
  <2>4. k \in lost \/ k \in changed => about # {}
    <3>1. CASE k \in lost
      <4>1. PICK i \in DOMAIN gone : gone[i] = k
        <5> HIDE DEF gone, lost
        <5> QED BY <3>1, <1>3
      <4>2. i \in 1 .. P /\ i \in DOMAIN s
        <5> HIDE DEF gone
        <5> QED BY <4>1, <1>10, <1>11, <1>12
      <4>3. About(s[i], n, k)
        <5> HIDE DEF gone, lost
        <5> QED BY <4>1, <4>2, <1>8, <1>12 DEF About
      <4> QED BY <4>2, <4>3 DEF about
    <3>2. CASE k \in changed
      <4>1. PICK j \in DOMAIN differs : differs[j] = k
        <5> HIDE DEF differs, changed
        <5> QED BY <3>2, <1>4
      <4>2. j \in 1 .. Q /\ P + j \in DOMAIN s
        <5> HIDE DEF differs
        <5> QED BY <4>1, <1>10, <1>11, <1>12
      <4>3. About(s[P + j], n, k)
        <5> HIDE DEF differs, changed
        <5> QED BY <4>1, <4>2, <1>9, <1>12 DEF About
      <4> QED BY <4>2, <4>3 DEF about
    <3> HIDE DEF lost, changed
    <3> QED BY <3>1, <3>2
  <2>5. CASE about # {}
    <3>1. Applied(c, s, n, k) = IF k \in lost THEN None ELSE new[k]
      <4> HIDE DEF lost, changed
      <4> QED BY <2>1, <2>2, <2>3, <2>5
    <3>2. k \in lost \/ k \in changed
      <4> HIDE DEF lost, changed
      <4> QED BY <2>2, <2>3, <2>5
    <3>3. k \in lost => k \notin DOMAIN new
      OBVIOUS
    <3>4. k \in changed => k \in DOMAIN new
      OBVIOUS
    <3> HIDE DEF lost, changed
    <3> QED BY <3>1, <3>2, <3>3, <3>4
  <2>6. CASE about = {}
    <3>1. k \notin lost /\ k \notin changed
      BY <2>4, <2>6
    <3>2. Applied(c, s, n, k) = Cached(c, n, k)
      BY <2>1, <2>6
    <3>3. CASE k \in DOMAIN new
      BY <3>1, <3>2, <3>3, <1>6
    <3>4. CASE k \notin DOMAIN new
      <4>1. k \notin DOMAIN current
        BY <3>1, <3>4
      <4> QED BY <4>1, <3>2, <3>4 DEF Cached
    <3> QED BY <3>3, <3>4
  <2> QED BY <2>5, <2>6
<1> HIDE DEF removals, changes
<1> QED BY <1>5, <1>12, <1>13

-----------------------------------------------------------------------------
(* Types *)

LEMMA EmptyIsMap == <<>> \in CacheMaps
<1>1. <<>> \in [{} -> Values] /\ IsFiniteSet({}) /\ {} \in SUBSET (Keys \cup {None})
  BY FS_EmptySet
<1> QED BY <1>1 DEF CacheMaps

LEMMA CachedMaps ==
    ASSUME NEW c, \A x \in DOMAIN c : c[x] \in CacheMaps
    PROVE  \A n : DataMap(c, n) \in CacheMaps
BY EmptyIsMap DEF DataMap

LEMMA UpdateShape ==
    ASSUME NEW c, DOMAIN c \subseteq Names, \A x \in DOMAIN c : c[x] \in CacheMaps,
           NEW m \in Emission
    PROVE  /\ DOMAIN UpdateCache(c, m) \subseteq Names
           /\ \A x \in DOMAIN UpdateCache(c, m) : UpdateCache(c, m)[x] \in CacheMaps
<1> USE NoneAssumption
<1>1. CASE m.name = None
  BY <1>1 DEF UpdateCache
<1>2. CASE m.name # None
  <2> DEFINE old == DataMap(c, m.name)
             new == IF m.action = "REMOVAL" THEN Restrict(old, DOMAIN old \ {m.key})
                                            ELSE Put(old, m.key, m.value)
  <2>1. m.name \in Names /\ m.key \in Keys \cup {None} /\ m.value \in Values
    BY <1>2 DEF Emission, Message
  <2>2. UpdateCache(c, m) = Put(c, m.name, new)
    BY <1>2 DEF UpdateCache
  <2>3. old \in CacheMaps
    BY CachedMaps
  <2>4. /\ old \in [DOMAIN old -> Values] /\ DOMAIN old \in SUBSET (Keys \cup {None})
        /\ IsFiniteSet(DOMAIN old)
    BY <2>3, MapIsFinite
  <2>5. new \in CacheMaps
    <3>1. CASE m.action = "REMOVAL"
      <4>1. new \in [DOMAIN old \ {m.key} -> Values]
        BY <2>4, <3>1 DEF Restrict
      <4>2. IsFiniteSet(DOMAIN old \ {m.key})
        BY <2>4, FS_RemoveElement
      <4>3. DOMAIN old \ {m.key} \in SUBSET (Keys \cup {None})
        BY <2>4
      <4> HIDE DEF new, old
      <4> QED BY <4>1, <4>2, <4>3 DEF CacheMaps
    <3>2. CASE m.action # "REMOVAL"
      <4>1. new \in [DOMAIN old \cup {m.key} -> Values]
        BY <2>1, <2>4, <3>2 DEF Put
      <4>2. IsFiniteSet(DOMAIN old \cup {m.key})
        BY <2>4, FS_AddElement
      <4>3. DOMAIN old \cup {m.key} \in SUBSET (Keys \cup {None})
        BY <2>1, <2>4
      <4> HIDE DEF new, old
      <4> QED BY <4>1, <4>2, <4>3 DEF CacheMaps
    <3> QED BY <3>1, <3>2
  <2> HIDE DEF new
  <2> QED BY <2>1, <2>2, <2>5 DEF Put
<1> QED BY <1>1, <1>2

\* A call that replays or waits is at one of the names.
LEMMA Placed ==
    ASSUME WatchAssumption, WatchShape, NEW t \in Streams, PlaceInv(t),
           call[t].pc \in {"wait", "replay"} \/ (call[t].pc = "connect" /\ call[t].at <= Len(Order))
    PROVE  call[t].at \in DOMAIN Order /\ Order[call[t].at] \in Names
BY DEF WatchAssumption, WatchShape, Calls, PlaceInv, Here

LEMMA EventIsEmission ==
    ASSUME WatchAssumption, NEW n \in EventNames
    PROVE  EmitEvent(n, CHOOSE v \in Values : TRUE) \in Seq(Emission)
<1>1. PICK v : v = CHOOSE w \in Values : TRUE
  OBVIOUS
<1>2. v \in Values
  BY <1>1 DEF WatchAssumption
<1>3. Msg(n, "NONE", None, v) \in Emission
  BY <1>2, NoneAssumption DEF Msg, Emission, Message, Actions, WatchAssumption
<1> QED BY <1>1, <1>3 DEF EmitEvent

LEMMA MappingIsEmission ==
    ASSUME NEW c, NEW n \in Names, NEW k \in Keys, NEW v \in Values \cup {None}
    PROVE  EmitMapping(c, n, k, v) \in Seq(Emission)
<1> USE NoneAssumption
<1>1. PICK a : a = ActionFor(Cached(c, n, k), v)
  OBVIOUS
<1>2. a # None => a \in Actions
  BY <1>1 DEF ActionFor, Actions
<1>3. a # None => MappingMessage(n, a, k, v) \in Emission
  BY <1>2 DEF MappingMessage, Msg, Emission, Message
<1>4. EmitMapping(c, n, k, v) = IF a = None THEN <<>> ELSE <<MappingMessage(n, a, k, v)>>
  BY <1>1 DEF EmitMapping
<1> QED BY <1>3, <1>4

\* What asks the emitter for messages, and does nothing else.
Asks == \E ms \in Seq(Emission) : Ask(ms)

LEMMA OnlyAsks ==
    ASSUME WatchAssumption, WatchShape, AskEvent \/ AskMapping \/ AskMapUpdate
    PROVE  Asks
<1>1. CASE AskEvent
  BY <1>1, EventIsEmission DEF AskEvent, Asks
<1>2. CASE AskMapping
  <2>1. PICK n \in Names \ EventNames, kv \in Mappings : Ask(EmitMapping(cache, n, kv[1], kv[2]))
    BY <1>2 DEF AskMapping
  <2>2. kv[1] \in Keys /\ kv[2] \in Values \cup {None}
    BY DEF WatchAssumption
  <2>3. EmitMapping(cache, n, kv[1], kv[2]) \in Seq(Emission)
    BY <2>2, MappingIsEmission
  <2> QED BY <2>1, <2>3 DEF Asks
<1>3. CASE AskMapUpdate
  <2>1. PICK n \in Names \ EventNames, new \in Updates : Ask(EmitMapUpdate(cache, n, new))
    BY <1>3 DEF AskMapUpdate
  <2>2. new \in Maps
    BY DEF WatchAssumption
  <2>3. DataMap(cache, n) \in CacheMaps
    BY CachedMaps DEF WatchShape
  <2>4. EmitMapUpdate(cache, n, new) \in Seq(Emission)
    BY <2>2, <2>3, MapUpdate
  <2> QED BY <2>1, <2>4 DEF Asks
<1> QED BY <1>1, <1>2, <1>3

LEMMA ShapeOfEmitter ==
    ASSUME WatchAssumption, WatchShape, Asks \/ EmitToCache \/ EmitToSlots
    PROVE  WatchShape'
<1>1. CASE Asks
  BY <1>1 DEF Asks, Ask, WatchShape, storeVars, readerVars
<1>2. CASE EmitToCache
  <2>1. Head(todo) \in Emission /\ Tail(todo) \in Seq(Emission)
    BY <1>2 DEF EmitToCache, WatchShape
  <2>2. DOMAIN cache' \subseteq Names /\ \A n \in DOMAIN cache' : cache'[n] \in CacheMaps
    BY <1>2, <2>1, UpdateShape DEF EmitToCache, WatchShape
  <2> QED BY <1>2, <2>1, <2>2 DEF EmitToCache, WatchShape, readerVars
<1>3. CASE EmitToSlots
  <2>1. telling \in Message
    BY <1>3 DEF EmitToSlots, WatchShape, Emission
  <2>0. PICK T : T = IF telling.name = None THEN {}
                     ELSE {t \in Range(slots[telling.name]) : call[t].pc # "ended"}
    OBVIOUS
  <2>2. queue' = [t \in Streams |-> IF t \in T \ Refused(T) THEN Append(queue[t], telling) ELSE queue[t]]
    BY <1>3, <2>0 DEF EmitToSlots
  <2>3. \A t \in Streams : queue'[t] \in Seq(Message) /\ Len(queue'[t]) <= QueueSize
    <3> SUFFICES ASSUME NEW t \in Streams
                 PROVE queue'[t] \in Seq(Message) /\ Len(queue'[t]) <= QueueSize
      OBVIOUS
    <3>1. queue[t] \in Seq(Message) /\ Len(queue[t]) <= QueueSize /\ Len(queue[t]) \in Nat
      BY DEF WatchShape
    <3>2. CASE t \in T \ Refused(T)
      <4>1. queue'[t] = Append(queue[t], telling) /\ Len(queue[t]) < QueueSize
        BY <2>2, <3>1, <3>2 DEF Refused, Full, WatchAssumption
      <4> QED BY <4>1, <2>1, <3>1 DEF WatchAssumption
    <3>3. CASE t \notin T \ Refused(T)
      BY <3>1, <3>3, <2>2
    <3> QED BY <3>2, <3>3
  <2>4. completed' \in BOOLEAN
    BY <1>3 DEF EmitToSlots, WatchShape, Completes
  <2>5. queue' \in [Streams -> Seq(Message)]
    BY <2>2, <2>3
  <2>6. telling' = None
    BY <1>3 DEF EmitToSlots
  <2>7. UNCHANGED <<cache, slots, todo, emits, call, readers, worker, mirror>>
    BY <1>3 DEF EmitToSlots, readerVars
  <2> QED BY <2>3, <2>4, <2>5, <2>6, <2>7 DEF WatchShape
<1> QED BY <1>1, <1>2, <1>3

LEMMA ShapeOfReader ==
    ASSUME WatchAssumption, WatchShape, NEW t \in Streams, NEW d \in Clients,
           StartWatching(t) \/ StopWatching(d) \/ ReaderEnds(t) \/ Deliver(t)
    PROVE  WatchShape'
<1>1. Client[t] \in Clients
  BY DEF WatchAssumption
<1>2. CASE StartWatching(t)
  <2>1. call[t] \in Calls
    BY DEF WatchShape
  <2>2. [call[t] EXCEPT !.pc = "requested"] \in Calls
    BY <2>1 DEF Calls
  <2>3. call' \in [Streams -> Calls]
    BY <1>2, <2>2 DEF StartWatching, WatchShape
  <2> QED BY <1>1, <1>2, <2>3 DEF StartWatching, Started, WatchShape, storeVars, emitterVars
<1>3. CASE StopWatching(d)
  BY <1>3 DEF StopWatching, Forgotten, WatchShape, storeVars, emitterVars
<1>4. CASE ReaderEnds(t)
  BY <1>1, <1>4 DEF ReaderEnds, Forgotten, WatchShape, storeVars, emitterVars
<1>5. CASE Deliver(t)
  <2>1. Tail(queue[t]) \in Seq(Message) /\ Len(Tail(queue[t])) <= QueueSize
    BY <1>5 DEF Deliver, WatchShape, WatchAssumption
  <2>2. /\ queue' \in [Streams -> Seq(Message)]
        /\ \A u \in Streams : Len(queue'[u]) <= QueueSize
    BY <1>5, <2>1 DEF Deliver, WatchShape
  <2>3. worker' \in [Streams -> {"new", "read", "finish", "ended"}]
    BY <1>5 DEF Deliver, WatchShape
  <2>4. mirror' = [c \in Clients |-> mirror'[c]]
    BY <1>5 DEF Deliver, WatchShape
  <2> QED BY <1>5, <2>2, <2>3, <2>4 DEF Deliver, WatchShape, storeVars, emitterVars
<1> QED BY <1>2, <1>3, <1>4, <1>5

\* A replay begins with a map of some size.
LEMMA ReplayIsCall ==
    ASSUME WatchShape, NEW t \in Streams, NEW n
    PROVE  Onwards(t) \in Calls /\ Replaying(t, n) \in Calls
<1>1. call[t] \in Calls
  BY DEF WatchShape
<1>2. call[t].at \in Nat /\ call[t].at + 1 \in Nat
  BY <1>1 DEF Calls
<1>3. Onwards(t) \in Calls
  BY <1>2 DEF Onwards, NoCall, Calls
<1>4. n \in DOMAIN cache => Cardinality(DOMAIN cache[n]) \in Nat
  BY MapIsFinite, FS_CardinalityType DEF WatchShape
<1>5. n \in DOMAIN cache => Replaying(t, n) \in Calls
  BY <1>1, <1>4 DEF Replaying, Calls
<1> QED BY <1>3, <1>5 DEF Replaying

LEMMA ShapeOfCall ==
    ASSUME WatchAssumption, WatchShape, NEW t \in Streams, PlaceInv(t),
           Accept(t) \/ ConnectSlots(t) \/ WaitComplete(t) \/ ReplayNext(t) \/ ReplayPut(t)
              \/ Mark(t) \/ Undeliverable(t) \/ Finally(t)
    PROVE  WatchShape'
<1>1. call[t] \in Calls /\ queue[t] \in Seq(Message) /\ Len(queue[t]) <= QueueSize
  BY DEF WatchShape
<1>2. CASE Accept(t)
  <2>1. [NoCall EXCEPT !.pc = "connect", !.at = 1] \in Calls
    BY DEF NoCall, Calls
  <2>2. call' \in [Streams -> Calls]
    BY <1>2, <2>1 DEF Accept, WatchShape
  <2> QED BY <1>2, <2>2 DEF Accept, WatchShape, storeVars, emitterVars, readerVars
<1>3. CASE ConnectSlots(t)
  <2>1. Order[call[t].at] \in Names
    BY <1>3, Placed DEF ConnectSlots
  <2>2. slots' \in [Names -> Seq(Streams)]
    BY <1>3, <2>1 DEF ConnectSlots, WatchShape
  <2>3. [call[t] EXCEPT !.pc = "wait"] \in Calls
    BY <1>1 DEF Calls
  <2>4. \E x \in Calls : call' = [call EXCEPT ![t] = x]
    BY <1>3, <2>3, ReplayIsCall DEF ConnectSlots, WatchShape
  <2>5. call' \in [Streams -> Calls]
    BY <2>4 DEF WatchShape
  <2> QED BY <1>3, <2>2, <2>5 DEF ConnectSlots, WatchShape, emitterVars, readerVars
<1>4. CASE WaitComplete(t)
  <2>1. call' \in [Streams -> Calls]
    BY <1>4, ReplayIsCall DEF WaitComplete, WatchShape
  <2> QED BY <1>4, <2>1 DEF WaitComplete, WatchShape, storeVars, emitterVars, readerVars
<1>5. CASE ReplayNext(t)
  <2> DEFINE n == Order[call[t].at]
             map == DataMap(cache, n)
  <2>1. n \in Names
    BY <1>5, Placed DEF ReplayNext
  <2>2. map \in CacheMaps
    BY CachedMaps DEF WatchShape
  <2>3. map \in [DOMAIN map -> Values] /\ DOMAIN map \in SUBSET (Keys \cup {None})
    BY <2>2, MapIsFinite
  <2>4. \A k \in DOMAIN map : Msg(n, Replayed(n), k, map[k]) \in Message
    BY <2>1, <2>3 DEF Msg, Message, Replayed, Actions
  <2>5. [call[t] EXCEPT !.pc = "finally"] \in Calls
    BY <1>1 DEF Calls
  <2>6. \A k \in DOMAIN map :
           [call[t] EXCEPT !.visited = @ \cup {k}, !.held = Msg(n, Replayed(n), k, map[k])] \in Calls
    <3> HIDE DEF map, n
    <3> QED BY <1>1, <2>3, <2>4 DEF Calls
  <2>7. \/ call' = [call EXCEPT ![t].pc = "finally"]
        \/ call' = [call EXCEPT ![t] = Onwards(t)]
        \/ \E k \in DOMAIN map :
              call' = [call EXCEPT ![t].visited = @ \cup {k},
                                   ![t].held = Msg(n, Replayed(n), k, map[k])]
    BY <1>5 DEF ReplayNext
  <2>8. \E x \in Calls : call' = [call EXCEPT ![t] = x]
    <3>1. CASE call' = [call EXCEPT ![t].pc = "finally"]
      BY <3>1, <2>5 DEF WatchShape
    <3>2. CASE call' = [call EXCEPT ![t] = Onwards(t)]
      BY <3>2, ReplayIsCall
    <3>3. ASSUME NEW k \in DOMAIN map,
                 call' = [call EXCEPT ![t].visited = @ \cup {k},
                                      ![t].held = Msg(n, Replayed(n), k, map[k])]
          PROVE  \E x \in Calls : call' = [call EXCEPT ![t] = x]
      <4> HIDE DEF map, n
      <4> QED BY <3>3, <2>6 DEF WatchShape
    <3> QED BY <2>7, <3>1, <3>2, <3>3
  <2>9. call' \in [Streams -> Calls]
    BY <2>8 DEF WatchShape
  <2> QED BY <1>5, <2>9 DEF ReplayNext, WatchShape, storeVars, emitterVars, readerVars
<1>6. CASE ReplayPut(t)
  <2>1. call[t].held \in Message
    BY <1>1, <1>6 DEF ReplayPut, Calls
  <2>2. queue' \in [Streams -> Seq(Message)] /\ \A u \in Streams : Len(queue'[u]) <= QueueSize
    <3>1. CASE Full(t)
      BY <1>6, <3>1 DEF ReplayPut, WatchShape
    <3>2. CASE ~Full(t)
      <4>1. queue' = [queue EXCEPT ![t] = Append(queue[t], call[t].held)]
        BY <1>6, <3>2 DEF ReplayPut
      <4>2. Append(queue[t], call[t].held) \in Seq(Message) /\ Len(Append(queue[t], call[t].held)) <= QueueSize
        BY <1>1, <2>1, <3>2 DEF Full, WatchAssumption
      <4> QED BY <4>1, <4>2 DEF WatchShape
    <3> QED BY <3>1, <3>2
  <2>3. call' \in [Streams -> Calls]
    BY <1>1, <1>6 DEF ReplayPut, WatchShape, Calls
  <2> QED BY <1>6, <2>2, <2>3 DEF ReplayPut, WatchShape, storeVars, emitterVars, readerVars
<1>7. CASE Mark(t)
  <2>1. Marker \in Message
    BY DEF Marker, Msg, Message, Actions
  <2>2. queue' \in [Streams -> Seq(Message)] /\ \A u \in Streams : Len(queue'[u]) <= QueueSize
    <3>1. CASE Full(t)
      BY <1>7, <3>1 DEF Mark, WatchShape
    <3>2. CASE ~Full(t)
      <4>1. queue' = [queue EXCEPT ![t] = Append(queue[t], Marker)]
        BY <1>7, <3>2 DEF Mark
      <4>2. Append(queue[t], Marker) \in Seq(Message) /\ Len(Append(queue[t], Marker)) <= QueueSize
        BY <1>1, <2>1, <3>2 DEF Full, WatchAssumption
      <4> QED BY <4>1, <4>2 DEF WatchShape
    <3> QED BY <3>1, <3>2
  <2>3. call' \in [Streams -> Calls]
    BY <1>1, <1>7 DEF Mark, WatchShape, Calls
  <2> QED BY <1>7, <2>2, <2>3 DEF Mark, WatchShape, storeVars, emitterVars, readerVars
<1>8. CASE Undeliverable(t)
  <2>1. Tail(queue[t]) \in Seq(Message) /\ Len(Tail(queue[t])) <= QueueSize
    BY <1>1, <1>8 DEF Undeliverable, WatchAssumption
  <2>2. call' \in [Streams -> Calls]
    BY <1>1, <1>8 DEF Undeliverable, WatchShape, Calls
  <2>3. /\ queue' \in [Streams -> Seq(Message)]
        /\ \A u \in Streams : Len(queue'[u]) <= QueueSize
    BY <1>8, <2>1 DEF Undeliverable, WatchShape
  <2> QED BY <1>8, <2>2, <2>3 DEF Undeliverable, WatchShape, storeVars, emitterVars, readerVars
<1>9. CASE Finally(t)
  <2>1. \A n \in Names : Disconnected(n, t) \in Seq(Streams)
    BY DEF Disconnected, WatchShape
  <2>2. slots' \in [Names -> Seq(Streams)]
    BY <1>9, <2>1 DEF Finally
  <2>3. [NoCall EXCEPT !.pc = "ended"] \in Calls
    BY DEF NoCall, Calls
  <2>4. call' \in [Streams -> Calls]
    BY <1>9, <2>3 DEF Finally, WatchShape
  <2>5. queue' \in [Streams -> Seq(Message)] /\ \A u \in Streams : Len(queue'[u]) <= QueueSize
    BY <1>9 DEF Finally, WatchShape, WatchAssumption
  <2> QED BY <1>9, <2>2, <2>4, <2>5 DEF Finally, WatchShape, emitterVars, readerVars
<1> QED BY <1>2, <1>3, <1>4, <1>5, <1>6, <1>7, <1>8, <1>9

-----------------------------------------------------------------------------
(* What a stream will have said, and what keeps it *)

\* The message that the emitter has cached is the last of those on their way, for the key
\* that it is about and the streams that it will be told to.
Connected == [n \in Names |-> Range(slots[n])]
Said(c, q, t, on, m, n, k) ==
    IF m # None /\ t \in on /\ About(m, n, k) THEN Word(m) ELSE Applied(c, q, n, k)

LEMMA SaidIs ==
    ASSUME NEW c, NEW q \in Seq(Message), NEW m \in Emission \cup {None}, NEW t, NEW on,
           NEW n \in Names, NEW k, NEW way,
           way = q \/ (m # None /\ way = Append(q, m)),
           m # None /\ About(m, n, k) => way = IF t \in on THEN Append(q, m) ELSE q
    PROVE  Applied(c, way, n, k) = Said(c, q, t, on, m, n, k)
<1>1. CASE m # None /\ way = Append(q, m)
  <2>1. m \in Message
    BY <1>1 DEF Emission
  <2>2. Applied(c, Append(q, m), n, k) = IF About(m, n, k) THEN Word(m) ELSE Applied(c, q, n, k)
    BY <2>1, AppliedAppend
  <2>3. Append(q, m) # q
    BY <2>1
  <2>4. About(m, n, k) => t \in on
    BY <1>1, <2>3
  <2> QED BY <1>1, <2>2, <2>4 DEF Said
<1>2. CASE way = q
  <2>1. m # None => Append(q, m) # q
    BY DEF Emission
  <2>2. m # None /\ About(m, n, k) => t \notin on
    BY <1>2, <2>1
  <2> QED BY <1>2, <2>2 DEF Said
<1> QED BY <1>1, <1>2

LEMMA HeardIs ==
    ASSUME WatchShape
    PROVE  \A t \in Streams, n \in Names : \A k :
              Heard(t, n, k) = Said(mirror[Client[t]], queue[t], t, Connected[n], telling, n, k)
<1> SUFFICES ASSUME NEW t \in Streams, NEW n \in Names, NEW k
             PROVE Heard(t, n, k) = Said(mirror[Client[t]], queue[t], t, Connected[n], telling, n, k)
  OBVIOUS
<1>1. PICK c : c = mirror[Client[t]]
  OBVIOUS
<1>2. PICK q : q = queue[t]
  OBVIOUS
<1>3. PICK m : m = telling
  OBVIOUS
<1>4. PICK on : on = Range(slots[n])
  OBVIOUS
<1>5. q \in Seq(Message) /\ m \in Emission \cup {None}
  BY <1>2, <1>3 DEF WatchShape
<1>6. PICK way : way = OnItsWay(t)
  OBVIOUS
<1>7. way = q \/ (m # None /\ way = Append(q, m))
  BY <1>2, <1>3, <1>6 DEF OnItsWay
<1>8. m # None /\ About(m, n, k) => way = IF t \in on THEN Append(q, m) ELSE q
  BY <1>2, <1>3, <1>4, <1>6, NoneAssumption DEF OnItsWay, About
<1>9. Applied(c, way, n, k) = Said(c, q, t, on, m, n, k)
  BY <1>5, <1>7, <1>8, SaidIs
<1>10. on = Connected[n]
  BY <1>4 DEF Connected
<1> QED BY <1>1, <1>2, <1>3, <1>6, <1>9, <1>10 DEF Heard

LEMMA HeardIsNext ==
    ASSUME WatchShape'
    PROVE  \A t \in Streams, n \in Names : \A k :
              Heard(t, n, k)' = Said(mirror'[Client[t]], queue'[t], t, Connected'[n], telling', n, k)
<1> SUFFICES ASSUME NEW t \in Streams, NEW n \in Names, NEW k
             PROVE Heard(t, n, k)' = Said(mirror'[Client[t]], queue'[t], t, Connected'[n], telling', n, k)
  OBVIOUS
<1>1. PICK c : c = mirror'[Client[t]]
  OBVIOUS
<1>2. PICK q : q = queue'[t]
  OBVIOUS
<1>3. PICK m : m = telling'
  OBVIOUS
<1>4. PICK on : on = Range(slots'[n])
  OBVIOUS
<1>5. q \in Seq(Message) /\ m \in Emission \cup {None}
  BY <1>2, <1>3 DEF WatchShape
<1>6. PICK way : way = OnItsWay(t)'
  OBVIOUS
<1>7. way = q \/ (m # None /\ way = Append(q, m))
  BY <1>2, <1>3, <1>6 DEF OnItsWay
<1>8. m # None /\ About(m, n, k) => way = IF t \in on THEN Append(q, m) ELSE q
  BY <1>2, <1>3, <1>4, <1>6, NoneAssumption DEF OnItsWay, About
<1>9. Applied(c, way, n, k) = Said(c, q, t, on, m, n, k)
  BY <1>5, <1>7, <1>8, SaidIs
<1>10. on = Connected'[n]
  BY <1>4 DEF Connected
<1> QED BY <1>1, <1>2, <1>3, <1>6, <1>9, <1>10 DEF Heard

LEMMA OrderIsNames ==
    ASSUME WatchAssumption
    PROVE  /\ Len(Order) \in Nat /\ DOMAIN Order = 1 .. Len(Order)
           /\ \A i \in DOMAIN Order : Order[i] \in Names
           /\ \A n \in Names : \E i \in DOMAIN Order : Order[i] = n
           /\ \A i, j \in DOMAIN Order : Order[i] = Order[j] => i = j
<1>1. Order \in Seq(Names)
  BY DEF WatchAssumption
<1>2. Range(Order) = Names /\ IsInjective(Order)
  BY DEF WatchAssumption
<1>3. \A n \in Names : \E i \in DOMAIN Order : Order[i] = n
  BY <1>2 DEF Range
<1>4. \A i, j \in DOMAIN Order : Order[i] = Order[j] => i = j
  BY <1>2 DEF IsInjective
<1> QED BY <1>1, <1>3, <1>4

\* A step that is about other streams.
Aside(u) ==
    /\ call'[u] = call[u] /\ queue'[u] = queue[u] /\ worker'[u] = worker[u]
    /\ cache' = cache /\ telling' = telling
    /\ \A v \in Streams : worker'[v] = "new" => worker[v] = "new"
    /\ FirstStream(u)' => mirror'[Client[u]] = mirror[Client[u]]
    /\ \A n \in Names : u \in Range(slots'[n]) => u \in Range(slots[n])
    /\ u \notin cut' => u \notin cut /\ \A n \in Names : u \in Range(slots[n]) => u \in Range(slots'[n])
    /\ u \notin cut' \cup overtaken' => u \notin overtaken

LEMMA FirstStays ==
    ASSUME \A v \in Streams : worker'[v] = "new" => worker[v] = "new"
    PROVE  \A u \in Streams : FirstStream(u)' => FirstStream(u)
BY DEF FirstStream

LEMMA AsideInv ==
    ASSUME WatchAssumption, WatchShape, WatchShape', NEW u \in Streams, StreamInv(u), Aside(u)
    PROVE  StreamInv(u)'
<1>0. FirstStream(u)' => FirstStream(u)
  BY FirstStays DEF Aside
<1>1. PlaceInv(u)'
  BY DEF StreamInv, PlaceInv, Here, Aside
<1>2. \A i \in DOMAIN Order : Order[i] \in Names
  BY OrderIsNames
<1>3. SlotsInv(u)'
  BY <1>2 DEF StreamInv, SlotsInv, Here, Registered, Aside
<1>4. MirrorInv(u)'
  BY <1>0 DEF StreamInv, MirrorInv, Aside
<1>5. HeldInv(u)'
  BY DEF StreamInv, HeldInv, Aside
<1>6. Known(u)'
  <2> SUFFICES ASSUME Follows(u)', NEW i \in DOMAIN Order, NEW k \in Keys \cup {None}
               PROVE Claim(call[u], i, k, Heard(u, Order[i], k), Cached(cache, Order[i], k))'
    BY DEF Known
  <2>1. Follows(u) /\ FirstStream(u)' /\ u \notin cut'
    BY <1>0 DEF Follows, Here, Aside
  <2>2. Claim(call[u], i, k, Heard(u, Order[i], k), Cached(cache, Order[i], k))
    BY <2>1 DEF StreamInv, Known
  <2>3. \A n \in Names : u \in Range(slots'[n]) <=> u \in Range(slots[n])
    BY <2>1 DEF Aside
  <2>4. Heard(u, Order[i], k)' = Heard(u, Order[i], k)
    <3>1. u \in Range(slots'[Order[i]]) <=> u \in Range(slots[Order[i]])
      BY <2>3, <1>2
    <3>2. Order[i] \in Names /\ Connected[Order[i]] = Range(slots[Order[i]])
          /\ Connected'[Order[i]] = Range(slots'[Order[i]])
      BY <1>2 DEF Connected
    <3> QED BY <3>1, <3>2, <2>1, HeardIs, HeardIsNext DEF Aside, Said
  <2> QED BY <2>2, <2>4 DEF Aside
<1> QED BY <1>1, <1>3, <1>4, <1>5, <1>6 DEF StreamInv

LEMMA QuietTelling ==
    ASSUME TellingInv, cache' = cache, telling' = telling
    PROVE  TellingInv'
BY DEF TellingInv

-----------------------------------------------------------------------------
(* The emitter *)

LEMMA AskInv == ASSUME WatchAssumption, WatchInv, Asks PROVE WatchInv'
<1>1. WatchShape'
  BY ShapeOfEmitter DEF WatchInv
<1>2. UNCHANGED <<cache, slots, telling, call, queue, worker, mirror, overtaken, cut>>
  BY DEF Asks, Ask, storeVars, readerVars
<1>3. \A u \in Streams : Aside(u)
  BY <1>2 DEF Aside
<1>4. \A u \in Streams : StreamInv(u)'
  BY <1>1, <1>3, AsideInv DEF WatchInv
<1> QED BY <1>1, <1>2, <1>4, QuietTelling DEF WatchInv

\* What is registered of a call that lost nothing has its slot, and no more.
LEMMA Slotted ==
    ASSUME WatchAssumption, NEW u \in Streams, StreamInv(u), NEW i \in DOMAIN Order
    PROVE  /\ Here(u) /\ u \notin cut => (Registered(u, i) <=> u \in Range(slots[Order[i]]))
           /\ Connected[Order[i]] = Range(slots[Order[i]])
<1>1. Order[i] \in Names
  BY OrderIsNames
<1> QED BY <1>1 DEF StreamInv, SlotsInv, Connected, Here

LEMMA EmitToCacheInv == ASSUME WatchAssumption, WatchInv, EmitToCache PROVE WatchInv'
<1>1. WatchShape' /\ WatchShape
  BY ShapeOfEmitter DEF WatchInv
<1>2. PICK m : m = Head(todo)
  OBVIOUS
<1>3. m \in Emission /\ m # None
  BY <1>2 DEF EmitToCache, WatchInv, WatchShape, Emission, WatchAssumption
<1>4. telling = None /\ telling' = m /\ cache' = UpdateCache(cache, m)
  BY <1>2 DEF EmitToCache
<1>5. UNCHANGED <<slots, call, queue, worker, mirror, overtaken, cut>>
  BY DEF EmitToCache, readerVars
<1>6. \A n \in Names : \A k : Cached(cache, n, k)' = IF About(m, n, k) THEN Word(m) ELSE Cached(cache, n, k)
  <2> TAKE n \in Names
  <2> TAKE k
  <2>1. Cached(UpdateCache(cache, m), n, k) = IF About(m, n, k) THEN Word(m) ELSE Cached(cache, n, k)
    BY CachedUpdate
  <2> QED BY <1>4, <2>1 DEF Cached, DataMap
<1>7. TellingInv'
  <2> SUFFICES ASSUME telling' # None, telling'.name # None
               PROVE Cached(cache', telling'.name, telling'.key) = Word(telling')
    BY DEF TellingInv
  <2>1. m.name \in Names /\ About(m, m.name, m.key)
    BY <1>3, <1>4 DEF Emission, Message, About
  <2>2. Cached(cache, m.name, m.key)' = Word(m)
    BY <1>6, <2>1
  <2> QED BY <1>4, <2>2, <1>3 DEF Cached, DataMap
<1>8. ASSUME NEW u \in Streams
      PROVE  StreamInv(u)'
  <2>0. StreamInv(u)
    BY DEF WatchInv
  <2>1. PlaceInv(u)' /\ SlotsInv(u)' /\ MirrorInv(u)'
    BY <1>5, <2>0 DEF StreamInv, PlaceInv, SlotsInv, MirrorInv, Here, Registered, FirstStream
  <2>2. HeldInv(u)'
    <3> SUFFICES ASSUME call[u].pc = "replay", call[u].held # None, u \notin cut \cup overtaken
                 PROVE  \/ telling' # None /\ About(telling', call[u].held.name, call[u].held.key)
                        \/ Cached(cache', call[u].held.name, call[u].held.key) = call[u].held.value
      BY <1>5 DEF HeldInv
    <3>1. Order[call[u].at] \in Names /\ call[u].held.name = Order[call[u].at]
      BY <1>1, <2>0, Placed DEF StreamInv, PlaceInv
    <3>2. Cached(cache, call[u].held.name, call[u].held.key) = call[u].held.value
      BY <1>4, <2>0 DEF StreamInv, HeldInv
    <3>3. CASE About(m, call[u].held.name, call[u].held.key)
      BY <3>3, <1>3, <1>4
    <3>4. CASE ~About(m, call[u].held.name, call[u].held.key)
      <4>1. PICK n, k : n = call[u].held.name /\ k = call[u].held.key
        OBVIOUS
      <4>2. Cached(cache, n, k)' = Cached(cache, n, k)
        BY <1>6, <3>1, <3>4, <4>1
      <4> QED BY <4>1, <4>2, <3>2, <1>5 DEF Cached, DataMap
    <3> QED BY <3>3, <3>4
  <2>3. Known(u)'
    <3> SUFFICES ASSUME Follows(u)', NEW i \in DOMAIN Order, NEW k \in Keys \cup {None}
                 PROVE Claim(call[u], i, k, Heard(u, Order[i], k), Cached(cache, Order[i], k))'
      BY DEF Known
    <3>1. Follows(u)
      BY <1>5 DEF Follows, FirstStream, Here
    <3>2. Claim(call[u], i, k, Heard(u, Order[i], k), Cached(cache, Order[i], k))
      BY <2>0, <3>1 DEF StreamInv, Known
    <3>3. Order[i] \in Names
      BY OrderIsNames
    <3>4. Heard(u, Order[i], k) = Applied(mirror[Client[u]], queue[u], Order[i], k)
      BY <1>1, <1>4, <3>3, HeardIs DEF Said
    <3>5. Connected' = Connected
      BY <1>5 DEF Connected
    <3>6. Heard(u, Order[i], k)' = Said(mirror[Client[u]], queue[u], u, Connected[Order[i]], m, Order[i], k)
      BY <1>1, <1>4, <1>5, <3>3, <3>5, HeardIsNext
    <3>7. CASE ~About(m, Order[i], k)
      <4>1. Heard(u, Order[i], k)' = Heard(u, Order[i], k)
        BY <3>4, <3>6, <3>7 DEF Said
      <4>2. Cached(cache, Order[i], k)' = Cached(cache, Order[i], k)
        BY <1>6, <3>3, <3>7
      <4> QED BY <4>1, <4>2, <3>2, <1>5
    <3>8. CASE About(m, Order[i], k) /\ Registered(u, i)
      <4>1. u \in Connected[Order[i]]
        BY <2>0, <3>1, <3>8, Slotted DEF Follows
      <4>2. Heard(u, Order[i], k)' = Word(m)
        BY <3>6, <3>8, <4>1, <1>3 DEF Said
      <4>3. Cached(cache, Order[i], k)' = Word(m)
        BY <1>6, <3>3, <3>8
      <4> QED BY <4>2, <4>3 DEF Claim
    <3>9. CASE ~Registered(u, i)
      BY <3>9, <1>5 DEF Claim, Registered
    <3> QED BY <3>7, <3>8, <3>9
  <2> QED BY <2>1, <2>2, <2>3 DEF StreamInv
<1> QED BY <1>1, <1>7, <1>8 DEF WatchInv

LEMMA EmitToSlotsInv == ASSUME WatchAssumption, WatchInv, EmitToSlots PROVE WatchInv'
<1>1. WatchShape' /\ WatchShape
  BY ShapeOfEmitter DEF WatchInv
<1>2. PICK m : m = telling
  OBVIOUS
<1>3. m \in Emission /\ m \in Message /\ m # None
  BY <1>2 DEF EmitToSlots, WatchInv, WatchShape, Emission
<1>4. UNCHANGED <<cache, slots, call, worker, mirror>> /\ telling' = None
  BY DEF EmitToSlots, readerVars
<1>5. PICK hearers : hearers = IF m.name = None THEN {}
                               ELSE {t \in Range(slots[m.name]) : call[t].pc # "ended"}
  OBVIOUS
<1>6. \A u \in Streams :
         /\ u \notin cut' => u \notin cut /\ (u \in hearers => ~Full(u))
         /\ queue'[u] = IF u \in hearers /\ ~Full(u) THEN Append(queue[u], m) ELSE queue[u]
         /\ u \notin overtaken' =>
               /\ u \notin overtaken
               /\ u \in hearers => ~(call[u].held # None /\ About(m, call[u].held.name, call[u].held.key))
  BY <1>2, <1>5 DEF EmitToSlots, Refused, About
<1>7. \A u \in Streams, n \in Names : \A k :
         call[u].pc # "ended" /\ About(m, n, k) => (u \in hearers <=> u \in Connected[n])
  BY <1>5, NoneAssumption DEF About, Connected
<1>8. TellingInv'
  BY <1>4 DEF TellingInv
<1>9. ASSUME NEW u \in Streams
      PROVE  StreamInv(u)'
  <2>0. StreamInv(u) /\ queue[u] \in Seq(Message)
    BY <1>1 DEF WatchInv, WatchShape
  <2>1. \A i \in DOMAIN Order : Order[i] \in Names
    BY OrderIsNames
  <2>2. u \in hearers => \E i \in DOMAIN Order : m.name = Order[i] /\ u \in Range(slots[Order[i]])
    <3> SUFFICES ASSUME u \in hearers PROVE m.name \in Names /\ u \in Range(slots[m.name])
      BY OrderIsNames
    <3> QED BY <1>5, <1>3 DEF Emission, Message
  <2>3. PlaceInv(u)'
    <3>1. call[u].pc \in {"new", "requested"} => u \notin hearers
      BY <2>0, <2>2 DEF StreamInv, SlotsInv, Here
    <3>2. call[u].pc \in {"new", "requested"} => queue'[u] = queue[u]
      BY <3>1, <1>6
    <3> QED BY <3>2, <1>4, <2>0 DEF StreamInv, PlaceInv, Here
  <2>4. SlotsInv(u)'
    <3> SUFFICES ASSUME NEW i \in DOMAIN Order
                 PROVE /\ u \in Range(slots[Order[i]]) =>
                             (Here(u) /\ Registered(u, i)) \/ call[u].pc \in {"finally", "ended"}
                       /\ Here(u) /\ Registered(u, i) /\ u \notin cut' => u \in Range(slots[Order[i]])
                       /\ Here(u) /\ ~Registered(u, i) =>
                             \A j \in DOMAIN queue'[u] : queue'[u][j].name # Order[i]
      BY <1>4 DEF SlotsInv, Here, Registered
    <3>1. /\ u \in Range(slots[Order[i]]) =>
                (Here(u) /\ Registered(u, i)) \/ call[u].pc \in {"finally", "ended"}
          /\ Here(u) /\ Registered(u, i) /\ u \notin cut' => u \in Range(slots[Order[i]])
      BY <1>6, <2>0 DEF StreamInv, SlotsInv
    <3>2. ASSUME Here(u), ~Registered(u, i)
          PROVE  \A j \in DOMAIN queue'[u] : queue'[u][j].name # Order[i]
      <4>1. \A j \in DOMAIN queue[u] : queue[u][j].name # Order[i]
        BY <3>2, <2>0 DEF StreamInv, SlotsInv
      <4>2. u \in hearers => m.name # Order[i]
        BY <3>1, <3>2, <2>2 DEF Here
      <4>3. CASE u \in hearers /\ ~Full(u)
        <5>1. queue'[u] = Append(queue[u], m)
          BY <4>3, <1>6
        <5> QED BY <5>1, <4>1, <4>2, <4>3, <2>0
      <4>4. CASE ~(u \in hearers /\ ~Full(u))
        BY <4>4, <4>1, <1>6
      <4> QED BY <4>3, <4>4
    <3> QED BY <3>1, <3>2
  <2>5. MirrorInv(u)'
    BY <1>4, <2>0 DEF StreamInv, MirrorInv, FirstStream
  <2>6. HeldInv(u)'
    <3> SUFFICES ASSUME call[u].pc = "replay", call[u].held # None, u \notin cut', u \notin overtaken'
                 PROVE  Cached(cache, call[u].held.name, call[u].held.key) = call[u].held.value
      BY <1>4 DEF HeldInv
    <3>1. call[u].at \in DOMAIN Order /\ Order[call[u].at] \in Names
          /\ call[u].held.name = Order[call[u].at]
      BY <1>1, <2>0, Placed DEF StreamInv, PlaceInv
    <3>2. ~About(m, call[u].held.name, call[u].held.key)
      <4> SUFFICES ASSUME About(m, call[u].held.name, call[u].held.key) PROVE FALSE
        OBVIOUS
      <4>1. Here(u) /\ Registered(u, call[u].at) /\ u \notin cut
        BY <1>6 DEF Here, Registered
      <4>2. u \in Connected[call[u].held.name]
        BY <2>0, <3>1, <4>1, Slotted
      <4>3. u \in hearers
        BY <1>7, <3>1, <4>2
      <4> QED BY <1>6, <4>3
    <3>3. u \notin cut \cup overtaken
      BY <1>6
    <3> QED BY <3>2, <3>3, <2>0, <1>2 DEF StreamInv, HeldInv
  <2>7. Known(u)'
    <3> SUFFICES ASSUME Follows(u)', NEW i \in DOMAIN Order, NEW k \in Keys \cup {None}
                 PROVE Claim(call[u], i, k, Heard(u, Order[i], k), Cached(cache, Order[i], k))'
      BY DEF Known
    <3>1. Follows(u) /\ call[u].pc # "ended" /\ (u \in hearers => ~Full(u))
      BY <1>4, <1>6 DEF Follows, FirstStream, Here
    <3>2. Claim(call[u], i, k, Heard(u, Order[i], k), Cached(cache, Order[i], k))
      BY <2>0, <3>1 DEF StreamInv, Known
    <3>3. Order[i] \in Names
      BY OrderIsNames
    <3>4. Heard(u, Order[i], k) = Said(mirror[Client[u]], queue[u], u, Connected[Order[i]], m, Order[i], k)
      BY <1>1, <1>2, <3>3, HeardIs
    <3>5. Heard(u, Order[i], k)' = Applied(mirror[Client[u]], queue'[u], Order[i], k)
      BY <1>1, <1>4, <3>3, HeardIsNext DEF Said
    <3>6. About(m, Order[i], k) => (u \in hearers <=> u \in Connected[Order[i]])
      BY <1>7, <3>1, <3>3
    <3>7. Heard(u, Order[i], k)' = Heard(u, Order[i], k)
      <4>1. CASE u \in hearers
        <5>1. queue'[u] = Append(queue[u], m)
          BY <4>1, <3>1, <1>6
        <5>2. Applied(mirror[Client[u]], Append(queue[u], m), Order[i], k)
                = IF About(m, Order[i], k) THEN Word(m) ELSE Applied(mirror[Client[u]], queue[u], Order[i], k)
          BY <1>3, <2>0, AppliedAppend
        <5> QED BY <4>1, <5>1, <5>2, <3>4, <3>5, <3>6, <1>3 DEF Said
      <4>2. CASE u \notin hearers
        BY <4>2, <1>6, <3>4, <3>5, <3>6 DEF Said
      <4> QED BY <4>1, <4>2
    <3> QED BY <3>2, <3>7, <1>4
  <2> QED BY <2>3, <2>4, <2>5, <2>6, <2>7 DEF StreamInv
<1> QED BY <1>1, <1>8, <1>9 DEF WatchInv

-----------------------------------------------------------------------------
(* The readers *)

LEMMA StopInv == ASSUME WatchAssumption, WatchInv, NEW d \in Clients, StopWatching(d) PROVE WatchInv'
<1>1. WatchShape' /\ WatchShape
  <2>1. UNCHANGED <<storeVars, emitterVars, call, queue, worker, mirror, overtaken, cut>>
        /\ readers' = Forgotten(d)
    BY DEF StopWatching
  <2> QED BY <2>1 DEF WatchInv, WatchShape, Forgotten, storeVars, emitterVars
<1>2. UNCHANGED <<cache, slots, telling, call, queue, worker, mirror, overtaken, cut>>
  BY DEF StopWatching, storeVars, emitterVars
<1>3. \A u \in Streams : Aside(u)
  BY <1>2 DEF Aside
<1>4. \A u \in Streams : StreamInv(u)'
  BY <1>1, <1>3, AsideInv DEF WatchInv
<1> QED BY <1>1, <1>2, <1>4, QuietTelling DEF WatchInv

LEMMA StartInv == ASSUME WatchAssumption, WatchInv, NEW t \in Streams, StartWatching(t) PROVE WatchInv'
<1>1. WatchShape' /\ WatchShape
  <2>1. Client[t] \in Clients
    BY DEF WatchAssumption
  <2> QED BY <2>1, ShapeOfReader DEF WatchInv
<1>2. UNCHANGED <<cache, slots, telling, queue, mirror, overtaken, cut>>
  BY DEF StartWatching, storeVars, emitterVars
<1>3. \A u \in Streams : worker'[u] = "new" => worker[u] = "new"
  BY <1>1 DEF StartWatching, WatchShape
<1>4. \A u \in Streams \ {t} : Aside(u)
  BY <1>1, <1>2, <1>3 DEF StartWatching, WatchShape, Aside
<1>5. StreamInv(t)'
  <2>1. StreamInv(t)
    BY DEF WatchInv
  <2>2. call[t].pc = "new" /\ call'[t].pc = "requested" /\ worker'[t] = "read"
    BY <1>1, <2>1 DEF StartWatching, WatchShape, StreamInv, PlaceInv, Calls
  <2>3. PlaceInv(t)'
    BY <1>2, <2>1, <2>2 DEF StreamInv, PlaceInv, Here
  <2>4. SlotsInv(t)'
    BY <1>2, <2>1, <2>2 DEF StreamInv, SlotsInv, Here
  <2>5. MirrorInv(t)'
    <3>1. FirstStream(t)' => FirstStream(t)
      BY <1>3, FirstStays
    <3> QED BY <3>1, <1>2, <2>1, <2>2 DEF StreamInv, MirrorInv
  <2>6. HeldInv(t)' /\ Known(t)'
    BY <2>2 DEF HeldInv, Known, Follows, Here
  <2> QED BY <2>3, <2>4, <2>5, <2>6 DEF StreamInv
<1>6. \A u \in Streams : StreamInv(u)'
  BY <1>1, <1>4, <1>5, AsideInv DEF WatchInv
<1> QED BY <1>1, <1>2, <1>6, QuietTelling DEF WatchInv

LEMMA ReaderEndsInv == ASSUME WatchAssumption, WatchInv, NEW t \in Streams, ReaderEnds(t) PROVE WatchInv'
<1>1. WatchShape' /\ WatchShape
  <2>1. Client[t] \in Clients
    BY DEF WatchAssumption
  <2> QED BY <2>1, ShapeOfReader DEF WatchInv
<1>2. UNCHANGED <<cache, slots, telling, call, queue, mirror, overtaken, cut>>
  BY DEF ReaderEnds, storeVars, emitterVars
<1>3. \A u \in Streams : worker'[u] = "new" => worker[u] = "new"
  BY <1>1 DEF ReaderEnds, WatchShape
<1>4. \A u \in Streams \ {t} : Aside(u)
  BY <1>1, <1>2, <1>3 DEF ReaderEnds, WatchShape, Aside
<1>5. StreamInv(t)'
  <2>1. StreamInv(t)
    BY DEF WatchInv
  <2>2. worker[t] # "new" /\ worker'[t] = "ended"
    BY <1>1 DEF ReaderEnds, WatchShape
  <2>3. PlaceInv(t)' /\ SlotsInv(t)' /\ HeldInv(t)'
    BY <1>2, <2>1, <2>2 DEF StreamInv, PlaceInv, SlotsInv, HeldInv, Here, Registered
  <2>4. MirrorInv(t)'
    <3>1. FirstStream(t)' => FirstStream(t)
      BY <1>3, FirstStays
    <3> QED BY <3>1, <1>2, <2>1 DEF StreamInv, MirrorInv
  <2>5. Known(t)'
    BY <2>2 DEF Known, Follows
  <2> QED BY <2>3, <2>4, <2>5 DEF StreamInv
<1>6. \A u \in Streams : StreamInv(u)'
  BY <1>1, <1>4, <1>5, AsideInv DEF WatchInv
<1> QED BY <1>1, <1>2, <1>6, QuietTelling DEF WatchInv

-----------------------------------------------------------------------------
(* The handler of a stream *)

\* The other streams, in a step of a handler.
LEMMA OtherStreams ==
    ASSUME WatchAssumption, WatchInv, WatchShape', NEW t \in Streams, StreamInv(t)',
           \A u \in Streams \ {t} : Aside(u), cache' = cache, telling' = telling
    PROVE  WatchInv'
<1>1. \A u \in Streams \ {t} : StreamInv(u)'
  BY AsideInv DEF WatchInv
<1> QED BY <1>1, QuietTelling DEF WatchInv

LEMMA HandlerShape ==
    ASSUME WatchAssumption, WatchInv, NEW t \in Streams,
           Accept(t) \/ ConnectSlots(t) \/ WaitComplete(t) \/ ReplayNext(t) \/ ReplayPut(t)
              \/ Mark(t) \/ Undeliverable(t) \/ Finally(t)
    PROVE  /\ WatchShape /\ WatchShape' /\ StreamInv(t)
           /\ call[t] \in Calls /\ call'[t] \in Calls
           /\ queue[t] \in Seq(Message) /\ queue'[t] \in Seq(Message)
<1>1. WatchShape /\ StreamInv(t) /\ PlaceInv(t)
  BY DEF WatchInv, StreamInv
<1>2. WatchShape'
  BY <1>1, ShapeOfCall
<1> QED BY <1>1, <1>2 DEF WatchShape

LEMMA AcceptInv == ASSUME WatchAssumption, WatchInv, NEW t \in Streams, Accept(t) PROVE WatchInv'
<1>1. WatchShape /\ WatchShape' /\ StreamInv(t) /\ call[t] \in Calls
  BY HandlerShape
<1>2. UNCHANGED <<cache, slots, telling, queue, worker, mirror, overtaken, cut>>
  BY DEF Accept, storeVars, emitterVars, readerVars
<1>3. \A u \in Streams \ {t} : Aside(u)
  BY <1>1, <1>2 DEF Accept, WatchShape, Aside
<1>4. call[t].pc = "requested" /\ call'[t] = [NoCall EXCEPT !.pc = "connect", !.at = 1]
  BY <1>1 DEF Accept, WatchShape
<1>5. call'[t].pc = "connect" /\ call'[t].at = 1 /\ call'[t].held = None
  BY <1>4 DEF NoCall
<1>6. StreamInv(t)'
  <2>1. PlaceInv(t)'
    BY <1>1, <1>2, <1>4, <1>5 DEF StreamInv, PlaceInv, Here
  <2>2. SlotsInv(t)'
    <3>1. \A i \in DOMAIN Order : t \notin Range(slots[Order[i]])
      BY <1>1, <1>4 DEF StreamInv, SlotsInv, Here
    <3>2. \A i \in DOMAIN Order : ~Registered(t, i)'
      BY <1>5, OrderIsNames DEF Registered
    <3>3. DOMAIN queue[t] = {}
      BY <1>1, <1>4 DEF StreamInv, PlaceInv
    <3> QED BY <3>1, <3>2, <3>3, <1>2 DEF SlotsInv
  <2>3. MirrorInv(t)'
    BY <1>1, <1>2, <1>4 DEF StreamInv, MirrorInv, FirstStream
  <2>4. HeldInv(t)'
    BY <1>5 DEF HeldInv
  <2>5. Known(t)'
    BY <1>5, OrderIsNames DEF Known, Claim
  <2> QED BY <2>1, <2>2, <2>3, <2>4, <2>5 DEF StreamInv
<1> QED BY <1>1, <1>2, <1>3, <1>6, OtherStreams

\* Nothing was said of a name, or a store has nothing.
LEMMA Silent ==
    ASSUME NEW c, NEW q, NEW n, NEW k, \A j \in DOMAIN q : q[j].name # n
    PROVE  Applied(c, q, n, k) = Cached(c, n, k)
BY DEF Applied, About

LEMMA EmptyHasNone == \A n, k : Cached(EmptyCache, n, k) = None
BY DEF Cached, DataMap, EmptyCache

LEMMA ConnectInv == ASSUME WatchAssumption, WatchInv, NEW t \in Streams, ConnectSlots(t) PROVE WatchInv'
<1>1. WatchShape /\ WatchShape' /\ StreamInv(t) /\ call[t] \in Calls
  BY HandlerShape
<1>2. UNCHANGED <<cache, telling, queue, worker, mirror, overtaken, cut>>
  BY DEF ConnectSlots, emitterVars, readerVars
<1>3. PICK a, n : a = call[t].at /\ n = Order[a]
  OBVIOUS
<1>4. call[t].pc = "connect" /\ a \in Nat /\ a >= 1 /\ a <= Len(Order) /\ call[t].held = None
  BY <1>1, <1>3 DEF ConnectSlots, StreamInv, PlaceInv, Here, Calls
<1>5. a \in DOMAIN Order /\ n \in Names
  BY <1>3, <1>4, OrderIsNames
<1>6. \A m \in Names : \A u : u \in Range(slots'[m]) <=> (u \in Range(slots[m]) \/ (m = n /\ u = t))
  <2> SUFFICES ASSUME NEW m \in Names, NEW u
               PROVE u \in Range(slots'[m]) <=> (u \in Range(slots[m]) \/ (m = n /\ u = t))
    OBVIOUS
  <2>1. slots'[m] = IF m = n THEN Append(slots[m], t) ELSE slots[m]
    BY <1>1, <1>3, <1>5 DEF ConnectSlots, WatchShape
  <2>2. slots[m] \in Seq(Streams)
    BY <1>1 DEF WatchShape
  <2>3. \A s \in Seq(Streams) : u \in Range(Append(s, t)) <=> (u \in Range(s) \/ u = t)
    <3> TAKE s \in Seq(Streams)
    <3>1. Len(s) \in Nat /\ DOMAIN s = 1 .. Len(s) /\ DOMAIN Append(s, t) = 1 .. (Len(s) + 1)
      OBVIOUS
    <3>2. \A i \in 1 .. Len(s) : Append(s, t)[i] = s[i]
      OBVIOUS
    <3>3. Append(s, t)[Len(s) + 1] = t /\ Len(s) + 1 \in DOMAIN Append(s, t)
      OBVIOUS
    <3>4. \A i \in 1 .. (Len(s) + 1) : i \in 1 .. Len(s) \/ i = Len(s) + 1
      BY <3>1
    <3>5. u \in Range(Append(s, t)) => u \in Range(s) \/ u = t
      BY <3>1, <3>2, <3>3, <3>4 DEF Range
    <3>6. u = t => u \in Range(Append(s, t))
      BY <3>3 DEF Range
    <3>7. u \in Range(s) => u \in Range(Append(s, t))
      <4> SUFFICES ASSUME NEW i \in DOMAIN s, u = s[i] PROVE u \in Range(Append(s, t))
        BY DEF Range
      <4>1. i \in DOMAIN Append(s, t) /\ Append(s, t)[i] = u
        BY <3>1, <3>2
      <4> QED BY <4>1 DEF Range
    <3> QED BY <3>5, <3>6, <3>7
  <2> QED BY <2>1, <2>2, <2>3
<1>7. \A u \in Streams \ {t} : Aside(u)
  BY <1>1, <1>2, <1>6 DEF ConnectSlots, WatchShape, Aside
<1>8. \/ /\ call'[t].pc = "connect" /\ call'[t].at = a + 1 /\ n \notin DOMAIN cache
      \/ /\ call'[t].pc = "wait" /\ call'[t].at = a /\ n \notin DOMAIN cache
      \/ /\ call'[t].pc = "replay" /\ call'[t].at = a /\ call'[t].visited = {}
  <2>1. call'[t] = IF cache = EmptyCache THEN Onwards(t)
                   ELSE IF n \in DOMAIN cache \/ completed THEN Replaying(t, n)
                   ELSE [call[t] EXCEPT !.pc = "wait"]
    BY <1>1, <1>3 DEF ConnectSlots, WatchShape
  <2>2. cache = EmptyCache => n \notin DOMAIN cache
    BY DEF EmptyCache
  <2>3. Onwards(t).pc = "connect" /\ Onwards(t).at = a + 1
    BY <1>3 DEF Onwards, NoCall
  <2>4. n \in DOMAIN cache => /\ Replaying(t, n).pc = "replay" /\ Replaying(t, n).at = a
                              /\ Replaying(t, n).visited = {}
    BY <1>1, <1>3 DEF Replaying, Calls
  <2>5. n \notin DOMAIN cache => Replaying(t, n) = Onwards(t)
    BY DEF Replaying
  <2>6. [call[t] EXCEPT !.pc = "wait"].pc = "wait" /\ [call[t] EXCEPT !.pc = "wait"].at = a
    BY <1>1, <1>3 DEF Calls
  <2> QED BY <2>1, <2>2, <2>3, <2>4, <2>5, <2>6
<1>9. call'[t].held = None
  BY <1>1, <1>3, <1>4 DEF ConnectSlots, WatchShape, Onwards, Replaying, NoCall, Calls
<1>10. StreamInv(t)'
  <2>1. Here(t)' /\ \A i \in DOMAIN Order : Registered(t, i)' <=> (i < a \/ i = a)
    BY <1>4, <1>8, OrderIsNames DEF Here, Registered
  <2>2. Here(t) /\ \A i \in DOMAIN Order : Registered(t, i) <=> i < a
    BY <1>3, <1>4 DEF Here, Registered
  <2>3. \A i \in DOMAIN Order : Order[i] \in Names /\ (Order[i] = n <=> i = a)
    BY <1>3, <1>5, OrderIsNames
  <2>4. PlaceInv(t)'
    BY <1>1, <1>2, <1>4, <1>8, <1>9 DEF StreamInv, PlaceInv, Here
  <2>5. SlotsInv(t)'
    <3> SUFFICES ASSUME NEW i \in DOMAIN Order
                 PROVE /\ t \in Range(slots'[Order[i]]) => Registered(t, i)'
                       /\ Registered(t, i)' /\ t \notin cut => t \in Range(slots'[Order[i]])
                       /\ ~Registered(t, i)' => \A j \in DOMAIN queue[t] : queue[t][j].name # Order[i]
      BY <1>2, <2>1 DEF SlotsInv
    <3>1. /\ t \in Range(slots[Order[i]]) => Registered(t, i)
          /\ Registered(t, i) /\ t \notin cut => t \in Range(slots[Order[i]])
          /\ ~Registered(t, i) => \A j \in DOMAIN queue[t] : queue[t][j].name # Order[i]
      BY <1>1, <1>4, <2>2 DEF StreamInv, SlotsInv
    <3>2. t \in Range(slots'[Order[i]]) <=> (t \in Range(slots[Order[i]]) \/ i = a)
      BY <1>6, <2>3
    <3> QED BY <3>1, <3>2, <2>1, <2>2
  <2>6. MirrorInv(t)'
    BY <1>1, <1>2, <1>4 DEF StreamInv, MirrorInv, FirstStream
  <2>7. HeldInv(t)'
    BY <1>9 DEF HeldInv
  <2>8. Known(t)'
    <3> SUFFICES ASSUME Follows(t)', NEW i \in DOMAIN Order, NEW k \in Keys \cup {None}
                 PROVE Claim(call[t], i, k, Heard(t, Order[i], k), Cached(cache, Order[i], k))'
      BY DEF Known
    <3>1. Follows(t)
      BY <1>2, <2>2 DEF Follows, FirstStream
    <3>2. Claim(call[t], i, k, Heard(t, Order[i], k), Cached(cache, Order[i], k))
      BY <1>1, <3>1 DEF StreamInv, Known
    <3>3. Heard(t, Order[i], k) = Said(mirror[Client[t]], queue[t], t, Connected[Order[i]], telling, Order[i], k)
      BY <1>1, <2>3, HeardIs
    <3>4. Heard(t, Order[i], k)' = Said(mirror[Client[t]], queue[t], t, Connected'[Order[i]], telling, Order[i], k)
      BY <1>1, <1>2, <2>3, HeardIsNext
    <3>5. t \in Connected'[Order[i]] <=> (t \in Connected[Order[i]] \/ i = a)
      BY <1>6, <2>3 DEF Connected
    <3>6. CASE i # a
      <4>1. Heard(t, Order[i], k)' = Heard(t, Order[i], k)
        BY <3>3, <3>4, <3>5, <3>6 DEF Said
      <4>2. i < call'[t].at => i < a
        BY <1>4, <1>8, <3>6, OrderIsNames
      <4> QED BY <4>1, <4>2, <3>2, <3>6, <1>2, <1>3, <1>8 DEF Claim
    <3>7. CASE i = a
      <4>1. mirror[Client[t]] = EmptyCache
        BY <1>1, <1>4, <3>1 DEF StreamInv, MirrorInv, Follows
      <4>2. \A j \in DOMAIN queue[t] : queue[t][j].name # n
        BY <1>1, <1>3, <1>4, <1>5, <2>2 DEF StreamInv, SlotsInv
      <4>3. Applied(mirror[Client[t]], queue[t], n, k) = None
        BY <4>1, <4>2, Silent, EmptyHasNone
      <4>4. telling # None /\ About(telling, n, k) => Word(telling) = Cached(cache, n, k)
        BY <1>5, NoneAssumption DEF WatchInv, TellingInv, About
      <4>5. Heard(t, n, k)' \in {None, Cached(cache, n, k)}
        BY <3>4, <3>7, <1>3, <4>3, <4>4 DEF Said
      <4>6. n \notin DOMAIN cache => Cached(cache, n, k) = None
        BY DEF Cached, DataMap
      <4>7. ~(a < a)
        BY <1>4
      <4> QED BY <4>5, <4>6, <4>7, <3>7, <1>2, <1>3, <1>8 DEF Claim
    <3> QED BY <3>6, <3>7
  <2> QED BY <2>4, <2>5, <2>6, <2>7, <2>8 DEF StreamInv
<1> QED BY <1>1, <1>2, <1>7, <1>10, OtherStreams

\* What a stream will have said of a name stays when its queue and the emitter are as they
\* were.
LEMMA HeardStays ==
    ASSUME WatchShape, WatchShape', NEW t \in Streams, NEW n \in Names, NEW k,
           mirror' = mirror, queue'[t] = queue[t], slots' = slots, telling' = telling
    PROVE  Heard(t, n, k)' = Heard(t, n, k)
<1>1. Connected' = Connected
  BY DEF Connected
<1> QED BY <1>1, HeardIs, HeardIsNext

LEMMA SlotsStay ==
    ASSUME NEW t \in Streams, SlotsInv(t), Here(t), Here(t)',
           \A i \in DOMAIN Order : Registered(t, i)' <=> Registered(t, i),
           slots' = slots, cut' = cut,
           \A i \in DOMAIN Order : ~Registered(t, i) /\ (\A j \in DOMAIN queue[t] : queue[t][j].name # Order[i])
              => \A j \in DOMAIN queue'[t] : queue'[t][j].name # Order[i]
    PROVE  SlotsInv(t)'
<1> SUFFICES ASSUME NEW i \in DOMAIN Order
             PROVE /\ t \in Range(slots[Order[i]]) => Registered(t, i)'
                   /\ Registered(t, i)' /\ t \notin cut => t \in Range(slots[Order[i]])
                   /\ ~Registered(t, i)' => \A j \in DOMAIN queue'[t] : queue'[t][j].name # Order[i]
  BY DEF SlotsInv
<1>1. /\ t \in Range(slots[Order[i]]) => Registered(t, i)
      /\ Registered(t, i) /\ t \notin cut => t \in Range(slots[Order[i]])
      /\ ~Registered(t, i) => \A j \in DOMAIN queue[t] : queue[t][j].name # Order[i]
  BY DEF SlotsInv, Here
<1> QED BY <1>1

LEMMA WaitInv == ASSUME WatchAssumption, WatchInv, NEW t \in Streams, WaitComplete(t) PROVE WatchInv'
<1>1. WatchShape /\ WatchShape' /\ StreamInv(t) /\ call[t] \in Calls
  BY HandlerShape
<1>2. UNCHANGED <<cache, slots, telling, queue, worker, mirror, overtaken, cut>>
  BY DEF WaitComplete, storeVars, emitterVars, readerVars
<1>3. \A u \in Streams \ {t} : Aside(u)
  BY <1>1, <1>2 DEF WaitComplete, WatchShape, Aside
<1>4. PICK a, n : a = call[t].at /\ n = Order[a]
  OBVIOUS
<1>5. call[t].pc = "wait" /\ a \in Nat /\ a >= 1 /\ a <= Len(Order) /\ call[t].held = None
  BY <1>1, <1>4 DEF WaitComplete, StreamInv, PlaceInv, Here, Calls
<1>6. \/ call'[t].pc = "connect" /\ call'[t].at = a + 1
      \/ call'[t].pc = "replay" /\ call'[t].at = a /\ call'[t].visited = {}
  <2>1. call'[t] = IF n \notin DOMAIN cache THEN Onwards(t)
                   ELSE [call[t] EXCEPT !.pc = "replay", !.visited = {}, !.size = Cardinality(DOMAIN cache[n])]
    BY <1>1, <1>4 DEF WaitComplete, WatchShape, Replaying
  <2>2. Onwards(t).pc = "connect" /\ Onwards(t).at = a + 1
    BY <1>4 DEF Onwards, NoCall
  <2> QED BY <2>1, <2>2, <1>1, <1>4 DEF Calls
<1>7. call'[t].held = None
  BY <1>1, <1>4, <1>5 DEF WaitComplete, WatchShape, Onwards, Replaying, NoCall, Calls
<1>8. StreamInv(t)'
  <2>1. Here(t) /\ Here(t)' /\ \A i \in DOMAIN Order : Registered(t, i)' <=> Registered(t, i)
    <3>1. Here(t) /\ Here(t)'
      BY <1>5, <1>6 DEF Here
    <3> SUFFICES ASSUME NEW i \in DOMAIN Order PROVE Registered(t, i)' <=> Registered(t, i)
      BY <3>1
    <3>2. i < a + 1 <=> i < a \/ i = a
      BY <1>5, OrderIsNames
    <3>3. Registered(t, i) <=> i < a \/ i = a
      BY <1>4, <1>5 DEF Registered
    <3>4. CASE call'[t].pc = "connect" /\ call'[t].at = a + 1
      BY <3>2, <3>3, <3>4 DEF Registered
    <3>5. CASE call'[t].pc = "replay" /\ call'[t].at = a
      BY <3>3, <3>5 DEF Registered
    <3> QED BY <3>4, <3>5, <1>6
  <2>2. PlaceInv(t)'
    BY <1>1, <1>2, <1>5, <1>6, <1>7 DEF StreamInv, PlaceInv, Here
  <2>3. SlotsInv(t)'
    <3>1. SlotsInv(t) /\ slots' = slots /\ cut' = cut /\ queue'[t] = queue[t]
      BY <1>1, <1>2 DEF StreamInv
    <3> QED BY <3>1, <2>1, SlotsStay
  <2>4. MirrorInv(t)'
    BY <1>1, <1>2, <1>5 DEF StreamInv, MirrorInv, FirstStream
  <2>5. HeldInv(t)'
    BY <1>7 DEF HeldInv
  <2>6. Known(t)'
    <3> SUFFICES ASSUME Follows(t)', NEW i \in DOMAIN Order, NEW k \in Keys \cup {None}
                 PROVE Claim(call[t], i, k, Heard(t, Order[i], k), Cached(cache, Order[i], k))'
      BY DEF Known
    <3>1. Follows(t)
      BY <1>2, <2>1 DEF Follows, FirstStream
    <3>2. Claim(call[t], i, k, Heard(t, Order[i], k), Cached(cache, Order[i], k))
      BY <1>1, <3>1 DEF StreamInv, Known
    <3>3. Heard(t, Order[i], k)' = Heard(t, Order[i], k)
      BY <1>1, <1>2, OrderIsNames, HeardStays
    <3>4. i < a \/ i = a => Heard(t, Order[i], k) = Cached(cache, Order[i], k)
      BY <3>2, <1>4, <1>5 DEF Claim
    <3>5. i < a + 1 => i < a \/ i = a
      BY <1>5, OrderIsNames
    <3> QED BY <3>3, <3>4, <3>5, <1>2, <1>6 DEF Claim
  <2> QED BY <2>2, <2>3, <2>4, <2>5, <2>6 DEF StreamInv
<1> QED BY <1>1, <1>2, <1>3, <1>8, OtherStreams

\* A call that fails or ends makes no claim, and keeps the slots that it has.
LEMMA GoneInv ==
    ASSUME NEW t \in Streams, StreamInv(t),
           call'[t].pc \in {"finally", "ended"}, call[t].pc # "new", worker'[t] = worker[t]
    PROVE  StreamInv(t)'
<1>1. PlaceInv(t)'
  BY DEF StreamInv, PlaceInv, Here
<1>2. SlotsInv(t)' /\ MirrorInv(t)' /\ HeldInv(t)' /\ Known(t)'
  BY DEF SlotsInv, MirrorInv, HeldInv, Known, Follows, Here
<1> QED BY <1>1, <1>2 DEF StreamInv

LEMMA ReplayNextInv == ASSUME WatchAssumption, WatchInv, NEW t \in Streams, ReplayNext(t) PROVE WatchInv'
<1>1. WatchShape /\ WatchShape' /\ StreamInv(t) /\ call[t] \in Calls
  BY HandlerShape
<1>2. UNCHANGED <<cache, slots, telling, queue, worker, mirror, overtaken, cut>>
  BY DEF ReplayNext, storeVars, emitterVars, readerVars
<1>3. \A u \in Streams \ {t} : Aside(u)
  BY <1>1, <1>2 DEF ReplayNext, WatchShape, Aside
<1>4. PICK a, n, map : a = call[t].at /\ n = Order[a] /\ map = DataMap(cache, n)
  OBVIOUS
<1>5. call[t].pc = "replay" /\ a \in Nat /\ a >= 1 /\ a <= Len(Order) /\ call[t].held = None
  BY <1>1, <1>4 DEF ReplayNext, StreamInv, PlaceInv, Here, Calls
<1>6. a \in DOMAIN Order /\ n \in Names
  BY <1>4, <1>5, OrderIsNames
<1>7. \A k : Cached(cache, n, k) = IF k \in DOMAIN map THEN map[k] ELSE None
  BY <1>4 DEF Cached
<1>8. \/ call'[t].pc = "finally"
      \/ /\ DOMAIN map \ call[t].visited = {} /\ call' = [call EXCEPT ![t] = Onwards(t)]
      \/ \E k \in DOMAIN map :
            call' = [call EXCEPT ![t].visited = @ \cup {k}, ![t].held = Msg(n, Replayed(n), k, map[k])]
  <2>1. \/ call' = [call EXCEPT ![t].pc = "finally"]
        \/ /\ DOMAIN map \ call[t].visited = {} /\ call' = [call EXCEPT ![t] = Onwards(t)]
        \/ \E k \in DOMAIN map \ call[t].visited :
              call' = [call EXCEPT ![t].visited = @ \cup {k}, ![t].held = Msg(n, Replayed(n), k, map[k])]
    BY <1>4 DEF ReplayNext
  <2>2. call' = [call EXCEPT ![t].pc = "finally"] => call'[t].pc = "finally"
    BY <1>1 DEF WatchShape, Calls
  <2> QED BY <2>1, <2>2
<1>9. CASE call'[t].pc = "finally"
  <2>1. StreamInv(t)'
    BY <1>1, <1>2, <1>5, <1>9, GoneInv
  <2> QED BY <2>1, <1>1, <1>2, <1>3, OtherStreams
<1>10. CASE DOMAIN map \ call[t].visited = {} /\ call' = [call EXCEPT ![t] = Onwards(t)]
  <2>1. call'[t].pc = "connect" /\ call'[t].at = a + 1 /\ call'[t].held = None
    BY <1>1, <1>4, <1>10 DEF WatchShape, Onwards, NoCall
  <2>2. Here(t) /\ Here(t)' /\ \A i \in DOMAIN Order : Registered(t, i)' <=> Registered(t, i)
    BY <1>4, <1>5, <2>1, OrderIsNames DEF Here, Registered
  <2>3. PlaceInv(t)'
    BY <1>1, <1>2, <1>5, <2>1 DEF StreamInv, PlaceInv, Here
  <2>4. SlotsInv(t)'
    <3>1. SlotsInv(t) /\ slots' = slots /\ cut' = cut /\ queue'[t] = queue[t]
      BY <1>1, <1>2 DEF StreamInv
    <3> QED BY <3>1, <2>2, SlotsStay
  <2>5. MirrorInv(t)'
    BY <1>1, <1>2, <1>5 DEF StreamInv, MirrorInv, FirstStream
  <2>6. HeldInv(t)'
    BY <2>1 DEF HeldInv
  <2>7. Known(t)'
    <3> SUFFICES ASSUME Follows(t)', NEW i \in DOMAIN Order, NEW k \in Keys \cup {None}
                 PROVE Claim(call[t], i, k, Heard(t, Order[i], k), Cached(cache, Order[i], k))'
      BY DEF Known
    <3>1. Follows(t)
      BY <1>2, <2>2 DEF Follows, FirstStream
    <3>2. Claim(call[t], i, k, Heard(t, Order[i], k), Cached(cache, Order[i], k))
      BY <1>1, <3>1 DEF StreamInv, Known
    <3>3. Heard(t, Order[i], k)' = Heard(t, Order[i], k)
      BY <1>1, <1>2, OrderIsNames, HeardStays
    <3>4. i = a => Heard(t, Order[i], k) = Cached(cache, Order[i], k)
      <4> SUFFICES ASSUME i = a PROVE Heard(t, n, k) = Cached(cache, n, k)
        BY <1>4
      <4>1. CASE k \in call[t].visited
        BY <3>2, <1>4, <1>5, <4>1 DEF Claim
      <4>2. CASE k \notin call[t].visited
        <5>1. k \notin DOMAIN map
          BY <1>10, <4>2
        <5>2. Cached(cache, n, k) = None
          BY <1>7, <5>1
        <5> QED BY <3>2, <1>4, <1>5, <4>2, <5>2 DEF Claim
      <4> QED BY <4>1, <4>2
    <3>5. i < a + 1 => i < a \/ i = a
      BY <1>5, OrderIsNames
    <3> QED BY <3>2, <3>3, <3>4, <3>5, <1>2, <1>4, <2>1 DEF Claim
  <2>8. StreamInv(t)'
    BY <2>3, <2>4, <2>5, <2>6, <2>7 DEF StreamInv
  <2> QED BY <2>8, <1>1, <1>2, <1>3, OtherStreams
<1>11. ASSUME NEW x \in DOMAIN map,
              call' = [call EXCEPT ![t].visited = @ \cup {x}, ![t].held = Msg(n, Replayed(n), x, map[x])]
       PROVE  WatchInv'
  <2>1. PICK h : h = Msg(n, Replayed(n), x, map[x])
    OBVIOUS
  <2>2. h.name = n /\ h.key = x /\ h.value = map[x] /\ h.action # "REMOVAL"
    BY <2>1 DEF Msg, Replayed
  <2>3. /\ call'[t].pc = "replay" /\ call'[t].at = a /\ call'[t].held = h
        /\ call'[t].visited = call[t].visited \cup {x}
    BY <1>1, <1>4, <1>5, <1>11, <2>1 DEF WatchShape, Calls
  <2>4. Here(t) /\ Here(t)' /\ \A i \in DOMAIN Order : Registered(t, i)' <=> Registered(t, i)
    BY <1>4, <1>5, <2>3 DEF Here, Registered
  <2>5. PlaceInv(t)'
    BY <1>1, <1>2, <1>4, <1>5, <2>2, <2>3 DEF StreamInv, PlaceInv, Here
  <2>6. SlotsInv(t)'
    <3>1. SlotsInv(t) /\ slots' = slots /\ cut' = cut /\ queue'[t] = queue[t]
      BY <1>1, <1>2 DEF StreamInv
    <3> QED BY <3>1, <2>4, SlotsStay
  <2>7. MirrorInv(t)'
    BY <1>1, <1>2, <1>5 DEF StreamInv, MirrorInv, FirstStream
  <2>8. HeldInv(t)'
    <3>1. Cached(cache, n, x) = map[x]
      BY <1>7
    <3> QED BY <3>1, <1>2, <2>2, <2>3 DEF HeldInv
  <2>9. Known(t)'
    <3> SUFFICES ASSUME Follows(t)', NEW i \in DOMAIN Order, NEW k \in Keys \cup {None}
                 PROVE Claim(call[t], i, k, Heard(t, Order[i], k), Cached(cache, Order[i], k))'
      BY DEF Known
    <3>1. Follows(t)
      BY <1>2, <2>4 DEF Follows, FirstStream
    <3>2. Claim(call[t], i, k, Heard(t, Order[i], k), Cached(cache, Order[i], k))
      BY <1>1, <3>1 DEF StreamInv, Known
    <3>3. Heard(t, Order[i], k)' = Heard(t, Order[i], k)
      BY <1>1, <1>2, OrderIsNames, HeardStays
    <3>4. h # None
      <4>1. map \in CacheMaps
        BY <1>1, <1>4, CachedMaps DEF WatchShape
      <4>2. map[x] \in Values /\ x \in Keys \cup {None}
        BY <4>1, MapIsFinite
      <4>3. h \in Message
        BY <2>1, <4>2, <1>6 DEF Msg, Message, Replayed, Actions
      <4> QED BY <4>3 DEF WatchAssumption
    <3> QED BY <3>2, <3>3, <3>4, <1>2, <1>4, <1>5, <2>2, <2>3 DEF Claim
  <2>10. StreamInv(t)'
    BY <2>5, <2>6, <2>7, <2>8, <2>9 DEF StreamInv
  <2> QED BY <2>10, <1>1, <1>2, <1>3, OtherStreams
<1> QED BY <1>8, <1>9, <1>10, <1>11

LEMMA ReplayPutInv == ASSUME WatchAssumption, WatchInv, NEW t \in Streams, ReplayPut(t) PROVE WatchInv'
<1>1. WatchShape /\ WatchShape' /\ StreamInv(t) /\ call[t] \in Calls /\ queue[t] \in Seq(Message)
  BY HandlerShape
<1>2. UNCHANGED <<cache, slots, telling, worker, mirror, overtaken>>
  BY DEF ReplayPut, storeVars, emitterVars, readerVars
<1>3. \A u \in Streams \ {t} : Aside(u)
  BY <1>1, <1>2 DEF ReplayPut, WatchShape, Aside
<1>4. PICK a, n, h : a = call[t].at /\ n = Order[a] /\ h = call[t].held
  OBVIOUS
<1>5. call[t].pc = "replay" /\ a \in Nat /\ a >= 1 /\ a <= Len(Order) /\ h # None
  BY <1>1, <1>4 DEF ReplayPut, StreamInv, PlaceInv, Here, Calls
<1>6. a \in DOMAIN Order /\ n \in Names
  BY <1>4, <1>5, OrderIsNames
<1>7. h \in Message /\ h.name = n /\ h.action # "REMOVAL" /\ h.key \in call[t].visited
  BY <1>1, <1>4, <1>5 DEF StreamInv, PlaceInv, Calls
<1>8. /\ call'[t].pc = "replay" /\ call'[t].at = a /\ call'[t].held = None
      /\ call'[t].visited = call[t].visited
  BY <1>1, <1>4, <1>5 DEF ReplayPut, WatchShape, Calls
<1>9. /\ Full(t) => t \in cut' /\ queue'[t] = queue[t]
      /\ ~Full(t) => queue'[t] = Append(queue[t], h)
      /\ t \notin cut' => t \notin cut
      /\ t \in cut' => t \in cut \/ Full(t)
  BY <1>1, <1>4 DEF ReplayPut, WatchShape
<1>10. Here(t) /\ Here(t)' /\ \A i \in DOMAIN Order : Registered(t, i)' <=> Registered(t, i)
  BY <1>4, <1>5, <1>8 DEF Here, Registered
<1>11. \A i \in DOMAIN Order : Order[i] \in Names /\ (Order[i] = n <=> i = a)
  BY <1>4, <1>6, OrderIsNames
<1>12. StreamInv(t)'
  <2>1. PlaceInv(t)'
    BY <1>1, <1>2, <1>4, <1>5, <1>8 DEF StreamInv, PlaceInv, Here
  <2>2. SlotsInv(t)'
    <3> SUFFICES ASSUME NEW i \in DOMAIN Order
                 PROVE /\ t \in Range(slots[Order[i]]) => Registered(t, i)'
                       /\ Registered(t, i)' /\ t \notin cut' => t \in Range(slots[Order[i]])
                       /\ ~Registered(t, i)' => \A j \in DOMAIN queue'[t] : queue'[t][j].name # Order[i]
      BY <1>2, <1>10 DEF SlotsInv
    <3>1. /\ t \in Range(slots[Order[i]]) => Registered(t, i)
          /\ Registered(t, i) /\ t \notin cut => t \in Range(slots[Order[i]])
          /\ ~Registered(t, i) => \A j \in DOMAIN queue[t] : queue[t][j].name # Order[i]
      BY <1>1, <1>5, <1>10 DEF StreamInv, SlotsInv
    <3>2. ASSUME ~Registered(t, i)
          PROVE  \A j \in DOMAIN queue'[t] : queue'[t][j].name # Order[i]
      <4>1. \A j \in DOMAIN queue[t] : queue[t][j].name # Order[i]
        BY <3>1, <3>2
      <4>2. h.name # Order[i]
        BY <3>2, <1>4, <1>5, <1>7, <1>11 DEF Registered
      <4>3. CASE Full(t)
        BY <4>1, <4>3, <1>9
      <4>4. CASE ~Full(t)
        <5>1. queue'[t] = Append(queue[t], h)
          BY <4>4, <1>9
        <5> QED BY <5>1, <4>1, <4>2, <1>1
      <4> QED BY <4>3, <4>4
    <3> QED BY <3>1, <3>2, <1>9, <1>10
  <2>3. MirrorInv(t)'
    BY <1>1, <1>2, <1>5 DEF StreamInv, MirrorInv, FirstStream
  <2>4. HeldInv(t)'
    BY <1>8 DEF HeldInv
  <2>5. Known(t)'
    <3> SUFFICES ASSUME Follows(t)', NEW i \in DOMAIN Order, NEW k \in Keys \cup {None}
                 PROVE Claim(call[t], i, k, Heard(t, Order[i], k), Cached(cache, Order[i], k))'
      BY DEF Known
    <3>1. Follows(t) /\ queue'[t] = Append(queue[t], h) /\ t \notin cut \cup overtaken
      BY <1>2, <1>9, <1>10 DEF Follows, FirstStream
    <3>2. Claim(call[t], i, k, Heard(t, Order[i], k), Cached(cache, Order[i], k))
      BY <1>1, <3>1 DEF StreamInv, Known
    <3>3. Connected' = Connected
      BY <1>2 DEF Connected
    <3>4. Heard(t, Order[i], k) = Said(mirror[Client[t]], queue[t], t, Connected[Order[i]], telling, Order[i], k)
      BY <1>1, <1>11, HeardIs
    <3>5. Heard(t, Order[i], k)'
             = Said(mirror[Client[t]], Append(queue[t], h), t, Connected[Order[i]], telling, Order[i], k)
      <4>1. Heard(t, Order[i], k)'
               = Said(mirror'[Client[t]], queue'[t], t, Connected'[Order[i]], telling', Order[i], k)
        BY <1>1, <1>11, HeardIsNext
      <4> QED BY <4>1, <1>2, <3>1, <3>3
    <3>6. Applied(mirror[Client[t]], Append(queue[t], h), Order[i], k)
             = IF About(h, Order[i], k) THEN Word(h) ELSE Applied(mirror[Client[t]], queue[t], Order[i], k)
      BY <1>1, <1>7, AppliedAppend
    <3>7. CASE ~About(h, Order[i], k)
      <4>1. Heard(t, Order[i], k)' = Heard(t, Order[i], k)
        BY <3>4, <3>5, <3>6, <3>7 DEF Said
      <4>2. i = a => h.key # k
        BY <3>7, <1>7, <1>11 DEF About
      <4> QED BY <3>2, <4>1, <4>2, <1>2, <1>4, <1>5, <1>8 DEF Claim
    <3>8. CASE About(h, Order[i], k)
      <4>1. i = a /\ k = h.key
        BY <3>8, <1>7, <1>11 DEF About
      <4>2. t \in Connected[n]
        BY <1>1, <1>4, <1>5, <1>6, <1>10, <3>1, Slotted DEF Registered
      <4>3. \/ telling # None /\ About(telling, n, k)
            \/ Cached(cache, n, k) = h.value
        BY <1>1, <1>4, <1>5, <1>7, <3>1, <4>1 DEF StreamInv, HeldInv
      <4>4. telling # None /\ About(telling, n, k) => Cached(cache, n, k) = Word(telling)
        BY <1>6, NoneAssumption DEF WatchInv, TellingInv, About
      <4>5. Word(h) = h.value
        BY <1>7 DEF Word
      <4>6. Heard(t, Order[i], k)' = IF telling # None /\ About(telling, n, k) THEN Word(telling) ELSE h.value
        BY <3>5, <3>6, <3>8, <4>1, <4>2, <4>5, <1>4 DEF Said
      <4>7. Heard(t, Order[i], k)' = Cached(cache, n, k)
        BY <4>3, <4>4, <4>6
      <4> QED BY <4>1, <4>7, <1>2, <1>4 DEF Claim
    <3> QED BY <3>7, <3>8
  <2> QED BY <2>1, <2>2, <2>3, <2>4, <2>5 DEF StreamInv
<1> QED BY <1>1, <1>2, <1>3, <1>12, OtherStreams

LEMMA MarkInv == ASSUME WatchAssumption, WatchInv, NEW t \in Streams, Mark(t) PROVE WatchInv'
<1>1. WatchShape /\ WatchShape' /\ StreamInv(t) /\ call[t] \in Calls /\ queue[t] \in Seq(Message)
  BY HandlerShape
<1>2. UNCHANGED <<cache, slots, telling, worker, mirror, overtaken, cut>>
  BY DEF Mark, storeVars, emitterVars, readerVars
<1>3. \A u \in Streams \ {t} : Aside(u)
  BY <1>1, <1>2 DEF Mark, WatchShape, Aside
<1>4. call[t].pc = "connect" /\ call[t].at \in Nat /\ call[t].at > Len(Order)
  BY <1>1 DEF Mark, Calls
<1>5. CASE Full(t)
  <2>1. call'[t].pc = "finally"
    BY <1>1, <1>5 DEF Mark, WatchShape, Calls
  <2>2. StreamInv(t)'
    BY <1>1, <1>2, <1>4, <2>1, GoneInv
  <2> QED BY <2>2, <1>1, <1>2, <1>3, OtherStreams
<1>6. CASE ~Full(t)
  <2>1. call'[t].pc = "serve" /\ call'[t].at = call[t].at /\ call'[t].held = call[t].held
        /\ queue'[t] = Append(queue[t], Marker)
    BY <1>1, <1>6 DEF Mark, WatchShape, Calls
  <2>2. \A i \in DOMAIN Order : i < call[t].at /\ Order[i] \in Names
    BY <1>4, OrderIsNames
  <2>3. Here(t) /\ Here(t)' /\ \A i \in DOMAIN Order : Registered(t, i)' /\ Registered(t, i)
    BY <1>4, <2>1, <2>2 DEF Here, Registered
  <2>4. PlaceInv(t)'
    BY <1>1, <1>2, <1>4, <2>1, OrderIsNames DEF StreamInv, PlaceInv, Here
  <2>5. SlotsInv(t)'
    <3>1. SlotsInv(t) /\ slots' = slots /\ cut' = cut
      BY <1>1, <1>2 DEF StreamInv
    <3> QED BY <3>1, <2>3, SlotsStay
  <2>6. MirrorInv(t)' /\ HeldInv(t)'
    BY <2>1 DEF MirrorInv, HeldInv
  <2>7. Known(t)'
    <3> SUFFICES ASSUME Follows(t)', NEW i \in DOMAIN Order, NEW k \in Keys \cup {None}
                 PROVE Claim(call[t], i, k, Heard(t, Order[i], k), Cached(cache, Order[i], k))'
      BY DEF Known
    <3>1. Follows(t)
      BY <1>2, <2>3 DEF Follows, FirstStream
    <3>2. Heard(t, Order[i], k) = Cached(cache, Order[i], k)
      BY <1>1, <2>2, <3>1 DEF StreamInv, Known, Claim
    <3>3. Connected' = Connected
      BY <1>2 DEF Connected
    <3>4. Heard(t, Order[i], k) = Said(mirror[Client[t]], queue[t], t, Connected[Order[i]], telling, Order[i], k)
      BY <1>1, <2>2, HeardIs
    <3>5. Heard(t, Order[i], k)'
             = Said(mirror[Client[t]], Append(queue[t], Marker), t, Connected[Order[i]], telling, Order[i], k)
      <4>1. Heard(t, Order[i], k)'
               = Said(mirror'[Client[t]], queue'[t], t, Connected'[Order[i]], telling', Order[i], k)
        BY <1>1, <2>2, HeardIsNext
      <4> QED BY <4>1, <1>2, <2>1, <3>3
    <3>6. Marker \in Message /\ ~About(Marker, Order[i], k)
      BY <2>2, NoneAssumption DEF Marker, Msg, Message, Actions, About
    <3>7. Applied(mirror[Client[t]], Append(queue[t], Marker), Order[i], k)
             = Applied(mirror[Client[t]], queue[t], Order[i], k)
      BY <1>1, <3>6, AppliedAppend
    <3>8. Heard(t, Order[i], k)' = Heard(t, Order[i], k)
      BY <3>4, <3>5, <3>7 DEF Said
    <3> QED BY <3>2, <3>8, <1>2, <2>1 DEF Claim
  <2>8. StreamInv(t)'
    BY <2>4, <2>5, <2>6, <2>7 DEF StreamInv
  <2> QED BY <2>8, <1>1, <1>2, <1>3, OtherStreams
<1> QED BY <1>5, <1>6

LEMMA DeliverInv == ASSUME WatchAssumption, WatchInv, NEW t \in Streams, Deliver(t) PROVE WatchInv'
<1>1. WatchShape /\ WatchShape' /\ StreamInv(t) /\ call[t] \in Calls /\ queue[t] \in Seq(Message)
  <2>1. Client[t] \in Clients
    BY DEF WatchAssumption
  <2> QED BY <2>1, ShapeOfReader DEF WatchInv, WatchShape
<1>2. UNCHANGED <<cache, slots, telling, call, overtaken, cut>>
  BY DEF Deliver, storeVars, emitterVars
<1>3. /\ call[t].pc = "serve" /\ queue[t] # <<>> /\ worker[t] = "read"
      /\ queue'[t] = Tail(queue[t]) /\ worker'[t] # "new"
      /\ \A u \in Streams \ {t} : queue'[u] = queue[u] /\ worker'[u] = worker[u]
  BY <1>1 DEF Deliver, WatchShape
<1>4. \A c \in Clients : mirror'[c] = IF c = Client[t] THEN UpdateCache(mirror[c], Head(queue[t])) ELSE mirror[c]
  BY <1>1 DEF Deliver, WatchShape
<1>5. \A u \in Streams : Client[u] \in Clients
  BY DEF WatchAssumption
<1>6. \A u \in Streams \ {t} : Aside(u)
  <2> TAKE u \in Streams \ {t}
  <2>1. FirstStream(u)' => Client[u] # Client[t]
    BY <1>3 DEF FirstStream
  <2>2. FirstStream(u)' => mirror'[Client[u]] = mirror[Client[u]]
    BY <2>1, <1>4, <1>5
  <2> QED BY <2>2, <1>2, <1>3 DEF Aside
<1>7. StreamInv(t)'
  <2>1. PlaceInv(t)'
    BY <1>1, <1>2, <1>3 DEF StreamInv, PlaceInv, Here
  <2>2. \A i \in DOMAIN Order : i < call[t].at /\ Order[i] \in Names
    BY <1>1, <1>3, OrderIsNames DEF StreamInv, PlaceInv, Calls
  <2>3. SlotsInv(t)'
    <3>1. SlotsInv(t) /\ slots' = slots /\ cut' = cut /\ Here(t) /\ Here(t)'
      BY <1>1, <1>2, <1>3 DEF StreamInv, Here
    <3>2. \A i \in DOMAIN Order : Registered(t, i) /\ Registered(t, i)'
      BY <1>2, <2>2 DEF Registered
    <3> QED BY <3>1, <3>2, SlotsStay
  <2>4. MirrorInv(t)' /\ HeldInv(t)'
    BY <1>2, <1>3 DEF MirrorInv, HeldInv
  <2>5. Known(t)'
    <3> SUFFICES ASSUME Follows(t)', NEW i \in DOMAIN Order, NEW k \in Keys \cup {None}
                 PROVE Claim(call[t], i, k, Heard(t, Order[i], k), Cached(cache, Order[i], k))'
      BY DEF Known
    <3>1. \A v \in Streams : worker'[v] = "new" => worker[v] = "new"
      BY <1>3
    <3>2. Follows(t)
      BY <1>2, <1>3, <3>1, FirstStays DEF Follows, Here
    <3>3. Heard(t, Order[i], k) = Cached(cache, Order[i], k)
      BY <1>1, <2>2, <3>2 DEF StreamInv, Known, Claim
    <3>4. Connected' = Connected
      BY <1>2 DEF Connected
    <3>5. PICK c, q : c = mirror[Client[t]] /\ q = queue[t]
      OBVIOUS
    <3>6. Heard(t, Order[i], k) = Said(c, q, t, Connected[Order[i]], telling, Order[i], k)
      BY <1>1, <2>2, <3>5, HeardIs
    <3>7. mirror'[Client[t]] = UpdateCache(c, Head(q))
      BY <1>4, <1>5, <3>5
    <3>8. Heard(t, Order[i], k)'
             = Said(UpdateCache(c, Head(q)), Tail(q), t, Connected[Order[i]], telling, Order[i], k)
      BY <1>1, <1>2, <1>3, <2>2, <3>4, <3>5, <3>7, HeardIsNext
    <3>9. Applied(UpdateCache(c, Head(q)), Tail(q), Order[i], k) = Applied(c, q, Order[i], k)
      BY <1>1, <1>3, <2>2, <3>5, AppliedTail
    <3>10. Heard(t, Order[i], k)' = Heard(t, Order[i], k)
      BY <3>6, <3>8, <3>9 DEF Said
    <3> QED BY <3>3, <3>10, <1>2, <1>3 DEF Claim
  <2> QED BY <2>1, <2>3, <2>4, <2>5 DEF StreamInv
<1> QED BY <1>1, <1>2, <1>6, <1>7, OtherStreams

LEMMA UndeliverableInv == ASSUME WatchAssumption, WatchInv, NEW t \in Streams, Undeliverable(t) PROVE WatchInv'
<1>1. WatchShape /\ WatchShape' /\ StreamInv(t) /\ call[t] \in Calls
  BY HandlerShape
<1>2. UNCHANGED <<cache, slots, telling, worker, mirror, overtaken, cut>>
  BY DEF Undeliverable, storeVars, emitterVars, readerVars
<1>3. \A u \in Streams \ {t} : Aside(u)
  BY <1>1, <1>2 DEF Undeliverable, WatchShape, Aside
<1>4. call[t].pc # "new" /\ call'[t].pc = "finally"
  BY <1>1 DEF Undeliverable, WatchShape, Calls
<1>5. StreamInv(t)'
  BY <1>1, <1>2, <1>4, GoneInv
<1> QED BY <1>1, <1>2, <1>3, <1>5, OtherStreams

LEMMA FinallyInv == ASSUME WatchAssumption, WatchInv, NEW t \in Streams, Finally(t) PROVE WatchInv'
<1>1. WatchShape /\ WatchShape' /\ StreamInv(t) /\ call[t] \in Calls
  BY HandlerShape
<1>2. UNCHANGED <<cache, telling, worker, mirror>>
  BY DEF Finally, emitterVars, readerVars
<1>3. \A u \in Streams \ {t} : Aside(u)
  <2> TAKE u \in Streams \ {t}
  <2>1. call'[u] = call[u] /\ queue'[u] = queue[u]
    BY <1>1 DEF Finally, WatchShape
  <2>2. \A n \in Names : slots'[n] = IF n = Last(Order) THEN <<>> ELSE slots[n]
    BY DEF Finally, Disconnected
  <2>3. \A n \in Names : u \in Range(slots'[n]) => u \in Range(slots[n])
    BY <2>2 DEF Range
  <2>4. u \notin cut' => u \notin cut /\ u \notin Range(slots[Last(Order)])
    BY DEF Finally
  <2>5. u \notin cut' => \A n \in Names : u \in Range(slots[n]) => u \in Range(slots'[n])
    BY <2>2, <2>4
  <2>6. u \notin overtaken' => u \notin overtaken
    BY DEF Finally
  <2> QED BY <1>2, <2>1, <2>3, <2>4, <2>5, <2>6 DEF Aside
<1>4. call[t].pc # "new" /\ call'[t].pc = "ended"
  BY <1>1 DEF Finally, WatchShape, NoCall
<1>5. StreamInv(t)'
  BY <1>1, <1>2, <1>4, GoneInv
<1> QED BY <1>1, <1>2, <1>3, <1>5, OtherStreams

-----------------------------------------------------------------------------
LEMMA WatchInitInv == ASSUME WatchAssumption, WatchInit PROVE WatchInv
<1>1. WatchShape
  <2>1. NoCall \in Calls
    BY DEF NoCall, Calls
  <2>2. DOMAIN cache = {}
    BY DEF WatchInit, EmptyCache
  <2>3. call \in [Streams -> Calls]
    BY <2>1 DEF WatchInit
  <2>4. queue \in [Streams -> Seq(Message)] /\ \A t \in Streams : Len(queue[t]) <= QueueSize
    BY DEF WatchInit, WatchAssumption
  <2>5. /\ completed \in BOOLEAN /\ slots \in [Names -> Seq(Streams)] /\ todo \in Seq(Emission)
        /\ telling \in Emission \cup {None}
    <3>1. slots = [n \in Names |-> <<>>]
      BY DEF WatchInit
    <3>2. slots \in [Names -> Seq(Streams)]
      BY <3>1
    <3>3. todo \in Seq(Emission)
      BY DEF WatchInit
    <3> QED BY <3>2, <3>3 DEF WatchInit
  <2>6. /\ readers \in [Clients -> Streams \cup {None}]
        /\ worker \in [Streams -> {"new", "read", "finish", "ended"}]
    BY DEF WatchInit
  <2>7. mirror = [c \in Clients |-> mirror[c]]
    <3>1. \A c \in Clients : mirror[c] = EmptyCache
      BY DEF WatchInit
    <3> QED BY <3>1 DEF WatchInit
  <2> QED BY <2>2, <2>3, <2>4, <2>5, <2>6, <2>7 DEF WatchShape
<1>2. TellingInv
  BY DEF WatchInit, TellingInv
<1>3. ASSUME NEW t \in Streams
      PROVE  StreamInv(t)
  <2>1. /\ call[t].pc = "new" /\ worker[t] = "new" /\ queue[t] = <<>>
        /\ Client[t] \in Clients /\ mirror[Client[t]] = EmptyCache
    BY DEF WatchInit, NoCall, WatchAssumption
  <2>2. \A i \in DOMAIN Order : t \notin Range(slots[Order[i]])
    BY OrderIsNames DEF WatchInit, Range
  <2> QED BY <2>1, <2>2 DEF StreamInv, PlaceInv, SlotsInv, MirrorInv, HeldInv, Known, Follows, Here
<1> QED BY <1>1, <1>2, <1>3 DEF WatchInv

LEMMA WatchStep == ASSUME WatchAssumption, WatchInv, [WatchNext]_watchVars PROVE WatchInv'
<1>1. CASE UNCHANGED watchVars
  <2>1. UNCHANGED <<cache, completed, slots, todo, telling, call, queue, readers, worker, mirror,
                    overtaken, cut>>
    BY <1>1 DEF watchVars, storeVars, emitterVars, readerVars
  <2>2. WatchShape /\ WatchShape'
    BY <2>1 DEF WatchInv, WatchShape
  <2>3. \A u \in Streams : Aside(u)
    BY <2>1 DEF Aside
  <2>4. \A u \in Streams : StreamInv(u)'
    BY <2>2, <2>3, AsideInv DEF WatchInv
  <2> QED BY <2>1, <2>2, <2>4, QuietTelling DEF WatchInv
<1>2. CASE AskEvent \/ AskMapping \/ AskMapUpdate
  <2>1. Asks
    BY <1>2, OnlyAsks DEF WatchInv
  <2> QED BY <2>1, AskInv
<1>3. CASE EmitToCache
  BY <1>3, EmitToCacheInv
<1>4. CASE EmitToSlots
  BY <1>4, EmitToSlotsInv
<1>5. ASSUME NEW c \in Clients, StopWatching(c) PROVE WatchInv'
  BY <1>5, StopInv
<1>6. ASSUME NEW t \in Streams, StartWatching(t) \/ Accept(t) \/ Watch(t) \/ ReaderEnds(t)
      PROVE  WatchInv'
  BY <1>6, StartInv, AcceptInv, ReaderEndsInv, ConnectInv, WaitInv, ReplayNextInv, ReplayPutInv, MarkInv,
     DeliverInv, UndeliverableInv, FinallyInv DEF Watch
<1> QED BY <1>1, <1>2, <1>3, <1>4, <1>5, <1>6 DEF WatchNext

LEMMA WatchShows == ASSUME WatchAssumption, WatchInv PROVE CacheReachesAll /\ WatchTypeOK
<1>1. MirrorFollows
  <2> SUFFICES ASSUME NEW t \in Streams, call[t].pc = "serve", worker[t] = "read", FirstStream(t),
                      t \notin cut \cup overtaken, NEW n \in Names, NEW k \in Keys \cup {None}
               PROVE  Heard(t, n, k) = Cached(cache, n, k)
    BY DEF MirrorFollows, Heard
  <2>1. PICK i \in DOMAIN Order : Order[i] = n
    BY OrderIsNames
  <2>2. StreamInv(t) /\ call[t].at \in Nat
    BY DEF WatchInv, WatchShape, Calls
  <2>3. i < call[t].at
    BY <2>2, OrderIsNames DEF StreamInv, PlaceInv
  <2> QED BY <2>1, <2>2, <2>3 DEF StreamInv, Known, Follows, Here, Claim
<1>2. MapUpdateReaches
  <2>1. \A n : DataMap(cache, n) \in CacheMaps
    BY CachedMaps DEF WatchInv, WatchShape
  <2> SUFFICES ASSUME NEW n \in Names \ EventNames, NEW new \in Maps, NEW k \in Keys \cup {None}
               PROVE  Applied(cache, EmitMapUpdate(cache, n, new), n, k)
                         = IF k \in DOMAIN new THEN new[k] ELSE None
    BY DEF MapUpdateReaches
  <2>2. n \in Names /\ DataMap(cache, n) \in CacheMaps
    BY <2>1
  <2> QED BY <2>2, MapUpdate
<1>3. WatchTypeOK
  <2>1. \A n \in DOMAIN cache : /\ DOMAIN cache[n] \subseteq Keys \cup {None}
                                /\ \A k \in DOMAIN cache[n] : cache[n][k] \in Values
    BY MapIsFinite DEF WatchInv, WatchShape
  <2>2. Emission \subseteq Message
    BY DEF Emission
  <2>3. todo \in Seq(Message)
    BY <2>2 DEF WatchInv, WatchShape
  <2> QED BY <2>1, <2>2, <2>3 DEF WatchInv, WatchShape, WatchTypeOK, Calls
<1> QED BY <1>1, <1>2, <1>3 DEF CacheReachesAll

\* Watch() and the cache beside it (signal_request_handler.py:80): what the first stream of
\* a client brought to its store, with what is on its way, is what the server has cached,
\* for every order of replay and emissions, for any names, maps, clients, streams and
\* sizes of queue and pool; and a map update reaches the map that it is given.
THEOREM Mirrors == WatchSpec => []CacheReachesAll
<1> USE WatchAssumption
<1>1. WatchInit => WatchInv
  BY WatchInitInv
<1>2. WatchInv /\ [WatchNext]_watchVars => WatchInv'
  BY WatchStep
<1>3. WatchInv => CacheReachesAll
  BY WatchShows
<1> QED BY <1>1, <1>2, <1>3, PTL DEF WatchSpec

\* Type correctness of the streams; a queue is never longer than max_queue_size.
THEOREM WatchTypes == WatchSpec => []WatchTypeOK
<1> USE WatchAssumption
<1>1. WatchInit => WatchInv
  BY WatchInitInv
<1>2. WatchInv /\ [WatchNext]_watchVars => WatchInv'
  BY WatchStep
<1>3. WatchInv => WatchTypeOK
  BY WatchShows
<1> QED BY <1>1, <1>2, <1>3, PTL DEF WatchSpec
================================================================================
