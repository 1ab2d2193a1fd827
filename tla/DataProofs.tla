------------------------------- MODULE DataProofs -------------------------------
(***************************************************************************)
(* What is stored and converted stays what it was.                         *)
(*                                                                         *)
(* Virtual files: contexts stay open for those who use them, and are said  *)
(* to be open just then, and transfers are whole, for any clients,         *)
(* contexts, volumes and calls, however these interleave.                  *)
(*                                                                         *)
(* Times: what is written of a point or an interval is read as the same,   *)
(* and what is added is what subtracting takes away, for any points,       *)
(* intervals, units and time zones.                                        *)
(***************************************************************************)
EXTENDS VirtualFiles, Times, FiniteSetTheorems, SequenceTheorems, NaturalsInduction, TLAPS

-----------------------------------------------------------------------------
(***************************************************************************)
(* Contexts of the virtual file system                                     *)
(*                                                                         *)
(* The invariant counts: a context has at least one reference for each     *)
(* place where a call holds it and for each opening of a client (CountInv),*)
(* and a name whose volume was never taken away has one object (ObjectInv).*)
(***************************************************************************)
(* The invariant *)

Fields == {"pc", "call", "request", "todo", "taking", "held", "next", "file", "root", "chunks",
           "ok", "alone", "result", "opened", "count"}

ObjectType == [name : ContextNames, refs : Nat]
LocationType == [name : ContextNames, modify : BOOLEAN]

\* A call that is about to take a context knows it, and one that closes a context has it open.
CallInv(call) ==
    /\ DOMAIN call = Fields
    /\ call.held \in Seq(DOMAIN objects)
    /\ call.opened \in [ContextNames -> Nat]
    /\ call.pc = "idle" => call.held = <<>>
    /\ call.pc \in {"lookup", "take"} =>
           /\ call.todo \in Seq(LocationType) /\ call.todo # <<>>
           /\ call.request.rpc = "CloseContext" => call.opened[call.todo[1].name] > 0
    /\ call.pc = "take" =>
           /\ call.taking \in DOMAIN objects
           /\ objects[call.taking].name = call.todo[1].name

ContextShape ==
    /\ objects \in Seq(ObjectType)
    /\ contexts \in [ContextNames -> Nat]
    /\ ejected \subseteq Removable /\ mounted \subseteq Removable /\ inUse \subseteq ContextNames
    /\ DOMAIN vfsCalls = Clients

\* A name has one object at a time, and as long as its volume was never taken away one at all.
ObjectInv ==
    /\ \A n \in ContextNames : contexts[n] # NoObject =>
           contexts[n] \in DOMAIN objects /\ objects[contexts[n]].name = n
    /\ \A o \in DOMAIN objects : objects[o].name \notin ejected => contexts[objects[o].name] = o

\* What is owed to a name: the places of calls that hold it, and the openings of clients.
HeldOf(n) == {p \in Clients \X Nat :
    p[2] \in DOMAIN vfsCalls[p[1]].held /\ objects[vfsCalls[p[1]].held[p[2]]].name = n}
OpenedOf(n) == {p \in Clients \X Nat : p[2] \in 1 .. vfsCalls[p[1]].opened[n]}
Refs(n) == IF contexts[n] = NoObject THEN 0 ELSE objects[contexts[n]].refs

\* A context is open as long as it is referred to, and has a reference for each of these.
CountInv(n) ==
    /\ n \in inUse <=> Refs(n) > 0
    /\ Refs(n) > 0 => Root(n)[2]
    /\ IsFiniteSet(HeldOf(n)) /\ IsFiniteSet(OpenedOf(n))
    /\ Cardinality(HeldOf(n)) + Cardinality(OpenedOf(n)) <= Refs(n)

ContextInv ==
    /\ ContextShape /\ ObjectInv
    /\ \A c \in Clients : CallInv(vfsCalls[c])
    /\ \A n \in ContextNames \ ejected : CountInv(n)

LEMMA RefsType == ContextShape /\ ObjectInv => \A n \in ContextNames : Refs(n) \in Nat
<1> SUFFICES ASSUME ContextShape, ObjectInv, NEW n \in ContextNames, contexts[n] # NoObject
             PROVE  objects[contexts[n]].refs \in Nat
  BY DEF Refs
<1>1. contexts[n] \in DOMAIN objects
  BY DEF ObjectInv
<1>2. objects[contexts[n]] \in ObjectType
  BY <1>1 DEF ContextShape
<1> QED BY <1>2 DEF ObjectType

LEMMA ContextsFollow == ContextInv => ContextsHold
<1> SUFFICES ASSUME ContextInv, NEW n \in ContextNames \ ejected
             PROVE  /\ (\E c \in Clients : \/ vfsCalls[c].opened[n] > 0
                                           \/ \E o \in Range(vfsCalls[c].held) : objects[o].name = n)
                          => n \in inUse /\ Root(n)[2]
                    /\ n \in inUse <=> contexts[n] # NoObject /\ objects[contexts[n]].refs > 0
  BY DEF ContextsHold, ReferencesKeepOpen, OpenContextsAgree
<1>1. /\ CountInv(n) /\ Refs(n) \in Nat
      /\ Cardinality(HeldOf(n)) \in Nat /\ Cardinality(OpenedOf(n)) \in Nat
  BY RefsType, FS_CardinalityType DEF ContextInv, CountInv
<1>2. ASSUME NEW c \in Clients, vfsCalls[c].opened[n] > 0 PROVE OpenedOf(n) # {}
  <2>1. <<c, vfsCalls[c].opened[n]>> \in OpenedOf(n)
    BY <1>2 DEF OpenedOf, ContextInv, CallInv
  <2> QED BY <2>1
<1>3. ASSUME NEW c \in Clients, NEW o \in Range(vfsCalls[c].held), objects[o].name = n
      PROVE  HeldOf(n) # {}
  <2>1. PICK i \in DOMAIN vfsCalls[c].held : vfsCalls[c].held[i] = o
    BY DEF Range
  <2>2. i \in Nat
    BY DEF ContextInv, CallInv
  <2>3. <<c, i>> \in HeldOf(n)
    BY <1>3, <2>1, <2>2 DEF HeldOf
  <2> QED BY <2>3
<1>4. HeldOf(n) # {} \/ OpenedOf(n) # {} => Refs(n) > 0
  BY <1>1, FS_EmptySet DEF CountInv
<1>5. ASSUME \E c \in Clients : \/ vfsCalls[c].opened[n] > 0
                                \/ \E o \in Range(vfsCalls[c].held) : objects[o].name = n
      PROVE  Refs(n) > 0
  BY <1>2, <1>3, <1>4, <1>5
<1> QED BY <1>1, <1>5 DEF CountInv, Refs

LEMMA ContextInitInv == VfsInit => ContextInv
<1> SUFFICES ASSUME VfsInit PROVE ContextInv
  OBVIOUS
<1> DEFINE fixed == CHOOSE n \in ContextNames : n \notin Removable
<1>1. /\ fixed \in ContextNames \ Removable
      /\ \A n \in ContextNames \ Removable : n = fixed
  <2>1. PICK m : ContextNames \ Removable = {m}
    BY VfsAssumption DEF VfsAssumption
  <2> QED BY <2>1
<1>2. objects = <<[name |-> fixed, refs |-> 0]>>
  BY DEF VfsInit
<1> HIDE DEF fixed
<1>3. objects \in Seq(ObjectType) /\ DOMAIN objects = {1} /\ objects[1].name = fixed /\ objects[1].refs = 0
  BY <1>1, <1>2 DEF ObjectType
<1>4. /\ contexts \in [ContextNames -> Nat]
      /\ \A n \in ContextNames : contexts[n] = IF n \in Removable THEN NoObject ELSE 1
  BY DEF VfsInit, NoObject
<1>5. ContextShape
  BY <1>3, <1>4 DEF ContextShape, VfsInit
<1>6. ObjectInv
  BY <1>1, <1>3, <1>4 DEF ObjectInv, NoObject
<1>7. \A c \in Clients : /\ DOMAIN vfsCalls[c] = Fields /\ vfsCalls[c].held = <<>>
                         /\ vfsCalls[c].opened = [n \in ContextNames |-> 0]
                         /\ vfsCalls[c].pc = "idle"
  BY DEF VfsInit, Idle, Fields
<1>8. \A c \in Clients : CallInv(vfsCalls[c])
  <2> SUFFICES ASSUME NEW c \in Clients PROVE CallInv(vfsCalls[c])
    OBVIOUS
  <2>1. <<>> \in Seq(DOMAIN objects)
    OBVIOUS
  <2>2. [n \in ContextNames |-> 0] \in [ContextNames -> Nat]
    OBVIOUS
  <2> QED BY <1>7, <2>1, <2>2 DEF CallInv
<1>9. ASSUME NEW n \in ContextNames \ ejected PROVE CountInv(n)
  <2>1. HeldOf(n) = {} /\ OpenedOf(n) = {}
    BY <1>7 DEF HeldOf, OpenedOf
  <2>2. Refs(n) = 0 /\ n \notin inUse
    BY <1>3, <1>4 DEF Refs, NoObject, VfsInit
  <2> QED BY <2>1, <2>2, FS_EmptySet DEF CountInv
<1> QED BY <1>5, <1>6, <1>8, <1>9 DEF ContextInv

-----------------------------------------------------------------------------
(* How calls change *)

\* Two calls that use contexts alike.
Alike(x, y) ==
    /\ DOMAIN x = DOMAIN y
    /\ x.pc = y.pc /\ x.request = y.request /\ x.todo = y.todo /\ x.taking = y.taking
    /\ x.held = y.held /\ x.opened = y.opened

\* A step of client c leaves it with a call; the others may learn that they are not alone.
Becomes(c, call) ==
    /\ DOMAIN vfsCalls' = Clients
    /\ vfsCalls'[c] = call
    /\ \A e \in Clients \ {c} : Alike(vfsCalls'[e], vfsCalls[e])

LEMMA Setting ==
    ASSUME ContextInv, NEW c \in Clients, NEW call, Set(c, call) \/ SetDisturbing(c, call)
    PROVE  Becomes(c, call)
<1>1. DOMAIN vfsCalls = Clients /\ \A e \in Clients : DOMAIN vfsCalls[e] = Fields
  BY DEF ContextInv, ContextShape, CallInv
<1>2. CASE Set(c, call)
  <2>1. DOMAIN vfsCalls' = Clients /\ \A e \in Clients \ {c} : vfsCalls'[e] = vfsCalls[e]
    BY <1>1, <1>2 DEF Set
  <2>2. vfsCalls'[c] = call
    BY <1>1, <1>2 DEF Set
  <2> QED BY <2>1, <2>2 DEF Becomes, Alike
<1>3. CASE SetDisturbing(c, call)
  <2>1. DOMAIN vfsCalls' = Clients /\ vfsCalls'[c] = call
    BY <1>3 DEF SetDisturbing
  <2>2. ASSUME NEW e \in Clients \ {c} PROVE Alike(vfsCalls'[e], vfsCalls[e])
    <3>1. vfsCalls'[e] = [vfsCalls[e] EXCEPT !.alone = @ /\ ~Sees(e)]
      BY <1>3 DEF SetDisturbing
    <3>2. DOMAIN vfsCalls[e] = Fields
      BY <1>1
    <3> QED BY <3>1, <3>2 DEF Alike, Fields
  <2> QED BY <2>1, <2>2 DEF Becomes
<1> QED BY <1>2, <1>3

\* Objects stay, and keep their names.
Names == /\ DOMAIN objects \subseteq DOMAIN objects'
         /\ \A o \in DOMAIN objects : objects'[o].name = objects[o].name

LEMMA CallStays ==
    ASSUME NEW x, NEW y, CallInv(y), Names, Alike(x, y)
    PROVE  CallInv(x)'
<1>1. /\ DOMAIN x = Fields /\ x.held \in Seq(DOMAIN objects) /\ x.opened \in [ContextNames -> Nat]
      /\ x.pc = "idle" => x.held = <<>>
      /\ x.pc \in {"lookup", "take"} =>
           /\ x.todo \in Seq(LocationType) /\ x.todo # <<>>
           /\ x.request.rpc = "CloseContext" => x.opened[x.todo[1].name] > 0
      /\ x.pc = "take" =>
           /\ x.taking \in DOMAIN objects
           /\ objects[x.taking].name = x.todo[1].name
  BY DEF CallInv, Alike
<1>2. x.held \in Seq(DOMAIN objects')
  BY <1>1 DEF Names
<1>3. x.pc = "take" =>
           /\ x.taking \in DOMAIN objects'
           /\ objects'[x.taking].name = x.todo[1].name
  BY <1>1 DEF Names
<1> QED BY <1>1, <1>2, <1>3 DEF CallInv

-----------------------------------------------------------------------------
(* How what is owed changes *)

LEMMA HeldSame ==
    ASSUME ContextInv, Names, DOMAIN vfsCalls' = Clients,
           \A e \in Clients : vfsCalls'[e].held = vfsCalls[e].held
    PROVE  \A m : HeldOf(m)' = HeldOf(m)
<1> SUFFICES ASSUME NEW m PROVE HeldOf(m)' = HeldOf(m)
  OBVIOUS
<1>1. \A e \in Clients : \A i \in DOMAIN vfsCalls[e].held :
          objects'[vfsCalls[e].held[i]].name = objects[vfsCalls[e].held[i]].name
  BY DEF ContextInv, CallInv, Names
<1> QED BY <1>1 DEF HeldOf

LEMMA OpenedSame ==
    ASSUME DOMAIN vfsCalls' = Clients, \A e \in Clients : vfsCalls'[e].opened = vfsCalls[e].opened
    PROVE  \A m : OpenedOf(m)' = OpenedOf(m)
  BY DEF OpenedOf

LEMMA SamePlaces ==
    ASSUME NEW S, NEW T,
           \A p \in S \cup T : \E e \in Clients, i \in Nat : p = <<e, i>>,
           \A e \in Clients, i \in Nat : <<e, i>> \in S <=> <<e, i>> \in T
    PROVE  S = T
  OBVIOUS

LEMMA HeldMore ==
    ASSUME ContextInv, Names, NEW c \in Clients, NEW o \in DOMAIN objects,
           vfsCalls'[c].held = Append(vfsCalls[c].held, o),
           \A e \in Clients \ {c} : vfsCalls'[e].held = vfsCalls[e].held
    PROVE  LET t == <<c, Len(vfsCalls[c].held) + 1>>
           IN  /\ \A m : t \notin HeldOf(m)
               /\ \A m : HeldOf(m)' = IF m = objects[o].name THEN HeldOf(m) \cup {t} ELSE HeldOf(m)
<1> DEFINE h == vfsCalls[c].held
           t == <<c, Len(h) + 1>>
<1>1. /\ h \in Seq(DOMAIN objects) /\ Len(h) \in Nat
      /\ DOMAIN h = 1 .. Len(h)
      /\ DOMAIN Append(h, o) = 1 .. Len(h) + 1
      /\ \A i \in 1 .. Len(h) : Append(h, o)[i] = h[i]
      /\ Append(h, o)[Len(h) + 1] = o
  BY DEF ContextInv, CallInv
<1>2. \A m : t \notin HeldOf(m)
  BY <1>1 DEF HeldOf
<1>3. \A e \in Clients : \A i \in DOMAIN vfsCalls[e].held :
          objects'[vfsCalls[e].held[i]].name = objects[vfsCalls[e].held[i]].name
  BY DEF ContextInv, CallInv, Names
<1>4. ASSUME NEW m
      PROVE  HeldOf(m)' = IF m = objects[o].name THEN HeldOf(m) \cup {t} ELSE HeldOf(m)
  <2>1. ASSUME NEW e \in Clients \ {c}, NEW i \in Nat
        PROVE  <<e, i>> \in HeldOf(m)' <=> <<e, i>> \in HeldOf(m)
    BY <1>3, <2>1 DEF HeldOf
  <2>2. ASSUME NEW i \in Nat
        PROVE  <<c, i>> \in HeldOf(m)' <=>
                   <<c, i>> \in HeldOf(m) \/ (i = Len(h) + 1 /\ m = objects[o].name)
    <3>1. <<c, i>> \in HeldOf(m)' <=>
              i \in DOMAIN Append(h, o) /\ objects'[Append(h, o)[i]].name = m
      BY DEF HeldOf
    <3>2. <<c, i>> \in HeldOf(m) <=> i \in DOMAIN h /\ objects[h[i]].name = m
      BY DEF HeldOf
    <3>3. CASE i \in 1 .. Len(h)
      <4>1. Append(h, o)[i] = h[i] /\ i # Len(h) + 1 /\ i \in DOMAIN h /\ i \in DOMAIN Append(h, o)
        BY <1>1, <3>3
      <4>2. objects'[h[i]].name = objects[h[i]].name
        BY <1>3, <4>1
      <4> HIDE DEF h
      <4> QED BY <3>1, <3>2, <4>1, <4>2
    <3>4. CASE i = Len(h) + 1
      <4>1. i \notin DOMAIN h /\ i \in DOMAIN Append(h, o) /\ Append(h, o)[i] = o
        BY <1>1, <3>4
      <4>2. objects'[o].name = objects[o].name
        BY DEF Names
      <4> HIDE DEF h
      <4> QED BY <3>1, <3>2, <3>4, <4>1, <4>2
    <3>5. CASE i \notin 1 .. Len(h) + 1
      BY <1>1, <3>1, <3>2, <3>5
    <3> QED BY <1>1, <3>3, <3>4, <3>5
  <2> DEFINE R == IF m = objects[o].name THEN HeldOf(m) \cup {t} ELSE HeldOf(m)
  <2>3. \A p \in HeldOf(m)' \cup R : \E e \in Clients, i \in Nat : p = <<e, i>>
    BY <1>1, SMTT(30) DEF HeldOf
  <2>4. ASSUME NEW e \in Clients, NEW i \in Nat
        PROVE  <<e, i>> \in HeldOf(m)' <=> <<e, i>> \in R
    <3>1. CASE e = c
      BY <2>2, <3>1
    <3>2. CASE e # c
      BY <2>1, <3>2
    <3> QED BY <3>1, <3>2
  <2> HIDE DEF R
  <2>5. HeldOf(m)' = R
    BY <2>3, <2>4, SamePlaces
  <2> QED BY <2>5 DEF R
<1> QED BY <1>2, <1>4

LEMMA HeldLess ==
    ASSUME ContextInv, Names, NEW c \in Clients, vfsCalls[c].held # <<>>,
           vfsCalls'[c].held = Front(vfsCalls[c].held),
           \A e \in Clients \ {c} : vfsCalls'[e].held = vfsCalls[e].held
    PROVE  LET t == <<c, Len(vfsCalls[c].held)>>
               n == objects[Last(vfsCalls[c].held)].name
           IN  /\ t \in HeldOf(n)
               /\ \A m : HeldOf(m)' = IF m = n THEN HeldOf(m) \ {t} ELSE HeldOf(m)
<1> DEFINE h == vfsCalls[c].held
           t == <<c, Len(h)>>
           n == objects[Last(h)].name
<1>1. /\ h \in Seq(DOMAIN objects) /\ Len(h) \in Nat \ {0}
      /\ DOMAIN h = 1 .. Len(h)
      /\ Last(h) = h[Len(h)]
  BY EmptySeq DEF ContextInv, CallInv, Last
<1>2. /\ DOMAIN Front(h) = 1 .. Len(h) - 1
      /\ \A i \in 1 .. Len(h) - 1 : Front(h)[i] = h[i]
  <2>1. h \in Seq(DOMAIN objects) /\ Len(h) \in Nat \ {0}
    BY <1>1
  <2> HIDE DEF h
  <2>2. SubSeq(h, 1, Len(h) - 1) = [i \in 1 .. Len(h) - 1 |-> h[i]]
    BY <2>1, SubSeqProperties
  <2> QED BY <2>2 DEF Front
<1>3. \A e \in Clients : \A i \in DOMAIN vfsCalls[e].held :
          objects'[vfsCalls[e].held[i]].name = objects[vfsCalls[e].held[i]].name
  BY DEF ContextInv, CallInv, Names
<1>4. t \in HeldOf(n)
  BY <1>1 DEF HeldOf
<1>5. ASSUME NEW m
      PROVE  HeldOf(m)' = IF m = n THEN HeldOf(m) \ {t} ELSE HeldOf(m)
  <2>1. ASSUME NEW e \in Clients \ {c}, NEW i \in Nat
        PROVE  <<e, i>> \in HeldOf(m)' <=> <<e, i>> \in HeldOf(m)
    BY <1>3, <2>1 DEF HeldOf
  <2>2. ASSUME NEW i \in Nat
        PROVE  <<c, i>> \in HeldOf(m)' <=> <<c, i>> \in HeldOf(m) /\ i # Len(h)
    <3>1. <<c, i>> \in HeldOf(m)' <=>
              i \in DOMAIN Front(h) /\ objects'[Front(h)[i]].name = m
      BY DEF HeldOf
    <3>2. <<c, i>> \in HeldOf(m) <=> i \in DOMAIN h /\ objects[h[i]].name = m
      BY DEF HeldOf
    <3>3. i \in DOMAIN Front(h) <=> i \in DOMAIN h /\ i # Len(h)
      BY <1>1, <1>2
    <3>4. i \in DOMAIN Front(h) => Front(h)[i] = h[i] /\ objects'[h[i]].name = objects[h[i]].name
      BY <1>2, <1>3, <3>3
    <3> HIDE DEF h
    <3> QED BY <3>1, <3>2, <3>3, <3>4
  <2>3. <<c, Len(h)>> \in HeldOf(m) <=> m = n
    BY <1>1 DEF HeldOf
  <2> DEFINE R == IF m = n THEN HeldOf(m) \ {t} ELSE HeldOf(m)
  <2>4. \A p \in HeldOf(m)' \cup R : \E e \in Clients, i \in Nat : p = <<e, i>>
    BY DEF HeldOf
  <2>5. ASSUME NEW e \in Clients, NEW i \in Nat
        PROVE  <<e, i>> \in HeldOf(m)' <=> <<e, i>> \in R
    <3> HIDE DEF h, n
    <3>1. CASE e = c
      BY <2>2, <2>3, <3>1
    <3>2. CASE e # c
      BY <2>1, <3>2
    <3> QED BY <3>1, <3>2
  <2> HIDE DEF R
  <2>6. HeldOf(m)' = R
    BY <2>4, <2>5, SamePlaces
  <2> QED BY <2>6 DEF R
<1> QED BY <1>4, <1>5

LEMMA OpenedMore ==
    ASSUME ContextInv, NEW c \in Clients, NEW n \in ContextNames, DOMAIN vfsCalls' = Clients,
           vfsCalls'[c].opened = [vfsCalls[c].opened EXCEPT ![n] = @ + 1],
           \A e \in Clients \ {c} : vfsCalls'[e].opened = vfsCalls[e].opened
    PROVE  LET t == <<c, vfsCalls[c].opened[n] + 1>>
           IN  /\ t \notin OpenedOf(n)
               /\ \A m \in ContextNames :
                      OpenedOf(m)' = IF m = n THEN OpenedOf(m) \cup {t} ELSE OpenedOf(m)
<1> DEFINE k == vfsCalls[c].opened
           t == <<c, k[n] + 1>>
<1>1. k \in [ContextNames -> Nat]
  BY DEF ContextInv, CallInv
<1>2. t \notin OpenedOf(n)
  BY <1>1 DEF OpenedOf
<1>3. ASSUME NEW m \in ContextNames
      PROVE  OpenedOf(m)' = IF m = n THEN OpenedOf(m) \cup {t} ELSE OpenedOf(m)
  <2> DEFINE R == IF m = n THEN OpenedOf(m) \cup {t} ELSE OpenedOf(m)
  <2>1. ASSUME NEW e \in Clients \ {c}, NEW i \in Nat
        PROVE  <<e, i>> \in OpenedOf(m)' <=> <<e, i>> \in OpenedOf(m)
    BY <2>1 DEF OpenedOf
  <2>2. ASSUME NEW i \in Nat
        PROVE  <<c, i>> \in OpenedOf(m)' <=>
                   <<c, i>> \in OpenedOf(m) \/ (i = k[n] + 1 /\ m = n)
    <3>1. <<c, i>> \in OpenedOf(m)' <=> i \in 1 .. vfsCalls'[c].opened[m]
      BY DEF OpenedOf
    <3>2. <<c, i>> \in OpenedOf(m) <=> i \in 1 .. k[m]
      BY DEF OpenedOf
    <3>3. vfsCalls'[c].opened[m] = IF m = n THEN k[m] + 1 ELSE k[m]
      BY <1>1
    <3>4. k[m] \in Nat
      BY <1>1
    <3> HIDE DEF k
    <3> QED BY <3>1, <3>2, <3>3, <3>4
  <2>3. \A p \in OpenedOf(m)' \cup R : \E e \in Clients, i \in Nat : p = <<e, i>>
    BY <1>1 DEF OpenedOf
  <2>4. ASSUME NEW e \in Clients, NEW i \in Nat
        PROVE  <<e, i>> \in OpenedOf(m)' <=> <<e, i>> \in R
    <3> HIDE DEF k
    <3>1. CASE e = c
      BY <2>2, <3>1
    <3>2. CASE e # c
      BY <2>1, <3>2
    <3> QED BY <3>1, <3>2
  <2> HIDE DEF R
  <2>5. OpenedOf(m)' = R
    BY <2>3, <2>4, SamePlaces
  <2> QED BY <2>5 DEF R
<1> QED BY <1>2, <1>3

LEMMA OpenedLess ==
    ASSUME ContextInv, NEW c \in Clients, NEW n \in ContextNames, DOMAIN vfsCalls' = Clients,
           vfsCalls[c].opened[n] > 0,
           vfsCalls'[c].opened = [vfsCalls[c].opened EXCEPT ![n] = @ - 1],
           \A e \in Clients \ {c} : vfsCalls'[e].opened = vfsCalls[e].opened
    PROVE  LET t == <<c, vfsCalls[c].opened[n]>>
           IN  /\ t \in OpenedOf(n)
               /\ \A m \in ContextNames :
                      OpenedOf(m)' = IF m = n THEN OpenedOf(m) \ {t} ELSE OpenedOf(m)
<1> DEFINE k == vfsCalls[c].opened
           t == <<c, k[n]>>
<1>1. k \in [ContextNames -> Nat] /\ k[n] > 0
  BY DEF ContextInv, CallInv
<1>2. t \in OpenedOf(n)
  BY <1>1 DEF OpenedOf
<1>3. ASSUME NEW m \in ContextNames
      PROVE  OpenedOf(m)' = IF m = n THEN OpenedOf(m) \ {t} ELSE OpenedOf(m)
  <2> DEFINE R == IF m = n THEN OpenedOf(m) \ {t} ELSE OpenedOf(m)
  <2>1. ASSUME NEW e \in Clients \ {c}, NEW i \in Nat
        PROVE  <<e, i>> \in OpenedOf(m)' <=> <<e, i>> \in OpenedOf(m)
    BY <2>1 DEF OpenedOf
  <2>2. ASSUME NEW i \in Nat
        PROVE  <<c, i>> \in OpenedOf(m)' <=>
                   <<c, i>> \in OpenedOf(m) /\ ~(i = k[n] /\ m = n)
    <3>1. <<c, i>> \in OpenedOf(m)' <=> i \in 1 .. vfsCalls'[c].opened[m]
      BY DEF OpenedOf
    <3>2. <<c, i>> \in OpenedOf(m) <=> i \in 1 .. k[m]
      BY DEF OpenedOf
    <3>3. vfsCalls'[c].opened[m] = IF m = n THEN k[m] - 1 ELSE k[m]
      BY <1>1
    <3>4. k[m] \in Nat /\ (m = n => k[m] > 0)
      BY <1>1
    <3> HIDE DEF k
    <3> QED BY <3>1, <3>2, <3>3, <3>4
  <2>3. \A p \in OpenedOf(m)' \cup R : \E e \in Clients, i \in Nat : p = <<e, i>>
    BY <1>1 DEF OpenedOf
  <2>4. ASSUME NEW e \in Clients, NEW i \in Nat
        PROVE  <<e, i>> \in OpenedOf(m)' <=> <<e, i>> \in R
    <3> HIDE DEF k
    <3>1. CASE e = c
      BY <2>2, <3>1
    <3>2. CASE e # c
      BY <2>1, <3>2
    <3> QED BY <3>1, <3>2
  <2> HIDE DEF R
  <2>5. OpenedOf(m)' = R
    BY <2>3, <2>4, SamePlaces
  <2> QED BY <2>5 DEF R
<1> QED BY <1>2, <1>3

-----------------------------------------------------------------------------
(* References *)

\* An object's count changes, and nothing else of the objects.
Recounted(o, k) ==
    /\ objects' \in Seq(ObjectType) /\ DOMAIN objects' = DOMAIN objects
    /\ objects'[o].refs = k
    /\ \A p \in DOMAIN objects : objects'[p].name = objects[p].name
    /\ \A p \in DOMAIN objects \ {o} : objects'[p].refs = objects[p].refs

LEMMA ObjectFacts ==
    ContextShape =>
        /\ objects \in Seq(ObjectType) /\ DOMAIN objects = 1 .. Len(objects) /\ Len(objects) \in Nat
        /\ \A o \in DOMAIN objects : /\ objects[o] \in ObjectType
                                    /\ objects[o].name \in ContextNames /\ objects[o].refs \in Nat
<1> SUFFICES ASSUME ContextShape
             PROVE  /\ objects \in Seq(ObjectType) /\ DOMAIN objects = 1 .. Len(objects)
                    /\ Len(objects) \in Nat
                    /\ \A o \in DOMAIN objects :
                           /\ objects[o] \in ObjectType
                           /\ objects[o].name \in ContextNames /\ objects[o].refs \in Nat
  OBVIOUS
<1>1. objects \in Seq(ObjectType)
  BY DEF ContextShape
<1>2. \A o \in DOMAIN objects : objects[o] \in ObjectType
  BY <1>1
<1> QED BY <1>1, <1>2 DEF ObjectType

LEMMA Recount ==
    ASSUME ContextShape, NEW o \in DOMAIN objects, NEW k \in Nat,
           objects' = [objects EXCEPT ![o].refs = k]
    PROVE  Recounted(o, k)
<1>1. /\ objects \in Seq(ObjectType) /\ DOMAIN objects = 1 .. Len(objects) /\ Len(objects) \in Nat
      /\ \A p \in DOMAIN objects : objects[p] \in ObjectType
  BY ObjectFacts
<1>2. /\ DOMAIN objects' = DOMAIN objects
      /\ objects'[o] = [objects[o] EXCEPT !.refs = k]
      /\ \A p \in DOMAIN objects \ {o} : objects'[p] = objects[p]
  BY <1>1
<1>3. objects'[o].name = objects[o].name /\ objects'[o].refs = k /\ objects'[o] \in ObjectType
  BY <1>1, <1>2 DEF ObjectType
<1>4. objects' \in Seq(ObjectType)
  <2>1. objects' = [objects EXCEPT ![o] = objects'[o]]
    BY <1>1, <1>2
  <2> QED BY <1>1, <1>3, <2>1
<1> QED BY <1>2, <1>3, <1>4 DEF Recounted

LEMMA ObjectsStay ==
    ASSUME ContextInv, NEW o \in DOMAIN objects, NEW k \in Nat, Recounted(o, k),
           UNCHANGED <<contexts, ejected>>
    PROVE  /\ Names /\ ObjectInv'
           /\ \A m \in ContextNames \ ejected :
                  Refs(m)' = IF m = objects[o].name THEN k ELSE Refs(m)
           /\ objects[o].name \notin ejected => Refs(objects[o].name) = objects[o].refs
<1>1. /\ ObjectInv /\ contexts' = contexts /\ ejected' = ejected
      /\ objects \in Seq(ObjectType) /\ DOMAIN objects = 1 .. Len(objects) /\ Len(objects) \in Nat
      /\ objects[o] \in ObjectType /\ objects[o].name \in ContextNames
  BY ObjectFacts DEF ContextInv
<1>2. Names
  BY DEF Names, Recounted
<1>3. ObjectInv'
  BY <1>1 DEF ObjectInv, Recounted
<1>4. objects[o].name \notin ejected =>
          Refs(objects[o].name) = objects[o].refs /\ contexts[objects[o].name] = o
  <2>1. o # NoObject
    BY <1>1 DEF NoObject
  <2> QED BY <1>1, <2>1 DEF ObjectInv, Refs
<1>5. ASSUME NEW m \in ContextNames \ ejected
      PROVE  Refs(m)' = IF m = objects[o].name THEN k ELSE Refs(m)
  <2>1. Refs(m)' = IF contexts[m] = NoObject THEN 0 ELSE objects'[contexts[m]].refs
    BY <1>1 DEF Refs
  <2>2. CASE contexts[m] = NoObject
    BY <1>1, <1>4, <2>1, <2>2 DEF Refs, NoObject
  <2>3. CASE contexts[m] # NoObject
    <3>1. contexts[m] \in DOMAIN objects /\ objects[contexts[m]].name = m
      BY <1>1, <2>3 DEF ObjectInv
    <3>2. CASE m = objects[o].name
      BY <1>4, <2>1, <2>3, <3>2 DEF Recounted
    <3>3. CASE m # objects[o].name
      BY <2>1, <2>3, <3>1, <3>3 DEF Recounted, Refs
    <3> QED BY <3>2, <3>3
  <2> QED BY <2>2, <2>3
<1> QED BY <1>2, <1>3, <1>4, <1>5

\* A reference more, for one place more that it is owed to.
LEMMA Referred ==
    ASSUME ContextInv, NEW o \in DOMAIN objects,
           NEW n, n = objects[o].name, NEW k, k = objects[o].refs, AddRef(o), k = 0 => Opens(o),
           UNCHANGED <<contexts, ejected>>,
           NEW t,
           \/ /\ \A m \in ContextNames : OpenedOf(m)' = OpenedOf(m)
              /\ t \notin HeldOf(n)
              /\ \A m \in ContextNames :
                     HeldOf(m)' = IF m = n THEN HeldOf(m) \cup {t} ELSE HeldOf(m)
           \/ /\ \A m \in ContextNames : HeldOf(m)' = HeldOf(m)
              /\ t \notin OpenedOf(n)
              /\ \A m \in ContextNames :
                     OpenedOf(m)' = IF m = n THEN OpenedOf(m) \cup {t} ELSE OpenedOf(m)
    PROVE  /\ objects' \in Seq(ObjectType) /\ mounted' \subseteq Removable /\ inUse' \subseteq ContextNames
           /\ Names /\ ObjectInv'
           /\ \A m \in ContextNames \ ejected : CountInv(m)'
<1>1. /\ ContextShape /\ n \in ContextNames /\ k \in Nat
      /\ ejected' = ejected /\ contexts' = contexts
  BY ObjectFacts DEF ContextInv
<1>2. objects' = [objects EXCEPT ![o].refs = k + 1]
  BY DEF AddRef
<1>a. k + 1 \in Nat
  BY <1>1
<1>3. Recounted(o, k + 1)
  BY <1>1, <1>2, <1>a, Recount
<1>4. /\ Names /\ ObjectInv'
      /\ \A m \in ContextNames \ ejected : Refs(m)' = IF m = n THEN k + 1 ELSE Refs(m)
      /\ n \notin ejected => Refs(n) = k
  BY <1>1, <1>a, <1>3, ObjectsStay
<1>5. /\ mounted' = IF k = 0 THEN mounted \cup ({n} \cap Removable) ELSE mounted
      /\ inUse' = IF k = 0 THEN inUse \cup {n} ELSE inUse
  BY DEF AddRef, Open
<1>6. mounted' \subseteq Removable /\ inUse' \subseteq ContextNames
  BY <1>1, <1>5 DEF ContextShape
<1>7. ASSUME NEW m \in ContextNames \ ejected, m # n PROVE CountInv(m)'
  <2>1. CountInv(m) /\ Refs(m)' = Refs(m) /\ HeldOf(m)' = HeldOf(m) /\ OpenedOf(m)' = OpenedOf(m)
    BY <1>4, <1>7 DEF ContextInv
  <2>2. (m \in inUse' <=> m \in inUse) /\ (m \in mounted' <=> m \in mounted)
    BY <1>5, <1>7
  <2> QED BY <2>1, <2>2 DEF CountInv, Root
<1>8. ASSUME n \notin ejected PROVE CountInv(n)'
  <2>1. CountInv(n) /\ Refs(n) = k /\ Refs(n)' = k + 1
    BY <1>1, <1>4, <1>8 DEF ContextInv
  <2>2. n \in inUse' /\ Root(n)'[2]
    <3>1. CASE k = 0
      BY <1>5, <3>1 DEF Root
    <3>2. CASE k > 0
      BY <1>5, <2>1, <3>2 DEF CountInv, Root
    <3> QED BY <1>1, <3>1, <3>2
  <2>3. /\ IsFiniteSet(HeldOf(n)) /\ IsFiniteSet(OpenedOf(n))
        /\ Cardinality(HeldOf(n)) \in Nat /\ Cardinality(OpenedOf(n)) \in Nat
        /\ Cardinality(HeldOf(n)) + Cardinality(OpenedOf(n)) <= k
    BY <2>1, FS_CardinalityType DEF CountInv
  <2>4. /\ IsFiniteSet(HeldOf(n)') /\ IsFiniteSet(OpenedOf(n)')
        /\ Cardinality(HeldOf(n)') + Cardinality(OpenedOf(n)') <= k + 1
    <3>1. CASE OpenedOf(n)' = OpenedOf(n) /\ t \notin HeldOf(n) /\ HeldOf(n)' = HeldOf(n) \cup {t}
      <4>1. /\ IsFiniteSet(HeldOf(n) \cup {t})
            /\ Cardinality(HeldOf(n) \cup {t}) = Cardinality(HeldOf(n)) + 1
        BY <2>3, <3>1, FS_AddElement
      <4> QED BY <1>1, <2>3, <3>1, <4>1
    <3>2. CASE HeldOf(n)' = HeldOf(n) /\ t \notin OpenedOf(n) /\ OpenedOf(n)' = OpenedOf(n) \cup {t}
      <4>1. /\ IsFiniteSet(OpenedOf(n) \cup {t})
            /\ Cardinality(OpenedOf(n) \cup {t}) = Cardinality(OpenedOf(n)) + 1
        BY <2>3, <3>2, FS_AddElement
      <4> QED BY <1>1, <2>3, <3>2, <4>1
    <3> QED BY <1>1, <3>1, <3>2
  <2> QED BY <1>1, <2>1, <2>2, <2>4 DEF CountInv
<1> QED BY <1>3, <1>4, <1>6, <1>7, <1>8 DEF Recounted

\* A reference less, for one place less that it is owed to.
LEMMA Dereferred ==
    ASSUME ContextInv, NEW o \in DOMAIN objects,
           NEW n, n = objects[o].name, NEW k, k = objects[o].refs, DelRef(o), UNCHANGED <<contexts, ejected>>,
           NEW t,
           \/ /\ \A m \in ContextNames : OpenedOf(m)' = OpenedOf(m)
              /\ t \in HeldOf(n)
              /\ \A m \in ContextNames :
                     HeldOf(m)' = IF m = n THEN HeldOf(m) \ {t} ELSE HeldOf(m)
           \/ /\ \A m \in ContextNames : HeldOf(m)' = HeldOf(m)
              /\ t \in OpenedOf(n)
              /\ \A m \in ContextNames :
                     OpenedOf(m)' = IF m = n THEN OpenedOf(m) \ {t} ELSE OpenedOf(m)
    PROVE  /\ objects' \in Seq(ObjectType) /\ mounted' \subseteq Removable /\ inUse' \subseteq ContextNames
           /\ Names /\ ObjectInv'
           /\ \A m \in ContextNames \ ejected : CountInv(m)'
<1> DEFINE l == IF k = 0 THEN 0 ELSE k - 1
<1>1. /\ ContextShape /\ n \in ContextNames /\ k \in Nat
      /\ ejected' = ejected /\ contexts' = contexts
  BY ObjectFacts DEF ContextInv
<1>2. l \in Nat
  BY <1>1
<1>3. Recounted(o, l)
  <2>1. CASE k = 0
    BY <1>1, <2>1 DEF DelRef, Recounted, ContextShape
  <2>2. CASE k # 0
    <3>1. objects' = [objects EXCEPT ![o].refs = l]
      BY <1>1, <2>2 DEF DelRef, ContextShape
    <3> QED BY <1>1, <1>2, <3>1, Recount
  <2> QED BY <2>1, <2>2
<1>4. /\ Names /\ ObjectInv'
      /\ \A m \in ContextNames \ ejected : Refs(m)' = IF m = n THEN l ELSE Refs(m)
      /\ n \notin ejected => Refs(n) = k
  BY <1>1, <1>2, <1>3, ObjectsStay
<1>5. /\ mounted' \in {mounted, mounted \ {n}}
      /\ k # 1 => mounted' = mounted
      /\ inUse' = IF k = 1 THEN inUse \ {n} ELSE inUse
  BY DEF DelRef, Close
<1>6. mounted' \subseteq Removable /\ inUse' \subseteq ContextNames
  BY <1>1, <1>5 DEF ContextShape
<1>7. ASSUME NEW m \in ContextNames \ ejected, m # n PROVE CountInv(m)'
  <2>1. CountInv(m) /\ Refs(m)' = Refs(m) /\ HeldOf(m)' = HeldOf(m) /\ OpenedOf(m)' = OpenedOf(m)
    BY <1>4, <1>7 DEF ContextInv
  <2>2. (m \in inUse' <=> m \in inUse) /\ (m \in mounted' <=> m \in mounted)
    BY <1>5, <1>7
  <2> QED BY <2>1, <2>2 DEF CountInv, Root
<1>8. ASSUME n \notin ejected PROVE CountInv(n)'
  <2>1. CountInv(n) /\ Refs(n) = k /\ Refs(n)' = l
    BY <1>1, <1>4, <1>8 DEF ContextInv
  <2>2. /\ IsFiniteSet(HeldOf(n)) /\ IsFiniteSet(OpenedOf(n))
        /\ Cardinality(HeldOf(n)) \in Nat /\ Cardinality(OpenedOf(n)) \in Nat
        /\ Cardinality(HeldOf(n)) + Cardinality(OpenedOf(n)) <= k
    BY <2>1, FS_CardinalityType DEF CountInv
  <2>3. /\ IsFiniteSet(HeldOf(n)') /\ IsFiniteSet(OpenedOf(n)')
        /\ Cardinality(HeldOf(n)') + Cardinality(OpenedOf(n)') =
               Cardinality(HeldOf(n)) + Cardinality(OpenedOf(n)) - 1
    BY <1>1, <2>2, FS_RemoveElement
  <2>4. Cardinality(HeldOf(n)') \in Nat /\ Cardinality(OpenedOf(n)') \in Nat
    BY <2>3, FS_CardinalityType
  <2>5. k > 0 /\ l = k - 1
    BY <1>1, <2>2, <2>3, <2>4
  <2>6. (n \in inUse' <=> l > 0) /\ (l > 0 => Root(n)'[2])
    BY <1>1, <1>5, <2>1, <2>5 DEF CountInv, Root
  <2> QED BY <1>1, <2>1, <2>2, <2>3, <2>5, <2>6 DEF CountInv
<1> QED BY <1>3, <1>4, <1>6, <1>7, <1>8 DEF Recounted

-----------------------------------------------------------------------------
(* Steps *)

\* All that is asked of the others' calls, and of the counts, follows from the names.
LEMMA Stepped ==
    ASSUME ContextInv, NEW c \in Clients, NEW call, Becomes(c, call), CallInv(call)',
           objects' \in Seq(ObjectType), mounted' \subseteq Removable, inUse' \subseteq ContextNames,
           UNCHANGED <<contexts, ejected>>, Names, ObjectInv',
           \A m \in ContextNames \ ejected : CountInv(m)'
    PROVE  ContextInv'
<1>1. ContextShape'
  BY DEF ContextShape, ContextInv, Becomes
<1>2. ASSUME NEW e \in Clients PROVE CallInv(vfsCalls[e])'
  <2>1. CASE e = c
    BY <2>1 DEF Becomes
  <2>2. CASE e # c
    <3>1. CallInv(vfsCalls[e]) /\ Alike(vfsCalls'[e], vfsCalls[e])
      BY <2>2 DEF ContextInv, Becomes
    <3> QED BY <3>1, CallStays
  <2> QED BY <2>1, <2>2
<1> QED BY <1>1, <1>2 DEF ContextInv

\* Steps that touch no context and give nothing back.
LEMMA Quiet ==
    ASSUME ContextInv, NEW c \in Clients, NEW call, Set(c, call) \/ SetDisturbing(c, call),
           UNCHANGED contextVars, CallInv(call),
           call.held = vfsCalls[c].held, call.opened = vfsCalls[c].opened
    PROVE  ContextInv'
<1>1. Becomes(c, call)
  BY Setting
<1>2. UNCHANGED <<contexts, objects, inUse, mounted, ejected>>
  BY DEF contextVars
<1>3. CallInv(call)' /\ Names /\ ObjectInv'
  BY <1>2 DEF CallInv, Names, ObjectInv, ContextInv
<1>4. DOMAIN vfsCalls' = Clients /\ \A e \in Clients : /\ vfsCalls'[e].held = vfsCalls[e].held
                                                       /\ vfsCalls'[e].opened = vfsCalls[e].opened
  BY <1>1 DEF Becomes, Alike
<1>5. \A m \in ContextNames : HeldOf(m)' = HeldOf(m) /\ OpenedOf(m)' = OpenedOf(m)
  BY <1>3, <1>4, HeldSame, OpenedSame
<1>6. \A m \in ContextNames \ ejected : CountInv(m)'
  <2> SUFFICES ASSUME NEW m \in ContextNames \ ejected PROVE CountInv(m)'
    OBVIOUS
  <2>1. Refs(m)' = Refs(m) /\ Root(m)' = Root(m) /\ HeldOf(m)' = HeldOf(m) /\ OpenedOf(m)' = OpenedOf(m)
    BY <1>2, <1>5 DEF Refs, Root
  <2> QED BY <1>2, <2>1 DEF CountInv, ContextInv
<1>7. objects' \in Seq(ObjectType) /\ mounted' \subseteq Removable /\ inUse' \subseteq ContextNames
  BY <1>2 DEF ContextInv, ContextShape
<1> QED BY <1>1, <1>2, <1>3, <1>6, <1>7, Stepped

\* The fields of a call that a step changes, where it takes no context.
LEMMA Working ==
    ASSUME ContextInv, NEW c \in Clients, NEW call, Set(c, call) \/ SetDisturbing(c, call),
           UNCHANGED contextVars, DOMAIN call = Fields, call.pc \notin {"idle", "lookup", "take"},
           call.held = vfsCalls[c].held, call.opened = vfsCalls[c].opened
    PROVE  ContextInv'
<1>1. CallInv(call)
  BY DEF ContextInv, CallInv
<1> QED BY <1>1, Quiet

LEMMA Outcomes ==
    ASSUME NEW call, DOMAIN call = Fields, call.pc = "work"
    PROVE  /\ \A x \in {Progress(call), Failed(call), [call EXCEPT !.pc = "release"]} :
                  /\ DOMAIN x = Fields /\ x.pc \notin {"idle", "lookup", "take"}
                  /\ x.held = call.held /\ x.opened = call.opened
  BY DEF Progress, Failed, Fields

LEMMA CopyInv == ASSUME ContextInv, NEW c \in Clients, CopySource(c) PROVE ContextInv'
<1> DEFINE call == vfsCalls[c]
<1>1. DOMAIN call = Fields /\ call.pc = "work"
  BY DEF ContextInv, CallInv, CopySource
<1>2. PICK x \in {Progress(call), Failed(call)} : SetDisturbing(c, x) /\ UNCHANGED contextVars
  BY DEF CopySource
<1> QED BY <1>1, <1>2, Outcomes, Working

LEMMA MoveInv == ASSUME ContextInv, NEW c \in Clients, MoveSource(c) PROVE ContextInv'
<1> DEFINE call == vfsCalls[c]
<1>1. DOMAIN call = Fields /\ call.pc = "work"
  BY DEF ContextInv, CallInv, MoveSource
<1>2. PICK x \in {Progress(call), Failed(call)} : SetDisturbing(c, x) /\ UNCHANGED contextVars
  BY DEF MoveSource
<1> QED BY <1>1, <1>2, Outcomes, Working

LEMMA RemoveInv == ASSUME ContextInv, NEW c \in Clients, RemoveSource(c) PROVE ContextInv'
<1> DEFINE call == vfsCalls[c]
<1>1. DOMAIN call = Fields /\ call.pc = "work"
  BY DEF ContextInv, CallInv, RemoveSource
<1>2. PICK x \in {Progress(call), Failed(call)} : SetDisturbing(c, x) /\ UNCHANGED contextVars
  BY DEF RemoveSource
<1> QED BY <1>1, <1>2, Outcomes, Working

LEMMA MakeFolderInv == ASSUME ContextInv, NEW c \in Clients, MakeFolder(c) PROVE ContextInv'
<1> DEFINE call == vfsCalls[c]
<1>1. DOMAIN call = Fields /\ call.pc = "work"
  BY DEF ContextInv, CallInv, MakeFolder
<1>2. PICK x \in {[call EXCEPT !.pc = "release"], Failed(call)} :
          SetDisturbing(c, x) /\ UNCHANGED contextVars
  BY DEF MakeFolder
<1>3. /\ DOMAIN x = Fields /\ x.pc \notin {"idle", "lookup", "take"}
      /\ x.held = call.held /\ x.opened = call.opened
  <2> HIDE DEF call
  <2> QED BY <1>1, <1>2, Outcomes
<1> QED BY <1>2, <1>3, Working

LEMMA QueryInv == ASSUME ContextInv, NEW c \in Clients, Query(c) PROVE ContextInv'
<1> DEFINE call == vfsCalls[c]
           r == call.request
           t == trees[TargetRoot(r)]
           p == Target(r)
           entries == CASE r.rpc = "GetDirectory" -> Below(t, p) \ {p}
                        [] r.rpc = "Locate" -> {q \in Below(t, p) : q # p /\ Last(q) = call.call.mask}
                        [] OTHER -> {}
           ok == CASE r.rpc \in {"GetDirectory", "Locate"} -> IsFolder(t, p)
                   [] r.rpc = "GetVolumeInfo" -> p \in DOMAIN t
                   [] OTHER -> TRUE
           outcome == IF ok /\ ~Returns(call.call, entries) THEN "raised" ELSE ""
           x == [call EXCEPT !.pc = "release", !.ok = ok, !.result = outcome]
<1>1. DOMAIN call = Fields /\ call.pc = "work"
  BY DEF ContextInv, CallInv, Query
<1>2. Set(c, x) /\ UNCHANGED contextVars
  BY DEF Query
<1> HIDE DEF ok, outcome
<1>3. /\ DOMAIN x = Fields /\ x.pc \notin {"idle", "lookup", "take"}
      /\ x.held = call.held /\ x.opened = call.opened
  BY <1>1 DEF Fields
<1> HIDE DEF x
<1> QED BY <1>2, <1>3, Working

LEMMA OpenFileInv == ASSUME ContextInv, NEW c \in Clients, OpenFile(c) PROVE ContextInv'
<1> DEFINE call == vfsCalls[c]
           r == call.request
           root == TargetRoot(r)
           t == trees[root]
           number == IF IsFile(t, Target(r)) THEN t[Target(r)] ELSE Len(files) + 1
           opened == [call EXCEPT !.pc = "stream", !.root = root]
           filed == [opened EXCEPT !.file = number]
<1>1. DOMAIN call = Fields /\ call.pc = "work"
  BY DEF ContextInv, CallInv, OpenFile
<1>2. PICK x \in {Failed(call), opened, filed} : /\ Set(c, x) \/ SetDisturbing(c, x)
                                                 /\ UNCHANGED contextVars
  BY DEF OpenFile
<1> HIDE DEF root, number
<1>3. \A y \in {opened, filed} : /\ DOMAIN y = Fields /\ y.pc \notin {"idle", "lookup", "take"}
                                 /\ y.held = call.held /\ y.opened = call.opened
  BY <1>1 DEF Fields
<1> HIDE DEF opened, filed
<1> QED BY <1>1, <1>2, <1>3, Outcomes, Working

LEMMA ChunkInv == ASSUME ContextInv, NEW c \in Clients, Chunk(c) PROVE ContextInv'
<1> DEFINE call == vfsCalls[c]
           passed == [call EXCEPT !.chunks = Append(@, files[call.file][call.next]), !.next = @ + 1]
           finished == [call EXCEPT !.pc = "release", !.chunks = Kept(call.call, @)]
           sent == [call EXCEPT !.next = @ + 1]
           written == [call EXCEPT !.pc = "release"]
<1>1. DOMAIN call = Fields /\ call.pc = "stream"
  BY DEF ContextInv, CallInv, Chunk
<1>2. PICK x \in {passed, finished, sent, written} : /\ Set(c, x) \/ SetDisturbing(c, x)
                                                     /\ UNCHANGED contextVars
  BY DEF Chunk, contextVars
<1>3. \A y \in {passed, finished, sent, written} :
          /\ DOMAIN y = Fields /\ y.pc \notin {"idle", "lookup", "take"}
          /\ y.held = call.held /\ y.opened = call.opened
  BY <1>1 DEF Fields
<1> HIDE DEF passed, finished, sent, written
<1> QED BY <1>2, <1>3, Working

LEMMA ReturnInv == ASSUME ContextInv, NEW c \in Clients, ReturnReply(c) PROVE ContextInv'
<1> DEFINE call == vfsCalls[c]
           x == [Idle EXCEPT !.opened = call.opened, !.count = call.count]
<1>1. CallInv(call) /\ Set(c, x) /\ call.held = <<>> /\ UNCHANGED contextVars
  BY DEF ReturnReply, ContextInv
<1>2. DOMAIN x = Fields /\ x.pc = "idle" /\ x.held = <<>> /\ x.opened = call.opened
  BY DEF Idle, Fields
<1> HIDE DEF x
<1>3. CallInv(x)
  BY <1>1, <1>2 DEF CallInv
<1> QED BY <1>1, <1>2, <1>3, Quiet

LEMMA BeginInv == ASSUME ContextInv, NEW c \in Clients, NEW a \in Calls[c], Begin(c, a) PROVE ContextInv'
<1> DEFINE call == vfsCalls[c]
           idle == [Idle EXCEPT !.opened = call.opened, !.count = call.count + 1, !.call = a]
           raised == [idle EXCEPT !.result = "raised"]
<1>1. CallInv(call) /\ UNCHANGED contextVars /\ call.held = <<>>
  BY DEF ContextInv, Begin, CallInv
<1>2. /\ DOMAIN idle = Fields /\ idle.pc = "idle" /\ idle.held = <<>> /\ idle.opened = call.opened
      /\ DOMAIN raised = Fields /\ raised.pc = "idle" /\ raised.held = <<>> /\ raised.opened = call.opened
  BY DEF Idle, Fields
<1>3. CASE Set(c, raised)
  <2> HIDE DEF raised
  <2>1. CallInv(raised)
    BY <1>1, <1>2 DEF CallInv
  <2> QED BY <1>1, <1>2, <1>3, <2>1, Quiet
<1>4. CASE Requests(a) # {}
  <2>1. PICK r \in Requests(a) :
            /\ r.rpc = "CloseContext" => call.opened[Head(Locations(r)).name] > 0
            /\ Set(c, [idle EXCEPT !.request = r, !.ok = ~Refused(r),
                !.pc = IF Refused(r) \/ Locations(r) = <<>> \/ r.rpc \in Contextless \/ (r.rpc = "WriteFile" /\ UploadIterator(a) = <<>>)
                       THEN "release" ELSE "lookup",
                !.todo = Locations(r)])
    BY <1>4 DEF Begin
  <2> DEFINE ok == ~Refused(r)
             pc == IF Refused(r) \/ Locations(r) = <<>> \/ r.rpc \in Contextless \/ (r.rpc = "WriteFile" /\ UploadIterator(a) = <<>>)
                   THEN "release" ELSE "lookup"
             todo == Locations(r)
             x == [idle EXCEPT !.request = r, !.ok = ok, !.pc = pc, !.todo = todo]
  <2>2. Set(c, x) /\ (r.rpc = "CloseContext" => call.opened[Head(todo).name] > 0)
    BY <2>1
  <2>3. todo \in Seq(LocationType)
    BY CallsAssumption DEF CallsAssumption, LocationType
  <2>4. pc = "release" \/ (pc = "lookup" /\ todo # <<>>)
    OBVIOUS
  <2> HIDE DEF idle, ok, pc, todo
  <2>5. /\ DOMAIN x = Fields /\ x.pc = pc /\ x.todo = todo /\ x.request = r
        /\ x.held = <<>> /\ x.opened = call.opened
    BY <1>2 DEF Fields
  <2> HIDE DEF x
  <2>6. todo # <<>> => Head(todo) = todo[1]
    BY <2>3
  <2>7. CallInv(x)
    BY <1>1, <2>2, <2>3, <2>4, <2>5, <2>6 DEF CallInv
  <2> QED BY <1>1, <2>2, <2>5, <2>7, Quiet
<1>5. Requests(a) = {} => Set(c, raised)
  BY DEF Begin
<1> QED BY <1>3, <1>4, <1>5

LEMMA LookupInv == ASSUME ContextInv, NEW c \in Clients, Lookup(c) PROVE ContextInv'
<1> DEFINE call == vfsCalls[c]
           n == call.todo[1].name
           found == [call EXCEPT !.pc = "take", !.taking = contexts[n]]
           missed == [call EXCEPT !.pc = "release", !.ok = call.request.rpc = "CloseContext"]
<1>1. /\ CallInv(call) /\ UNCHANGED contextVars /\ call.pc = "lookup" /\ DOMAIN call = Fields
      /\ call.todo \in Seq(LocationType) /\ call.todo # <<>>
  BY DEF ContextInv, Lookup, CallInv
<1>2. Head(call.todo) = call.todo[1] /\ n \in ContextNames
  <2>1. call.todo[1] \in LocationType
    BY <1>1, EmptySeq
  <2> QED BY <1>1, <2>1 DEF LocationType
<1>3. \/ contexts[n] # NoObject /\ Set(c, found)
      \/ Set(c, missed)
  BY <1>2 DEF Lookup
<1>4. CASE contexts[n] # NoObject /\ Set(c, found)
  <2>1. contexts[n] \in DOMAIN objects /\ objects[contexts[n]].name = n
    BY <1>2, <1>4 DEF ContextInv, ObjectInv
  <2>2. /\ DOMAIN found = Fields /\ found.pc = "take" /\ found.taking = contexts[n]
        /\ found.todo = call.todo /\ found.request = call.request
        /\ found.held = call.held /\ found.opened = call.opened
    BY <1>1 DEF Fields
  <2> HIDE DEF found
  <2>3. CallInv(found)
    BY <1>1, <2>1, <2>2 DEF CallInv
  <2> QED BY <1>1, <1>4, <2>2, <2>3, Quiet
<1>5. CASE Set(c, missed)
  <2>1. /\ DOMAIN missed = Fields /\ missed.pc \notin {"idle", "lookup", "take"}
        /\ missed.held = call.held /\ missed.opened = call.opened
    BY <1>1 DEF Fields
  <2> HIDE DEF missed
  <2> QED BY <1>1, <1>5, <2>1, Working
<1> QED BY <1>3, <1>4, <1>5

\* References come and go, objects and names stay.
LEMMA NamesKept ==
    ASSUME ContextShape, NEW o \in DOMAIN objects, AddRef(o) \/ DelRef(o)
    PROVE  Names
<1> DEFINE k == objects[o].refs
<1>1. k \in Nat
  BY ObjectFacts
<1>2. \/ objects' = objects
      \/ objects' = [objects EXCEPT ![o].refs = k + 1]
      \/ k # 0 /\ objects' = [objects EXCEPT ![o].refs = k - 1]
  BY DEF AddRef, DelRef
<1>3. k + 1 \in Nat /\ (k # 0 => k - 1 \in Nat)
  BY <1>1
<1> HIDE DEF k
<1>4. ASSUME NEW l \in Nat, objects' = [objects EXCEPT ![o].refs = l] PROVE Names
  BY <1>4, Recount DEF Recounted, Names
<1> QED BY <1>2, <1>3, <1>4 DEF Names

\* A call that does not take a context next.
LEMMA Settled ==
    ASSUME NEW x, Names, DOMAIN x = Fields, x.pc \notin {"idle", "lookup", "take"},
           x.held \in Seq(DOMAIN objects), x.opened \in [ContextNames -> Nat]
    PROVE  CallInv(x)'
<1>1. x.held \in Seq(DOMAIN objects')
  BY DEF Names
<1> QED BY <1>1 DEF CallInv

LEMMA ReleaseInv == ASSUME ContextInv, NEW c \in Clients, Release(c) PROVE ContextInv'
<1> DEFINE call == vfsCalls[c]
           o == Last(call.held)
           t == <<c, Len(call.held)>>
<1>0. PICK x : x = [call EXCEPT !.held = Front(@)]
  OBVIOUS
<1>1. /\ CallInv(call) /\ call.pc = "release" /\ call.held # <<>> /\ DOMAIN call = Fields
      /\ call.held \in Seq(DOMAIN objects)
      /\ UNCHANGED <<contexts, ejected>> /\ DelRef(o) /\ SetDisturbing(c, x)
      /\ ContextShape
  BY <1>0 DEF ContextInv, Release, CallInv
<1>2. o \in DOMAIN objects /\ Front(call.held) \in Seq(DOMAIN objects)
  <2>1. call.held \in Seq(DOMAIN objects) /\ call.held # <<>>
    BY <1>1
  <2> HIDE DEF call
  <2>2. Len(call.held) \in Nat \ {0} /\ DOMAIN call.held = 1 .. Len(call.held)
    BY <2>1, EmptySeq
  <2>3. \A i \in 1 .. Len(call.held) : call.held[i] \in DOMAIN objects
    BY <2>1
  <2>4. SubSeq(call.held, 1, Len(call.held) - 1) = [i \in 1 .. Len(call.held) - 1 |-> call.held[i]]
    BY <2>1, <2>2, SubSeqProperties
  <2>5. [i \in 1 .. Len(call.held) - 1 |-> call.held[i]] \in Seq(DOMAIN objects)
    BY <2>2, <2>3
  <2> QED BY <2>2, <2>3, <2>4, <2>5 DEF Front, Last
<1>3. /\ DOMAIN x = Fields /\ x.pc = "release" /\ x.held = Front(call.held)
      /\ x.opened = call.opened
  BY <1>0, <1>1 DEF Fields
<1>4. Becomes(c, x)
  BY <1>1, Setting
<1>5. /\ vfsCalls'[c].held = Front(call.held) /\ vfsCalls'[c].opened = call.opened
      /\ DOMAIN vfsCalls' = Clients
      /\ \A e \in Clients \ {c} : /\ vfsCalls'[e].held = vfsCalls[e].held
                                  /\ vfsCalls'[e].opened = vfsCalls[e].opened
  BY <1>3, <1>4 DEF Becomes, Alike
<1>6. Names
  BY <1>1, <1>2, NamesKept
<1>7. CallInv(x)'
  BY <1>1, <1>2, <1>3, <1>6, Settled DEF CallInv
<1>8. \A m : OpenedOf(m)' = OpenedOf(m)
  <2>1. \A e \in Clients : vfsCalls'[e].opened = vfsCalls[e].opened
    BY <1>5
  <2> QED BY <1>5, <2>1, OpenedSame
<1> DEFINE n == objects[o].name
<1>9. /\ t \in HeldOf(n)
      /\ \A m : HeldOf(m)' = IF m = n THEN HeldOf(m) \ {t} ELSE HeldOf(m)
  BY <1>1, <1>5, <1>6, HeldLess
<1> DEFINE k == objects[o].refs
<1> HIDE DEF o, n, t, k
<1>a. /\ objects' \in Seq(ObjectType) /\ mounted' \subseteq Removable /\ inUse' \subseteq ContextNames
      /\ Names /\ ObjectInv'
      /\ \A m \in ContextNames \ ejected : CountInv(m)'
  <2>1. n = objects[o].name /\ k = objects[o].refs
    BY DEF n, k
  <2> QED BY <1>1, <1>2, <1>8, <1>9, <2>1, Dereferred
<1> QED BY <1>1, <1>4, <1>7, <1>a, Stepped

LEMMA TakeInv == ASSUME ContextInv, NEW c \in Clients, Take(c) PROVE ContextInv'
<1> DEFINE call == vfsCalls[c]
           o == call.taking
           n == objects[o].name
           k == objects[o].refs
           rpc == call.request.rpc
           pc == IF Len(call.todo) = 1 THEN "work" ELSE "lookup"
<1>0. PICK closed, opened, taken :
          /\ closed = [call EXCEPT !.pc = "release", !.opened[n] = @ - 1]
          /\ opened = [call EXCEPT !.pc = "release", !.opened[n] = @ + 1]
          /\ taken = [call EXCEPT !.held = Append(@, o), !.todo = Tail(@), !.pc = pc]
  OBVIOUS
<1>1. /\ CallInv(call) /\ call.pc = "take" /\ DOMAIN call = Fields
      /\ call.held \in Seq(DOMAIN objects) /\ call.opened \in [ContextNames -> Nat]
      /\ call.todo \in Seq(LocationType) /\ call.todo # <<>>
      /\ o \in DOMAIN objects /\ n = call.todo[1].name
      /\ rpc = "CloseContext" => call.opened[n] > 0
      /\ UNCHANGED <<contexts, ejected>>
      /\ ContextShape
  BY DEF ContextInv, Take, CallInv
<1>2. n \in ContextNames /\ k \in Nat
  BY <1>1, ObjectFacts
<1>3. \/ rpc = "CloseContext" /\ DelRef(o) /\ SetDisturbing(c, closed)
      \/ rpc = "OpenContext" /\ (k = 0 => Opens(o)) /\ AddRef(o) /\ SetDisturbing(c, opened)
      \/ /\ rpc \notin {"OpenContext", "CloseContext"} /\ (k = 0 => Opens(o)) /\ AddRef(o)
         /\ SetDisturbing(c, taken)
      \/ Set(c, Failed(call)) /\ UNCHANGED <<objects, mounted, inUse>>
  BY <1>0 DEF Take
<1>4. CASE rpc = "CloseContext" /\ DelRef(o) /\ SetDisturbing(c, closed)
  <2>1. /\ DOMAIN closed = Fields /\ closed.pc = "release" /\ closed.held = call.held
        /\ closed.opened = [call.opened EXCEPT ![n] = @ - 1]
    BY <1>0, <1>1 DEF Fields
  <2>2. Becomes(c, closed)
    BY <1>4, Setting
  <2> DEFINE t == <<c, call.opened[n]>>
  <2>3. /\ vfsCalls'[c].held = call.held /\ vfsCalls'[c].opened = [call.opened EXCEPT ![n] = @ - 1]
        /\ DOMAIN vfsCalls' = Clients
        /\ \A e \in Clients \ {c} : /\ vfsCalls'[e].held = vfsCalls[e].held
                                    /\ vfsCalls'[e].opened = vfsCalls[e].opened
    BY <2>1, <2>2 DEF Becomes, Alike
  <2>4. Names
    BY <1>1, <1>4, NamesKept
  <2>5. closed.opened \in [ContextNames -> Nat]
    <3>1. call.opened[n] - 1 \in Nat
      BY <1>1, <1>2, <1>4
    <3> QED BY <1>1, <2>1, <3>1
  <2>6. CallInv(closed)'
    BY <1>1, <2>1, <2>4, <2>5, Settled
  <2>7. \A m : HeldOf(m)' = HeldOf(m)
    <3>1. \A e \in Clients : vfsCalls'[e].held = vfsCalls[e].held
      BY <2>3
    <3> QED BY <2>3, <2>4, <3>1, HeldSame
  <2>8. /\ t \in OpenedOf(n)
        /\ \A m \in ContextNames : OpenedOf(m)' = IF m = n THEN OpenedOf(m) \ {t} ELSE OpenedOf(m)
    BY <1>1, <1>2, <1>4, <2>3, OpenedLess, ZenonT(30)
  <2>9. n = objects[o].name /\ k = objects[o].refs
    OBVIOUS
  <2> HIDE DEF o, n, t, k
  <2>a. /\ objects' \in Seq(ObjectType) /\ mounted' \subseteq Removable /\ inUse' \subseteq ContextNames
        /\ Names /\ ObjectInv'
        /\ \A m \in ContextNames \ ejected : CountInv(m)'
    BY <1>1, <1>4, <2>7, <2>8, <2>9, Dereferred
  <2> QED BY <1>1, <2>2, <2>6, <2>a, Stepped
<1>5. CASE rpc = "OpenContext" /\ (k = 0 => Opens(o)) /\ AddRef(o) /\ SetDisturbing(c, opened)
  <2>1. /\ DOMAIN opened = Fields /\ opened.pc = "release" /\ opened.held = call.held
        /\ opened.opened = [call.opened EXCEPT ![n] = @ + 1]
    BY <1>0, <1>1 DEF Fields
  <2>2. Becomes(c, opened)
    BY <1>5, Setting
  <2> DEFINE t == <<c, call.opened[n] + 1>>
  <2>3. /\ vfsCalls'[c].held = call.held /\ vfsCalls'[c].opened = [call.opened EXCEPT ![n] = @ + 1]
        /\ DOMAIN vfsCalls' = Clients
        /\ \A e \in Clients \ {c} : /\ vfsCalls'[e].held = vfsCalls[e].held
                                    /\ vfsCalls'[e].opened = vfsCalls[e].opened
    BY <2>1, <2>2 DEF Becomes, Alike
  <2>4. Names
    BY <1>1, <1>5, NamesKept
  <2>5. opened.opened \in [ContextNames -> Nat]
    <3>1. call.opened[n] + 1 \in Nat
      BY <1>1, <1>2
    <3> QED BY <1>1, <2>1, <3>1
  <2>6. CallInv(opened)'
    BY <1>1, <2>1, <2>4, <2>5, Settled
  <2>7. \A m : HeldOf(m)' = HeldOf(m)
    <3>1. \A e \in Clients : vfsCalls'[e].held = vfsCalls[e].held
      BY <2>3
    <3> QED BY <2>3, <2>4, <3>1, HeldSame
  <2>8. /\ t \notin OpenedOf(n)
        /\ \A m \in ContextNames : OpenedOf(m)' = IF m = n THEN OpenedOf(m) \cup {t} ELSE OpenedOf(m)
    <3>1. /\ n \in ContextNames
          /\ vfsCalls'[c].opened = [vfsCalls[c].opened EXCEPT ![n] = @ + 1]
          /\ DOMAIN vfsCalls' = Clients
          /\ \A e \in Clients \ {c} : vfsCalls'[e].opened = vfsCalls[e].opened
      BY <1>2, <2>3
    <3> HIDE DEF n, o, k, rpc
    <3> QED BY <3>1, OpenedMore
  <2>9. n = objects[o].name /\ k = objects[o].refs
    OBVIOUS
  <2> HIDE DEF o, n, t, k
  <2>a. /\ objects' \in Seq(ObjectType) /\ mounted' \subseteq Removable /\ inUse' \subseteq ContextNames
        /\ Names /\ ObjectInv'
        /\ \A m \in ContextNames \ ejected : CountInv(m)'
    BY <1>1, <1>5, <2>7, <2>8, <2>9, Referred
  <2> QED BY <1>1, <2>2, <2>6, <2>a, Stepped
<1>6. CASE /\ rpc \notin {"OpenContext", "CloseContext"} /\ (k = 0 => Opens(o)) /\ AddRef(o)
           /\ SetDisturbing(c, taken)
  <2>1. /\ DOMAIN taken = Fields /\ taken.pc = pc /\ taken.held = Append(call.held, o)
        /\ taken.todo = Tail(call.todo) /\ taken.request = call.request
        /\ taken.opened = call.opened
    <3> HIDE DEF pc
    <3> QED BY <1>0, <1>1 DEF Fields
  <2>2. Becomes(c, taken)
    BY <1>6, Setting
  <2> DEFINE t == <<c, Len(call.held) + 1>>
  <2>3. /\ vfsCalls'[c].held = Append(call.held, o) /\ vfsCalls'[c].opened = call.opened
        /\ DOMAIN vfsCalls' = Clients
        /\ \A e \in Clients \ {c} : /\ vfsCalls'[e].held = vfsCalls[e].held
                                    /\ vfsCalls'[e].opened = vfsCalls[e].opened
    BY <2>1, <2>2 DEF Becomes, Alike
  <2>4. Names
    BY <1>1, <1>6, NamesKept
  <2>5. taken.held \in Seq(DOMAIN objects')
    BY <1>1, <2>1, <2>4 DEF Names
  <2>6. CallInv(taken)'
    <3>1. pc # "work" => pc = "lookup" /\ Tail(call.todo) \in Seq(LocationType) /\ Tail(call.todo) # <<>>
      <4> DEFINE todo == call.todo
      <4>1. todo \in Seq(LocationType) /\ todo # <<>>
        BY <1>1
      <4> HIDE DEF todo
      <4>2. Len(todo) \in Nat \ {0} /\ Tail(todo) \in Seq(LocationType) /\ Len(Tail(todo)) = Len(todo) - 1
        BY <4>1, EmptySeq
      <4>3. Len(todo) # 1 => Tail(todo) # <<>>
        BY <4>2, EmptySeq
      <4> QED BY <4>2, <4>3 DEF todo
    <3>2. pc \in {"work", "lookup"}
      OBVIOUS
    <3> HIDE DEF pc, o
    <3> QED BY <1>1, <1>6, <2>1, <2>5, <3>1, <3>2 DEF CallInv
  <2>7. \A m : OpenedOf(m)' = OpenedOf(m)
    <3>1. \A e \in Clients : vfsCalls'[e].opened = vfsCalls[e].opened
      BY <2>3
    <3> QED BY <2>3, <3>1, OpenedSame
  <2>8. /\ \A m : t \notin HeldOf(m)
        /\ \A m : HeldOf(m)' = IF m = n THEN HeldOf(m) \cup {t} ELSE HeldOf(m)
    BY <1>1, <2>3, <2>4, HeldMore, ZenonT(30)
  <2>9. n = objects[o].name /\ k = objects[o].refs
    OBVIOUS
  <2> HIDE DEF o, n, t, k
  <2>a. /\ objects' \in Seq(ObjectType) /\ mounted' \subseteq Removable /\ inUse' \subseteq ContextNames
        /\ Names /\ ObjectInv'
        /\ \A m \in ContextNames \ ejected : CountInv(m)'
    BY <1>1, <1>6, <2>7, <2>8, <2>9, Referred
  <2> QED BY <1>1, <2>2, <2>6, <2>a, Stepped
<1>7. CASE Set(c, Failed(call)) /\ UNCHANGED <<objects, mounted, inUse>>
  <2>1. /\ DOMAIN Failed(call) = Fields /\ Failed(call).pc = "release"
        /\ Failed(call).held = call.held /\ Failed(call).opened = call.opened
    BY <1>1 DEF Failed, Fields
  <2>2. UNCHANGED contextVars
    BY <1>1, <1>7 DEF contextVars
  <2> QED BY <1>7, <2>1, <2>2, Working
<1> QED BY <1>3, <1>4, <1>5, <1>6, <1>7

LEMMA VolumeAddedInv == ASSUME ContextInv, NEW n \in Removable, VolumeAdded(n) PROVE ContextInv'
<1> DEFINE k == Len(objects)
           new == [name |-> n, refs |-> 0]
<1>1. /\ objects \in Seq(ObjectType) /\ k \in Nat /\ DOMAIN objects = 1 .. k
      /\ \A o \in DOMAIN objects : objects[o].name \in ContextNames
      /\ n \in ContextNames /\ new \in ObjectType
  BY ObjectFacts, VfsAssumption DEF ContextInv, VfsAssumption, ObjectType
<1>2. /\ objects' = Append(objects, new) /\ contexts[n] = 0
      /\ contexts \in [ContextNames -> Nat]
      /\ contexts' = [contexts EXCEPT ![n] = k + 1]
      /\ UNCHANGED <<inUse, mounted, vfsCalls, ejected>>
  BY DEF VolumeAdded, ContextInv, ContextShape, NoObject
<1> HIDE DEF k
<1>3. /\ objects' \in Seq(ObjectType) /\ DOMAIN objects' = 1 .. k + 1
      /\ \A o \in DOMAIN objects : objects'[o] = objects[o]
      /\ objects'[k + 1] = new
  <2> HIDE DEF new
  <2> QED BY <1>1, <1>2 DEF k
<1>4. contexts'[n] = k + 1 /\ \A m \in ContextNames \ {n} : contexts'[m] = contexts[m]
  BY <1>1, <1>2
<1>5. contexts' \in [ContextNames -> Nat]
  <2>1. k + 1 \in Nat
    BY <1>1
  <2> QED BY <1>2, <2>1
<1>6. Names
  BY <1>1, <1>3 DEF Names
<1>7. ContextShape'
  BY <1>2, <1>3, <1>5 DEF ContextShape, ContextInv
<1>8. ObjectInv'
  <2>1. ObjectInv
    BY DEF ContextInv
  <2>2. ASSUME NEW m \in ContextNames, contexts'[m] # 0
        PROVE  contexts'[m] \in DOMAIN objects' /\ objects'[contexts'[m]].name = m
    <3>1. CASE m = n
      BY <1>1, <1>3, <1>4, <3>1
    <3>2. CASE m # n
      <4>1. contexts[m] \in DOMAIN objects /\ objects[contexts[m]].name = m
        BY <1>4, <2>1, <2>2, <3>2 DEF ObjectInv, NoObject
      <4> QED BY <1>3, <1>4, <1>6, <3>2, <4>1 DEF Names
    <3> QED BY <3>1, <3>2
  <2>3. ASSUME NEW o \in DOMAIN objects', objects'[o].name \notin ejected
        PROVE  contexts'[objects'[o].name] = o
    <3>1. CASE o = k + 1
      BY <1>3, <1>4, <3>1
    <3>2. CASE o # k + 1
      <4>1. o \in DOMAIN objects /\ o # 0
        BY <1>1, <1>3, <3>2
      <4>2. contexts[objects[o].name] = o
        BY <1>3, <2>1, <2>3, <4>1 DEF ObjectInv
      <4>3. objects[o].name # n
        BY <1>2, <4>1, <4>2
      <4> QED BY <1>1, <1>3, <1>4, <4>1, <4>2, <4>3
    <3> QED BY <3>1, <3>2
  <2> QED BY <1>2, <2>2, <2>3 DEF ObjectInv, NoObject
<1>9. ASSUME NEW c \in Clients PROVE CallInv(vfsCalls[c])'
  <2>1. CallInv(vfsCalls[c]) /\ Alike(vfsCalls'[c], vfsCalls[c])
    BY <1>2 DEF ContextInv, Alike
  <2> QED BY <1>6, <2>1, CallStays
<1>a. ASSUME NEW m \in ContextNames \ ejected PROVE CountInv(m)'
  <2>1. \A i : HeldOf(i)' = HeldOf(i)
    <3>1. DOMAIN vfsCalls' = Clients
      BY <1>2 DEF ContextInv, ContextShape
    <3> QED BY <1>2, <1>6, <3>1, HeldSame
  <2>2. OpenedOf(m)' = OpenedOf(m) /\ Root(m)' = Root(m)
    BY <1>2 DEF OpenedOf, Root
  <2>3. Refs(m)' = Refs(m)
    <3>1. CASE m = n
      BY <1>1, <1>2, <1>3, <1>4, <3>1 DEF Refs, NoObject
    <3>2. CASE m # n /\ contexts[m] = 0
      BY <1>4, <3>2 DEF Refs, NoObject
    <3>3. CASE m # n /\ contexts[m] # 0
      <4>1. contexts[m] \in DOMAIN objects
        BY <3>3 DEF ContextInv, ObjectInv, NoObject
      <4> QED BY <1>3, <1>4, <3>3, <4>1 DEF Refs, NoObject
    <3> QED BY <3>1, <3>2, <3>3
  <2>4. CountInv(m)
    BY DEF ContextInv
  <2> QED BY <1>2, <2>1, <2>2, <2>3, <2>4 DEF CountInv
<1> QED BY <1>2, <1>7, <1>8, <1>9, <1>a DEF ContextInv

LEMMA VolumeRemovedInv == ASSUME ContextInv, NEW n \in Removable, VolumeRemoved(n) PROVE ContextInv'
<1>1. /\ ContextShape /\ ObjectInv /\ n \in ContextNames
      /\ DOMAIN vfsCalls = Clients /\ \A c \in Clients : DOMAIN vfsCalls[c] = Fields
      /\ objects[contexts[n]].name = n
  <2>1. n \in ContextNames /\ contexts[n] # NoObject
    BY VfsAssumption DEF VfsAssumption, VolumeRemoved
  <2> QED BY <2>1 DEF ContextInv, ContextShape, ObjectInv, CallInv
<1>2. /\ contexts' = [contexts EXCEPT ![n] = 0] /\ ejected' = ejected \cup {n}
      /\ objects' = objects
      /\ vfsCalls' = [c \in Clients |-> [vfsCalls[c] EXCEPT !.alone = FALSE]]
  BY DEF VolumeRemoved, NoObject
<1>3. mounted' \in {mounted, mounted \ {n}} /\ inUse' \in {inUse, inUse \ {n}}
  BY <1>1 DEF VolumeRemoved, Close
<1>4. /\ contexts' \in [ContextNames -> Nat] /\ contexts'[n] = 0
      /\ \A m \in ContextNames \ {n} : contexts'[m] = contexts[m]
  BY <1>1, <1>2 DEF ContextShape
<1>5. \A c \in Clients : Alike(vfsCalls'[c], vfsCalls[c])
  <2> SUFFICES ASSUME NEW c \in Clients PROVE Alike(vfsCalls'[c], vfsCalls[c])
    OBVIOUS
  <2>1. vfsCalls'[c] = [vfsCalls[c] EXCEPT !.alone = FALSE] /\ DOMAIN vfsCalls[c] = Fields
    BY <1>1, <1>2
  <2> QED BY <2>1 DEF Alike, Fields
<1>6. DOMAIN vfsCalls' = Clients /\ Names
  BY <1>2 DEF Names
<1>7. ContextShape'
  BY <1>1, <1>2, <1>3, <1>4, <1>6 DEF ContextShape
<1>8. ObjectInv'
  <2>1. ASSUME NEW m \in ContextNames, contexts'[m] # 0
        PROVE  contexts'[m] \in DOMAIN objects /\ objects[contexts'[m]].name = m
    BY <1>1, <1>4, <2>1 DEF ObjectInv, NoObject
  <2>2. ASSUME NEW o \in DOMAIN objects, objects[o].name \notin ejected'
        PROVE  contexts'[objects[o].name] = o
    <3>1. objects[o].name \in ContextNames \ {n} /\ objects[o].name \notin ejected
      BY <1>1, <1>2, <2>2, ObjectFacts
    <3> QED BY <1>1, <1>4, <3>1 DEF ObjectInv
  <2> QED BY <1>2, <2>1, <2>2 DEF ObjectInv, NoObject
<1>9. ASSUME NEW c \in Clients PROVE CallInv(vfsCalls[c])'
  BY <1>5, <1>6, CallStays DEF ContextInv
<1>a. ASSUME NEW m \in ContextNames \ ejected' PROVE CountInv(m)'
  <2>1. m \in ContextNames \ ejected /\ m # n /\ CountInv(m)
    BY <1>2 DEF ContextInv
  <2>2. Refs(m)' = Refs(m)
    BY <1>2, <1>4, <2>1 DEF Refs
  <2>3. (m \in inUse' <=> m \in inUse) /\ (m \in mounted' <=> m \in mounted)
    BY <1>3, <2>1
  <2>4. /\ \A e \in Clients : /\ vfsCalls'[e].held = vfsCalls[e].held
                              /\ vfsCalls'[e].opened = vfsCalls[e].opened
    BY <1>5 DEF Alike
  <2>5. HeldOf(m)' = HeldOf(m) /\ OpenedOf(m)' = OpenedOf(m)
    BY <1>6, <2>4, HeldSame, OpenedSame
  <2> QED BY <2>1, <2>2, <2>3, <2>5 DEF CountInv, Root
<1> QED BY <1>7, <1>8, <1>9, <1>a DEF ContextInv

LEMMA ContextNextInv == ContextInv /\ [VfsNext]_vfsVars => ContextInv'
<1> SUFFICES ASSUME ContextInv, [VfsNext]_vfsVars PROVE ContextInv'
  OBVIOUS
<1>1. ASSUME NEW n \in Removable, VolumeAdded(n) \/ VolumeRemoved(n) PROVE ContextInv'
  BY <1>1, VolumeAddedInv, VolumeRemovedInv
<1>2. ASSUME NEW c \in Clients, NEW a \in Calls[c], Begin(c, a) PROVE ContextInv'
  BY <1>2, BeginInv
<1>3. ASSUME NEW c \in Clients,
             CopySource(c) \/ MoveSource(c) \/ RemoveSource(c) \/ MakeFolder(c) \/ Query(c)
      PROVE  ContextInv'
  BY <1>3, CopyInv, MoveInv, RemoveInv, MakeFolderInv, QueryInv
<1>4. ASSUME NEW c \in Clients,
             Lookup(c) \/ Take(c) \/ OpenFile(c) \/ Chunk(c) \/ Release(c) \/ ReturnReply(c)
      PROVE  ContextInv'
  BY <1>4, LookupInv, TakeInv, OpenFileInv, ChunkInv, ReleaseInv, ReturnInv
<1>5. CASE UNCHANGED vfsVars
  <2>1. UNCHANGED <<contexts, objects, inUse, mounted, vfsCalls, ejected>>
    BY <1>5 DEF vfsVars
  <2>2. ContextShape' /\ ObjectInv'
    BY <2>1 DEF ContextInv, ContextShape, ObjectInv
  <2>3. \A c \in Clients : CallInv(vfsCalls[c])'
    BY <2>1 DEF ContextInv, CallInv
  <2>4. \A n \in ContextNames : /\ HeldOf(n)' = HeldOf(n) /\ OpenedOf(n)' = OpenedOf(n)
                                /\ Refs(n)' = Refs(n) /\ Root(n)' = Root(n)
    BY <2>1 DEF HeldOf, OpenedOf, Refs, Root
  <2> QED BY <2>1, <2>2, <2>3, <2>4 DEF ContextInv, CountInv
<1> QED BY <1>1, <1>2, <1>3, <1>4, <1>5 DEF VfsNext

\* Contexts are open for those who use them, and said to be open just then, for any clients,
\* contexts and calls: add_ref() and del_ref() count under each object's mutex, the first
\* reference opens and the last closes, and an object keeps its count when its volume goes.
THEOREM Contexts == VfsSpec => []ContextsHold
<1>1. VfsInit => ContextInv
  BY ContextInitInv
<1>2. ContextInv /\ [VfsNext]_vfsVars => ContextInv'
  BY ContextNextInv
<1>3. ContextInv => ContextsHold
  BY ContextsFollow
<1> QED BY <1>1, <1>2, <1>3, PTL DEF VfsSpec

-----------------------------------------------------------------------------
(***************************************************************************)
(* Transfers                                                               *)
(*                                                                         *)
(* What a call has transferred so far is what the file has, as long as the *)
(* call holds its contexts and nothing that it sees was changed.           *)
(***************************************************************************)

\* Every file of a tree is there, and is a sequence of chunks.
TypedTree(t, F) == \A p \in DOMAIN t : t[p] \in {Folder} \cup DOMAIN F
TypedTrees(T, F) == DOMAIN T = Roots /\ \A r \in Roots : TypedTree(T[r], F)
TypedFiles(F) == \A n \in DOMAIN F : F[n] \in Seq(Data)

LEMMA Retreed ==
    ASSUME NEW T, NEW F, NEW r, NEW t, TypedTrees(T, F), r \in Roots => TypedTree(t, F)
    PROVE  TypedTrees([T EXCEPT ![r] = t], F)
BY DEF TypedTrees

LEMMA Cleared ==
    ASSUME NEW t, NEW F, NEW p, NEW keeps, TypedTree(t, F)
    PROVE  /\ TypedTree(RemoveAll(t, p), F)
           /\ TypedTree(MakeFolders(t, p), F)
           /\ TypedTree(ClearWay(t, p, keeps), F)
<1>1. TypedTree(RemoveAll(t, p), F)
  BY DEF TypedTree, RemoveAll
<1>2. \A q : TypedTree(MakeFolders(t, q), F)
  BY DEF TypedTree, MakeFolders
<1>3. ClearWay(t, p, keeps) \in {RemoveAll(t, p), MakeFolders(t, Parent(p)), t}
  BY DEF ClearWay
<1> QED BY <1>1, <1>2, <1>3

LEMMA RenamedTyped ==
    ASSUME NEW t, NEW F, NEW from, NEW to, TypedTree(t, F)
    PROVE  TypedTree(Renamed(t, from, to), F)
<1> DEFINE Of(q) == CHOOSE o \in Below(t, from) : Image(from, to, o) = q
           moved == {Image(from, to, q) : q \in Below(t, from)}
<1>1. CASE from = to
  BY <1>1 DEF Renamed
<1>2. CASE from # to
  <2>1. ASSUME NEW q \in moved PROVE Of(q) \in DOMAIN t
    <3>1. \E o \in Below(t, from) : Image(from, to, o) = q
      BY <2>1
    <3> QED BY <3>1 DEF Below
  <2>2. Renamed(t, from, to) =
            [q \in moved \cup (DOMAIN t \ (Below(t, from) \cup {to})) |-> IF q \in moved THEN t[Of(q)] ELSE t[q]]
    BY <1>2 DEF Renamed
  <2> HIDE DEF Of, moved
  <2> QED BY <2>1, <2>2 DEF TypedTree
<1> QED BY <1>1, <1>2

LEMMA CopiedTyped ==
    ASSUME NEW T, TypedTrees(T, files), TypedFiles(files), NEW rs \in Roots, NEW rt, NEW from, NEW to
    PROVE  LET copy == Copied(T, rs, from, rt, to)
           IN  TypedTrees(copy.trees, copy.files) /\ TypedFiles(copy.files)
<1> DEFINE s == T[rs]
           t == T[rt]
           To(q) == Image(from, to, q)
           sources == {q \in Below(s, from) : IsFile(s, q)}
           copies == {To(q) : q \in Below(s, from)}
           Source(x) == CHOOSE q \in Below(s, from) : To(q) = x
           new == SetToSeq({q \in sources : To(q) \notin DOMAIN t})
           Number(q) == IF To(q) \in DOMAIN t THEN t[To(q)] ELSE Len(files) + CHOOSE k \in DOMAIN new : new[k] = q
           written == {Number(q) : q \in sources}
           tree == [x \in DOMAIN t \cup copies |->
                      IF x \notin copies THEN t[x] ELSE IF Source(x) \in sources THEN Number(Source(x)) ELSE Folder]
           Of(n) == CHOOSE q \in sources : Number(q) = n
           F == [n \in DOMAIN files \cup written |-> IF n \in written THEN files[s[Of(n)]] ELSE files[n]]
<1>1. Copied(T, rs, from, rt, to) = [trees |-> [T EXCEPT ![rt] = tree], files |-> F]
  BY DEF Copied
<1> HIDE DEF To, new, Number
<1>2. \A q \in sources : q \in DOMAIN s /\ s[q] # Folder /\ Number(q) \in written
  <2> HIDE DEF s
  <2> QED BY DEF IsFile, Below
<1>3. \A q \in sources : s[q] \in DOMAIN files
  <2> HIDE DEF sources
  <2> QED BY <1>2 DEF TypedTrees, TypedTree
<1>4. \A n \in written : Of(n) \in sources
  <2> HIDE DEF sources
  <2> QED OBVIOUS
<1>5. TypedFiles(F)
  <2> HIDE DEF sources, Of, written, s
  <2> QED BY <1>3, <1>4 DEF TypedFiles
<1>6. DOMAIN F = DOMAIN files \cup written
  OBVIOUS
<1>7. TypedTrees([T EXCEPT ![rt] = tree], F)
  <2> HIDE DEF F, s
  <2>1. TypedTrees(T, F)
    BY <1>6 DEF TypedTrees, TypedTree
  <2>2. CASE rt \in Roots
    <3>1. TypedTree(t, F)
      BY <2>1, <2>2 DEF TypedTrees
    <3>2. \A x \in copies : Source(x) \in sources => Number(Source(x)) \in written
      BY <1>2
    <3> HIDE DEF t, copies, sources, written, Source
    <3>3. TypedTree(tree, F)
      BY <1>6, <3>1, <3>2 DEF TypedTree
    <3> HIDE DEF tree
    <3> QED BY <2>1, <3>3, Retreed
  <2>3. CASE rt \notin Roots
    <3> HIDE DEF tree
    <3> QED BY <2>1, <2>3 DEF TypedTrees
  <2> QED BY <2>2, <2>3
<1> HIDE DEF tree, F
<1> QED BY <1>1, <1>5, <1>7

-----------------------------------------------------------------------------
(* Requests *)

\* What a request that transfers a file names.
LEMMA RequestOf ==
    ASSUME CallsAssumption, NEW c \in Clients, NEW a \in Calls[c], NEW r \in Requests(a)
    PROVE  /\ r.rpc = "WriteFile" <=> a.method = "upload"
           /\ r.rpc = "ReadFile" <=> a.method \in {"read", "download"}
           /\ r.rpc \in Streams => r = Request(r.rpc, a.path)
           /\ Locations(r) \in Seq(LocationType) /\ a.data \in Seq(Data)
           /\ r.rpc = "Copy" => r.sources \in Seq(Range(r.sources)) /\ r.sources # <<>>
<1>1. /\ a.method \in Methods /\ a.data \in Seq(Data)
      /\ Locations(r) \in Seq(LocationType)
      /\ r.rpc = "Copy" => r.sources \in Seq(Range(r.sources)) /\ r.sources # <<>>
  BY DEF CallsAssumption, LocationType
<1>2. CASE a.method \in {"upload", "read", "download"}
  BY <1>1, <1>2 DEF Requests, Upload, Read, Download, ReadFile, Request, Streams
<1>3. CASE a.method \notin {"upload", "read", "download"}
  <2>1. r.rpc \notin Streams
    BY <1>1, <1>3, SMTT(30) DEF Requests, Methods, Streams, GetContexts, GetAllContexts, GetOpenContexts, GetContext,
       OpenContext, CloseContext, GetVolumeInfo, GetFileInfo, GetDirectory, List, Locate, LocateRequest, Copy, Move,
       CreateFolder, RemovePaths, GetAttributes, SetAttributes, AttributeRequest, ClearAttributes, WithPath, PathRequest, Request
  <2> QED BY <1>1, <1>3, <2>1 DEF Streams
<1> QED BY <1>1, <1>2, <1>3

\* The contexts that are copied from are known.
LEMMA SourceNamed ==
    ASSUME CallsAssumption, NEW c \in Clients, NEW a \in Calls[c], NEW r \in Requests(a), r.rpc = "Copy",
           NEW i \in DOMAIN r.sources
    PROVE  r.sources[i].context \in ContextNames
<1>1. a.method = "copy"
  BY SMTT(30) DEF CallsAssumption, Requests, Methods, GetContexts, GetAllContexts, GetOpenContexts, GetContext,
     OpenContext, CloseContext, GetVolumeInfo, GetFileInfo, GetDirectory, List, Locate, LocateRequest, Copy, Move,
     CreateFolder, RemovePaths, ReadFile, Read, Download, Upload, GetAttributes, SetAttributes, AttributeRequest,
     ClearAttributes, WithPath, PathRequest, Request
<1>2. DOMAIN r.path = 1 .. 1
  BY <1>1 DEF Requests, Copy, PathRequest
<1>3. r.sources \in Seq(Range(r.sources)) /\ Locations(r) \in Seq(LocationType)
  BY RequestOf
<1> DEFINE A == [j \in DOMAIN r.sources |-> [name |-> r.sources[j].context, modify |-> r.rpc = "Remove"]]
           B == [j \in DOMAIN r.path |-> [name |-> r.path[j].context, modify |-> Modifies(r.rpc)]]
<1>4. DOMAIN A = DOMAIN r.sources /\ DOMAIN B = 1 .. 1 /\ A[i].name = r.sources[i].context
  BY <1>2
<1>5. Locations(r) = A \o B
  BY DEF Locations
<1>6. PICK n \in Nat : DOMAIN r.sources = 1 .. n /\ i \in 1 .. n
  BY <1>3
<1>7. PICK S : A \in Seq(S) /\ B \in Seq(S)
  <2> DEFINE W == {A[j] : j \in 1 .. n} \cup {B[j] : j \in 1 .. 1}
  <2>1. A \in [1 .. n -> W] /\ B \in [1 .. 1 -> W]
    BY <1>2, <1>6
  <2> HIDE DEF A, B, W
  <2>2. A \in Seq(W) /\ B \in Seq(W)
    <3>1. A \in Seq(W)
      BY <1>6, <2>1, SeqDef
    <3>2. B \in Seq(W)
      <4>1. PICK m \in Nat : B \in [1 .. m -> W]
        BY <2>1
      <4> QED BY <4>1, SeqDef
    <3> QED BY <3>1, <3>2
  <2> QED BY <2>2
<1> HIDE DEF A, B
<1>8. Len(A) = n /\ Len(B) = 1
  BY <1>4, <1>6, <1>7
<1>9. i \in 1 .. Len(A \o B) /\ (A \o B)[i] = A[i]
  BY <1>6, <1>7, <1>8
<1>10. A[i] \in LocationType
  BY <1>3, <1>5, <1>9
<1> QED BY <1>4, <1>10 DEF LocationType

LEMMA StreamPlace ==
    ASSUME NEW rpc \in Streams, NEW path, NEW r, r = Request(rpc, path), Locations(r) \in Seq(LocationType)
    PROVE  /\ Head(path) \in ContextNames
           /\ r.path[1].context = Head(path) /\ Target(r) = Tail(path)
           /\ NamesOf(r) = {Head(path)} /\ Len(Locations(r)) = 1
           /\ TargetRoot(r) = Root(Head(path))
<1>1. /\ r.path = <<EncodePath(path)>> /\ r.sources = <<>> /\ r.rpc = rpc
      /\ DOMAIN r = {"rpc", "path", "sources", "flags"}
  BY DEF Request
<1>2. r.path # <<>> /\ r.path[1].context = Head(path) /\ r.path[1].rel = Tail(path)
  BY <1>1 DEF EncodePath
<1>3. r # <<>>
  BY <1>1
<1>4. PICK l : l = [name |-> Head(path), modify |-> Modifies(r.rpc)]
  OBVIOUS
<1>5. Locations(r) = <<l>>
  BY <1>1, <1>2, <1>4 DEF Locations
<1>6. l.name \in ContextNames
  <2>1. <<l>> \in Seq(LocationType)
    BY <1>5
  <2>2. <<l>>[1] \in LocationType
    BY <2>1
  <2> QED BY <2>2 DEF LocationType
<1>7. NamesOf(r) = {l.name}
  BY <1>3, <1>5 DEF NamesOf, Range
<1> QED BY <1>2, <1>4, <1>5, <1>6, <1>7 DEF Target, TargetRoot

-----------------------------------------------------------------------------
(* The invariant *)

\* How far a call is: a file is only transferred by its request, and the contexts it holds are
\* those of its locations, all of them when it works.
ProgressInv(c, call) ==
    LET r == call.request IN
    /\ call.pc # "idle" => call.call \in Calls[c] /\ r \in Requests(call.call)
    /\ call.pc \in {"idle", "lookup", "take", "work"} => call.file = NoObject
    /\ call.pc \in {"lookup", "take", "work"} => call.chunks = <<>>
    /\ call.pc \in {"lookup", "take"} => call.next = 1 /\ Len(call.held) + Len(call.todo) = Len(Locations(r))
    /\ call.pc \in {"work", "stream", "release"} => Len(call.held) <= Len(Locations(r))
    /\ call.pc = "work" => /\ r.rpc \in Streams => call.next = 1
                           /\ r.rpc = "Copy" => call.next \in DOMAIN r.sources
    /\ call.pc = "stream" => r.rpc \in Streams /\ call.next \in Nat \ {0}
    /\ call.file # NoObject => call.pc \in {"stream", "release"} /\ r.rpc \in Streams

\* What a call that was not disturbed has transferred: of an upload, the chunks before the next
\* are in the file, and of a download the chunks before the next have come.
PartInv(call) ==
    LET r == call.request  a == call.call  f == files[call.file] IN
    call.file # NoObject /\ call.alone /\ Len(call.held) = Len(Locations(r)) =>
        /\ call.root = TargetRoot(r)
        /\ Target(r) \in DOMAIN trees[call.root] /\ trees[call.root][Target(r)] = call.file
        /\ r.rpc = "WriteFile" => /\ f = SubSeq(a.data, 1, call.next - 1) /\ call.next <= Len(a.data) + 1
                                  /\ call.pc = "release" => f = a.data
        /\ r.rpc = "ReadFile" => IF call.pc = "release" THEN call.chunks = Kept(a, f)
                                 ELSE call.chunks = SubSeq(f, 1, call.next - 1) /\ call.next <= Len(f) + 1

FilesInv == TypedTrees(trees, files) /\ TypedFiles(files)

TransferInv ==
    /\ FilesInv
    /\ \A c \in Clients : ProgressInv(c, vfsCalls[c]) /\ PartInv(vfsCalls[c])

\* Who was not disturbed sees the same file as before.
LEMMA Undisturbed ==
    ASSUME CallsAssumption, NEW c \in Clients, NEW y, NEW b \in BOOLEAN, DOMAIN y = Fields,
           ProgressInv(c, y), PartInv(y),
           y.alone /\ b => \A n \in NamesOf(y.request) :
               /\ Root(n)' = Root(n) /\ trees'[Root(n)] = trees[Root(n)]
               /\ \A f \in Range(trees[Root(n)]) \ {Folder} : files'[f] = files[f]
    PROVE  ProgressInv(c, [y EXCEPT !.alone = y.alone /\ b]) /\ PartInv([y EXCEPT !.alone = y.alone /\ b])'
<1>1. PICK z : z = [y EXCEPT !.alone = y.alone /\ b]
  OBVIOUS
<1>2. /\ z.pc = y.pc /\ z.call = y.call /\ z.request = y.request /\ z.file = y.file /\ z.chunks = y.chunks
      /\ z.next = y.next /\ z.held = y.held /\ z.todo = y.todo /\ z.root = y.root
      /\ z.alone = (y.alone /\ b)
  BY <1>1 DEF Fields
<1>3. ProgressInv(c, z)
  BY <1>2 DEF ProgressInv
<1>4. PartInv(z)'
  <2> SUFFICES ASSUME z.file # NoObject, z.alone, Len(z.held) = Len(Locations(z.request)) PROVE PartInv(z)'
    BY DEF PartInv
  <2>1. /\ y.file # NoObject /\ y.alone /\ b /\ Len(y.held) = Len(Locations(y.request))
    BY <1>2
  <2>2. PICK r \in Requests(y.call) : r = y.request /\ r.rpc \in Streams /\ y.call \in Calls[c]
    BY <2>1 DEF ProgressInv
  <2>3. r = Request(r.rpc, y.call.path) /\ Locations(r) \in Seq(LocationType)
    BY <2>2, RequestOf
  <2>4. PICK n : n = Head(y.call.path)
    OBVIOUS
  <2>5. /\ r.path[1].context = n /\ NamesOf(r) = {n} /\ TargetRoot(r) = Root(n)
    BY <2>2, <2>3, <2>4, StreamPlace
  <2>6. /\ Root(n)' = Root(n) /\ trees'[Root(n)] = trees[Root(n)]
        /\ \A f \in Range(trees[Root(n)]) \ {Folder} : files'[f] = files[f]
    BY <2>1, <2>2, <2>5
  <2>7. TargetRoot(r)' = Root(n)
    BY <2>5, <2>6 DEF TargetRoot
  <2>8. /\ y.root = Root(n) /\ Target(r) \in DOMAIN trees[y.root] /\ trees[y.root][Target(r)] = y.file
    BY <2>1, <2>2, <2>5 DEF PartInv
  <2>9. files'[y.file] = files[y.file]
    <3>1. y.file \in Range(trees[Root(n)]) \ {Folder}
      BY <2>1, <2>8 DEF Range, Folder, NoObject
    <3> QED BY <2>6, <3>1
  <2> QED BY <1>2, <2>1, <2>2, <2>6, <2>7, <2>8, <2>9 DEF PartInv
<1> QED BY <1>1, <1>3, <1>4

\* A step of one client says of the others that they were alone, or leaves all that they see.
LEMMA Transferring ==
    ASSUME CallsAssumption, ContextInv, TransferInv, NEW c \in Clients, NEW x,
           \/ Set(c, x) /\ UNCHANGED <<mounted, trees, files>>
           \/ SetDisturbing(c, x),
           ProgressInv(c, x), PartInv(x)', FilesInv'
    PROVE  TransferInv'
<1>1. DOMAIN vfsCalls = Clients /\ \A e \in Clients : DOMAIN vfsCalls[e] = Fields
  BY DEF ContextInv, ContextShape, CallInv
<1>2. vfsCalls'[c] = x
  BY <1>1 DEF Set, SetDisturbing
<1>3. ASSUME NEW e \in Clients \ {c} PROVE ProgressInv(e, vfsCalls'[e]) /\ PartInv(vfsCalls[e])'
  <2>1. PICK y : y = vfsCalls[e] /\ DOMAIN y = Fields /\ ProgressInv(e, y) /\ PartInv(y)
    BY <1>1 DEF TransferInv
  <2>2. CASE Set(c, x) /\ UNCHANGED <<mounted, trees, files>>
    <3>1. vfsCalls'[e] = y
      BY <1>1, <2>1, <2>2 DEF Set
    <3>2. PartInv(y)'
      BY <2>1, <2>2 DEF PartInv, TargetRoot, Root
    <3> QED BY <2>1, <3>1, <3>2
  <2>3. CASE SetDisturbing(c, x)
    <3>1. PICK b \in BOOLEAN : b = ~Sees(e)
      OBVIOUS
    <3>2. vfsCalls'[e] = [y EXCEPT !.alone = y.alone /\ b]
      BY <2>1, <2>3, <3>1 DEF SetDisturbing
    <3>3. b => \A n \in NamesOf(y.request) :
              /\ Root(n)' = Root(n) /\ trees'[Root(n)] = trees[Root(n)]
              /\ \A f \in Range(trees[Root(n)]) \ {Folder} : files'[f] = files[f]
      BY <2>1, <3>1 DEF Sees
    <3>4. ProgressInv(e, [y EXCEPT !.alone = y.alone /\ b]) /\ PartInv([y EXCEPT !.alone = y.alone /\ b])'
      BY <2>1, <3>3, Undisturbed
    <3> QED BY <3>2, <3>4
  <2> QED BY <2>2, <2>3
<1>4. ASSUME NEW e \in Clients PROVE (ProgressInv(e, vfsCalls[e]) /\ PartInv(vfsCalls[e]))'
  <2>1. CASE e = c
    BY <1>2, <2>1 DEF ProgressInv, PartInv
  <2>2. CASE e # c
    BY <1>3, <2>2 DEF ProgressInv
  <2> QED BY <2>1, <2>2
<1> QED BY <1>4 DEF TransferInv
-----------------------------------------------------------------------------
(* Steps *)

LEMMA RootNamed == \A n \in ContextNames : Root(n) \in Roots
BY Zenon DEF Root, Roots

LEMMA NoPart == ASSUME NEW x, x.file = NoObject PROVE PartInv(x)'
BY DEF PartInv

LEMMA FilesStay == FilesInv /\ UNCHANGED fileVars => FilesInv'
BY DEF FilesInv, fileVars

LEMMA CallFacts ==
    ASSUME ContextInv, TransferInv, NEW c \in Clients
    PROVE  /\ DOMAIN vfsCalls[c] = Fields /\ CallInv(vfsCalls[c])
           /\ vfsCalls[c].held \in Seq(DOMAIN objects) /\ Len(vfsCalls[c].held) \in Nat
           /\ ProgressInv(c, vfsCalls[c]) /\ PartInv(vfsCalls[c]) /\ FilesInv
BY DEF ContextInv, CallInv, TransferInv

LEMMA LengthOf ==
    ASSUME CallsAssumption, NEW c \in Clients, NEW a \in Calls[c], NEW r \in Requests(a)
    PROVE  Len(Locations(r)) \in Nat
<1>1. Locations(r) \in Seq(LocationType)
  BY RequestOf
<1> HIDE DEF Locations
<1> QED BY <1>1

LEMMA BeginKeeps ==
    ASSUME CallsAssumption, ContextInv, TransferInv, NEW c \in Clients, NEW a \in Calls[c], Begin(c, a) PROVE TransferInv'
<1> DEFINE call == vfsCalls[c]
           idle == [Idle EXCEPT !.opened = call.opened, !.count = call.count + 1, !.call = a]
<1>0. UNCHANGED <<mounted, trees, files>> /\ FilesInv'
  BY CallFacts, FilesStay DEF Begin, contextVars, fileVars
<1>1. PICK raised : raised = [idle EXCEPT !.result = "raised"]
  OBVIOUS
<1>2. CASE Set(c, raised)
  <2>1. raised.pc = "idle" /\ raised.file = NoObject
    BY <1>1 DEF Idle
  <2>2. ProgressInv(c, raised) /\ PartInv(raised)'
    BY <2>1, NoPart DEF ProgressInv
  <2> QED BY <1>0, <1>2, <2>2, Transferring
<1>3. CASE Requests(a) # {}
  <2>1. PICK r \in Requests(a) :
            Set(c, [idle EXCEPT !.request = r, !.ok = ~Refused(r),
                !.pc = IF Refused(r) \/ Locations(r) = <<>> \/ r.rpc \in Contextless \/ (r.rpc = "WriteFile" /\ UploadIterator(a) = <<>>)
                       THEN "release" ELSE "lookup",
                !.todo = Locations(r)])
    BY <1>3 DEF Begin
  <2>2. PICK ok, pc :
            /\ Set(c, [idle EXCEPT !.request = r, !.ok = ok, !.pc = pc, !.todo = Locations(r)])
            /\ pc \in {"release", "lookup"}
    <3>1. PICK pc : /\ pc = IF Refused(r) \/ Locations(r) = <<>> \/ r.rpc \in Contextless \/ (r.rpc = "WriteFile" /\ UploadIterator(a) = <<>>)
                            THEN "release" ELSE "lookup"
                    /\ pc \in {"release", "lookup"}
      OBVIOUS
    <3> QED BY <2>1, <3>1
  <2>3. PICK x : x = [idle EXCEPT !.request = r, !.ok = ok, !.pc = pc, !.todo = Locations(r)]
    OBVIOUS
  <2>4. /\ x.pc = pc /\ x.call = a /\ x.request = r /\ x.file = NoObject /\ x.chunks = <<>> /\ x.next = 1
        /\ x.held = <<>> /\ x.todo = Locations(r)
    BY <2>3 DEF Idle
  <2>5. PICK k \in Nat : k = Len(Locations(r)) /\ Len(x.held) = 0
    BY <2>4, LengthOf
  <2>6. ProgressInv(c, x) /\ PartInv(x)'
    BY <2>2, <2>4, <2>5, NoPart DEF ProgressInv
  <2> QED BY <1>0, <2>2, <2>3, <2>6, Transferring
<1> QED BY <1>1, <1>2, <1>3 DEF Begin

LEMMA LookupKeeps ==
    ASSUME CallsAssumption, ContextInv, TransferInv, NEW c \in Clients, Lookup(c) PROVE TransferInv'
<1> DEFINE call == vfsCalls[c]
<1>0. UNCHANGED <<mounted, trees, files>> /\ FilesInv'
  BY CallFacts, FilesStay DEF Lookup, contextVars, fileVars
<1>1. PICK y : y = call /\ y.pc = "lookup" /\ DOMAIN y = Fields /\ ProgressInv(c, y)
  BY CallFacts DEF Lookup
<1>2. PICK o, ok, x : Set(c, x) /\ x \in {[y EXCEPT !.pc = "take", !.taking = o], [y EXCEPT !.pc = "release", !.ok = ok]}
  BY <1>1 DEF Lookup
<1>3. /\ x.pc \in {"take", "release"} /\ x.call = y.call /\ x.request = y.request /\ x.file = y.file
      /\ x.chunks = y.chunks /\ x.next = y.next /\ x.held = y.held /\ x.todo = y.todo
  BY <1>1, <1>2 DEF Fields
<1>4. PICK h \in Nat, t \in Nat : h = Len(y.held) /\ t = Len(y.todo) /\ h + t = Len(Locations(y.request))
  <2>1. y.todo \in Seq(LocationType) /\ Len(y.held) \in Nat
    BY <1>1, CallFacts DEF CallInv
  <2>2. Len(y.held) + Len(y.todo) = Len(Locations(y.request))
    BY <1>1 DEF ProgressInv
  <2>3. Len(y.todo) \in Nat
    BY <2>1
  <2> QED BY <2>1, <2>2, <2>3
<1>5. ProgressInv(c, x) /\ PartInv(x)'
  <2>1. Len(y.held) <= Len(Locations(y.request))
    <3>1. h <= h + t
      OBVIOUS
    <3> QED BY <1>4, <3>1
  <2>2. x.file = NoObject
    BY <1>1, <1>3 DEF ProgressInv
  <2> QED BY <1>1, <1>3, <1>4, <2>1, <2>2, NoPart DEF ProgressInv
<1> QED BY <1>0, <1>2, <1>5, Transferring
LEMMA TakeKeeps ==
    ASSUME CallsAssumption, ContextInv, TransferInv, NEW c \in Clients, Take(c) PROVE TransferInv'
<1> DEFINE call == vfsCalls[c]
<1>0. UNCHANGED <<trees, files>> /\ FilesInv'
  BY CallFacts, FilesStay DEF Take, fileVars
<1>1. PICK y : y = call /\ y.pc = "take" /\ DOMAIN y = Fields /\ ProgressInv(c, y)
  BY CallFacts DEF Take
<1>2. y.held \in Seq(DOMAIN objects) /\ y.todo \in Seq(LocationType) /\ y.todo # <<>> /\ y.taking \in DOMAIN objects
  BY <1>1, CallFacts DEF CallInv
<1>3. PICK h \in Nat, t \in Nat \ {0} : h = Len(y.held) /\ t = Len(y.todo) /\ h + t = Len(Locations(y.request))
  <2>1. Len(y.held) \in Nat /\ Len(y.todo) \in Nat \ {0}
    BY <1>2, EmptySeq
  <2>2. Len(y.held) + Len(y.todo) = Len(Locations(y.request))
    BY <1>1 DEF ProgressInv
  <2> QED BY <2>1, <2>2
<1>4. PICK opened, x :
          /\ \/ SetDisturbing(c, x)
             \/ Set(c, x) /\ UNCHANGED mounted
          /\ x \in {[y EXCEPT !.pc = "release", !.opened = opened],
                    [y EXCEPT !.pc = "release", !.ok = FALSE],
                    [y EXCEPT !.held = Append(@, y.taking), !.todo = Tail(@),
                              !.pc = IF Len(y.todo) = 1 THEN "work" ELSE "lookup"]}
  <2> DEFINE n == objects[y.taking].name
             pc == IF Len(y.todo) = 1 THEN "work" ELSE "lookup"
  <2>1. \/ SetDisturbing(c, [y EXCEPT !.pc = "release", !.opened[n] = @ - 1])
        \/ SetDisturbing(c, [y EXCEPT !.pc = "release", !.opened[n] = @ + 1])
        \/ SetDisturbing(c, [y EXCEPT !.held = Append(@, y.taking), !.todo = Tail(@), !.pc = pc])
        \/ Set(c, [y EXCEPT !.pc = "release", !.ok = FALSE]) /\ UNCHANGED mounted
    BY <1>1 DEF Take, Failed
  <2> HIDE DEF n
  <2>2. CASE SetDisturbing(c, [y EXCEPT !.pc = "release", !.opened[n] = @ - 1])
    <3>1. PICK opened : opened = [y.opened EXCEPT ![n] = @ - 1]
      OBVIOUS
    <3>2. [y EXCEPT !.pc = "release", !.opened[n] = @ - 1] = [y EXCEPT !.pc = "release", !.opened = opened]
      BY <3>1
    <3> QED BY <2>2, <3>2
  <2>3. CASE SetDisturbing(c, [y EXCEPT !.pc = "release", !.opened[n] = @ + 1])
    <3>1. PICK opened : opened = [y.opened EXCEPT ![n] = @ + 1]
      OBVIOUS
    <3>2. [y EXCEPT !.pc = "release", !.opened[n] = @ + 1] = [y EXCEPT !.pc = "release", !.opened = opened]
      BY <3>1
    <3> QED BY <2>3, <3>2
  <2>4. CASE SetDisturbing(c, [y EXCEPT !.held = Append(@, y.taking), !.todo = Tail(@), !.pc = pc])
    BY <2>4
  <2>5. CASE Set(c, [y EXCEPT !.pc = "release", !.ok = FALSE]) /\ UNCHANGED mounted
    BY <2>5
  <2> QED BY <2>1, <2>2, <2>3, <2>4, <2>5
<1>5. /\ x.call = y.call /\ x.request = y.request /\ x.file = y.file /\ x.chunks = y.chunks /\ x.next = y.next
      /\ \/ x.pc = "release" /\ x.held = y.held
         \/ /\ x.held = Append(y.held, y.taking) /\ x.todo = Tail(y.todo)
            /\ x.pc = IF Len(y.todo) = 1 THEN "work" ELSE "lookup"
  BY <1>1, <1>4, ZenonT(30) DEF Fields
<1>6. /\ y.call \in Calls[c] /\ y.request \in Requests(y.call) /\ y.file = NoObject /\ y.chunks = <<>> /\ y.next = 1
  BY <1>1 DEF ProgressInv
<1>7. CASE x.pc = "release" /\ x.held = y.held
  <2>1. h <= h + t
    OBVIOUS
  <2>2. ProgressInv(c, x) /\ PartInv(x)'
    BY <1>3, <1>5, <1>6, <1>7, <2>1, NoPart DEF ProgressInv
  <2> QED BY <1>0, <1>4, <2>2, Transferring
<1>8. CASE /\ x.held = Append(y.held, y.taking) /\ x.todo = Tail(y.todo)
           /\ x.pc = IF Len(y.todo) = 1 THEN "work" ELSE "lookup"
  <2>1. Len(x.held) = h + 1 /\ Len(x.todo) = t - 1
    BY <1>2, <1>3, <1>8
  <2>2. x.request.rpc = "Copy" => 1 \in DOMAIN x.request.sources
    <3> SUFFICES ASSUME y.request.rpc = "Copy" PROVE 1 \in DOMAIN y.request.sources
      BY <1>5
    <3>1. PICK q : q = y.request.sources /\ q \in Seq(Range(q)) /\ q # <<>>
      BY <1>6, RequestOf
    <3> QED BY <3>1, EmptySeq
  <2>3. (h + 1) + (t - 1) = h + t /\ (t = 1 => h + 1 <= h + t)
    OBVIOUS
  <2>4. ProgressInv(c, x)
    BY <1>3, <1>5, <1>6, <1>8, <2>1, <2>2, <2>3 DEF ProgressInv
  <2>5. PartInv(x)'
    BY <1>5, <1>6, NoPart
  <2> QED BY <1>0, <1>4, <2>4, <2>5, Transferring
<1> QED BY <1>5, <1>7, <1>8

LEMMA ReleaseKeeps ==
    ASSUME CallsAssumption, ContextInv, TransferInv, NEW c \in Clients, Release(c) PROVE TransferInv'
<1>0. FilesInv'
  BY CallFacts, FilesStay DEF Release
<1>1. PICK y : y = vfsCalls[c] /\ y.pc = "release" /\ DOMAIN y = Fields /\ ProgressInv(c, y)
               /\ y.held \in Seq(DOMAIN objects) /\ y.held # <<>>
  BY CallFacts DEF Release
<1>2. PICK x : x = [y EXCEPT !.held = Front(@)] /\ SetDisturbing(c, x)
  BY <1>1 DEF Release
<1>3. /\ x.pc = y.pc /\ x.call = y.call /\ x.request = y.request /\ x.file = y.file
      /\ x.held = Front(y.held)
  BY <1>1, <1>2 DEF Fields
<1>4. PICK h \in Nat, l \in Nat : h + 1 = Len(y.held) /\ Len(x.held) = h /\ l = Len(Locations(x.request))
  <2>1. PICK k \in Nat \ {0} : k = Len(y.held)
    BY <1>1, EmptySeq
  <2>2. Len(SubSeq(y.held, 1, k - 1)) = k - 1
    BY <1>1, <2>1, SubSeqProperties
  <2>3. Len(x.held) = k - 1 /\ k - 1 \in Nat /\ (k - 1) + 1 = k
    BY <1>3, <2>1, <2>2 DEF Front
  <2>4. Len(Locations(x.request)) \in Nat
    BY <1>1, <1>3, LengthOf DEF ProgressInv
  <2> QED BY <2>1, <2>3, <2>4
<1>5. h + 1 <= l
  BY <1>1, <1>3, <1>4 DEF ProgressInv
<1>6. h <= l /\ h # l
  BY <1>5
<1>7. ProgressInv(c, x)
  BY <1>1, <1>3, <1>4, <1>6 DEF ProgressInv
<1>8. PartInv(x)'
  BY <1>4, <1>6 DEF PartInv
<1> QED BY <1>0, <1>2, <1>7, <1>8, Transferring

LEMMA ReturnKeeps ==
    ASSUME CallsAssumption, ContextInv, TransferInv, NEW c \in Clients, ReturnReply(c) PROVE TransferInv'
<1>1. UNCHANGED <<mounted, trees, files>> /\ FilesInv'
  BY CallFacts, FilesStay DEF ReturnReply, contextVars, fileVars
<1>2. PICK x : x = [Idle EXCEPT !.opened = vfsCalls[c].opened, !.count = vfsCalls[c].count] /\ Set(c, x)
  BY DEF ReturnReply
<1>3. x.pc = "idle" /\ x.file = NoObject
  BY <1>2 DEF Idle
<1>4. ProgressInv(c, x) /\ PartInv(x)'
  BY <1>3, NoPart DEF ProgressInv
<1> QED BY <1>1, <1>2, <1>4, Transferring

LEMMA VolumesKeep ==
    ASSUME CallsAssumption, ContextInv, TransferInv, NEW n \in Removable, VolumeAdded(n) \/ VolumeRemoved(n)
    PROVE  TransferInv'
<1>1. FilesInv'
  BY FilesStay DEF TransferInv, VolumeAdded, VolumeRemoved
<1>2. CASE VolumeAdded(n)
  <2>1. UNCHANGED <<mounted, trees, files, vfsCalls>>
    BY <1>2 DEF VolumeAdded, fileVars
  <2>2. ASSUME NEW c \in Clients PROVE (ProgressInv(c, vfsCalls[c]) /\ PartInv(vfsCalls[c]))'
    <3>1. ProgressInv(c, vfsCalls[c]) /\ PartInv(vfsCalls[c])
      BY DEF TransferInv
    <3> QED BY <2>1, <3>1 DEF ProgressInv, PartInv, TargetRoot, Root
  <2> QED BY <1>1, <2>2 DEF TransferInv
<1>3. CASE VolumeRemoved(n)
  <2>1. ASSUME NEW c \in Clients PROVE (ProgressInv(c, vfsCalls[c]) /\ PartInv(vfsCalls[c]))'
    <3>1. PICK y : y = vfsCalls[c] /\ DOMAIN y = Fields /\ ProgressInv(c, y)
      BY CallFacts
    <3>2. PICK z : z = vfsCalls'[c] /\ z = [y EXCEPT !.alone = FALSE]
      BY <1>3, <3>1 DEF VolumeRemoved
    <3>3. /\ z.pc = y.pc /\ z.call = y.call /\ z.request = y.request /\ z.file = y.file /\ z.chunks = y.chunks
          /\ z.next = y.next /\ z.held = y.held /\ z.todo = y.todo /\ z.alone = FALSE
      BY <3>1, <3>2 DEF Fields
    <3>4. ProgressInv(c, z)
      BY <3>1, <3>3 DEF ProgressInv
    <3>5. PartInv(z)'
      BY <3>3 DEF PartInv
    <3> QED BY <3>2, <3>4, <3>5 DEF ProgressInv, PartInv
  <2> QED BY <1>1, <2>1 DEF TransferInv
<1> QED BY <1>2, <1>3
\* A step of an operation goes on to the next source, or ends the operation.
LEMMA WorkGoesOn ==
    ASSUME CallsAssumption, ContextInv, TransferInv, NEW c \in Clients, vfsCalls[c].pc = "work",
           NEW x \in {Progress(vfsCalls[c]), Failed(vfsCalls[c]), [vfsCalls[c] EXCEPT !.pc = "release"]},
           vfsCalls[c].request.rpc \notin Streams, SetDisturbing(c, x), FilesInv'
    PROVE  TransferInv'
<1>1. PICK y : y = vfsCalls[c] /\ y.pc = "work" /\ DOMAIN y = Fields /\ ProgressInv(c, y) /\ y.request.rpc \notin Streams
  BY CallFacts
<1>2. \/ x \in {[y EXCEPT !.pc = "release"], [y EXCEPT !.pc = "release", !.ok = FALSE]}
      \/ y.next # Len(y.request.sources) /\ x = [y EXCEPT !.next = @ + 1]
  BY <1>1 DEF Progress, Failed
<1>3. /\ x.call = y.call /\ x.request = y.request /\ x.file = y.file /\ x.chunks = y.chunks /\ x.held = y.held
      /\ (x.pc = "release") \/ (y.next # Len(y.request.sources) /\ x.pc = "work" /\ x.next = y.next + 1)
  BY <1>1, <1>2 DEF Fields
<1>4. /\ y.call \in Calls[c] /\ y.request \in Requests(y.call) /\ y.file = NoObject
      /\ Len(y.held) <= Len(Locations(y.request))
      /\ y.request.rpc = "Copy" => y.next \in DOMAIN y.request.sources
  BY <1>1 DEF ProgressInv
<1>5. y.request.rpc = "Copy" /\ y.next # Len(y.request.sources) => y.next + 1 \in DOMAIN y.request.sources
  <2> SUFFICES ASSUME y.request.rpc = "Copy", y.next # Len(y.request.sources) PROVE y.next + 1 \in DOMAIN y.request.sources
    OBVIOUS
  <2>1. PICK q : q = y.request.sources /\ q \in Seq(Range(q)) /\ y.next \in DOMAIN q
    BY <1>4, RequestOf
  <2>2. DOMAIN q = 1 .. Len(q) /\ Len(q) \in Nat
    BY <2>1
  <2>3. PICK k \in Nat, n \in Nat : k = y.next /\ n = Len(q) /\ k \in 1 .. n /\ k # n
    BY <2>1, <2>2
  <2>4. k + 1 \in 1 .. n
    BY <2>3
  <2> QED BY <2>1, <2>2, <2>3, <2>4
<1>6. ProgressInv(c, x)
  BY <1>1, <1>3, <1>4, <1>5 DEF ProgressInv
<1>7. PartInv(x)'
  BY <1>3, <1>4, NoPart
<1> QED BY <1>6, <1>7, Transferring

LEMMA CopyKeeps ==
    ASSUME CallsAssumption, ContextInv, TransferInv, NEW c \in Clients, CopySource(c) PROVE TransferInv'
<1> DEFINE call == vfsCalls[c]
           r == call.request
           src == r.sources[call.next]
           from == src.rel
           rs == Root(src.context)
           rt == TargetRoot(r)
           to == Into(r, from)
           keeps == r.flags.merge /\ IsFolder(trees[rt], to) /\ IsFolder(trees[rs], from)
           T == IF r.flags.force THEN [trees EXCEPT ![rt] = ClearWay(@, to, keeps)] ELSE trees
           clear == IF r.flags.force THEN WayIsClear(trees[rt], to) ELSE IsFolder(trees[rt], to) => keeps
           copy == Copied(T, rs, from, rt, to)
           can == CanCopy(T, rs, from, rt, to)
<1>1. /\ call.pc = "work" /\ r.rpc = "Copy"
      /\ IF ~clear THEN UNCHANGED fileVars
         ELSE IF ~can THEN trees' = T /\ UNCHANGED files
         ELSE trees' = copy.trees /\ files' = copy.files
      /\ SetDisturbing(c, IF clear /\ can THEN Progress(call) ELSE Failed(call))
  BY DEF CopySource
<1>2. rs \in Roots
  <2>1. call.call \in Calls[c] /\ r \in Requests(call.call) /\ call.next \in DOMAIN r.sources
    BY <1>1, CallFacts DEF ProgressInv
  <2>2. src.context \in ContextNames
    BY <1>1, <2>1, SourceNamed
  <2> QED BY <2>2, RootNamed
<1>3. PICK keep, force : keep = keeps /\ force = r.flags.force
  OBVIOUS
<1>4. TypedTrees(T, files) /\ TypedFiles(files)
  <2>1. FilesInv
    BY DEF TransferInv
  <2>2. T \in {trees, [trees EXCEPT ![rt] = ClearWay(trees[rt], to, keeps)]}
    OBVIOUS
  <2> HIDE DEF rt, to, keeps, T
  <2>3. rt \in Roots => TypedTree(ClearWay(trees[rt], to, keeps), files)
    BY <2>1, Cleared DEF FilesInv, TypedTrees
  <2>4. TypedTrees([trees EXCEPT ![rt] = ClearWay(trees[rt], to, keeps)], files)
    BY <2>1, <2>3, Retreed DEF FilesInv
  <2> QED BY <2>1, <2>2, <2>4 DEF FilesInv
<1> HIDE DEF rs, rt, from, to, keeps, T, clear, can
<1>5. TypedTrees(copy.trees, copy.files) /\ TypedFiles(copy.files)
  BY <1>2, <1>4, CopiedTyped
<1> HIDE DEF copy
<1>6. FilesInv'
  <2>1. CASE ~clear
    <3>1. FilesInv /\ UNCHANGED fileVars
      BY <1>1, <2>1 DEF TransferInv
    <3> QED BY <3>1, FilesStay
  <2>2. CASE clear
    BY <1>1, <1>4, <1>5, <2>2 DEF FilesInv
  <2> QED BY <2>1, <2>2
<1>7. PICK x \in {Progress(call), Failed(call)} : SetDisturbing(c, x)
  BY <1>1
<1>8. r.rpc \notin Streams
  BY <1>1 DEF Streams
<1> QED BY <1>1, <1>6, <1>7, <1>8, WorkGoesOn

\* The other operations leave the files as they are, and one tree becomes another.
LEMMA TreeKeeps ==
    ASSUME CallsAssumption, ContextInv, TransferInv, NEW c \in Clients, vfsCalls[c].pc = "work",
           NEW x \in {Progress(vfsCalls[c]), Failed(vfsCalls[c]), [vfsCalls[c] EXCEPT !.pc = "release"]},
           vfsCalls[c].request.rpc \notin Streams, SetDisturbing(c, x),
           UNCHANGED files, TypedTrees(trees', files)
    PROVE  TransferInv'
<1>1. FilesInv'
  BY DEF TransferInv, FilesInv
<1> QED BY <1>1, WorkGoesOn

LEMMA MoveKeeps ==
    ASSUME CallsAssumption, ContextInv, TransferInv, NEW c \in Clients, MoveSource(c) PROVE TransferInv'
<1> DEFINE call == vfsCalls[c]
           r == call.request
           src == r.sources[call.next]
           from == src.rel
           rs == Root(src.context)
           rt == TargetRoot(r)
           to == Into(r, from)
           clear == r.flags.force => WayIsClear(trees[rt], to)
           T == IF r.flags.force /\ clear THEN [trees EXCEPT ![rt] = ClearWay(@, to, FALSE)] ELSE trees
           can == clear /\ CanRename(T, rs, from, rt, to)
<1>1. /\ call.pc = "work" /\ r.rpc = "Move" /\ UNCHANGED files
      /\ trees' = IF can THEN [T EXCEPT ![rt] = Renamed(@, from, to)] ELSE T
      /\ SetDisturbing(c, IF can THEN Progress(call) ELSE Failed(call))
  BY DEF MoveSource
<1>2. TypedTrees(T, files)
  <2>1. FilesInv
    BY DEF TransferInv
  <2>2. T \in {trees, [trees EXCEPT ![rt] = ClearWay(trees[rt], to, FALSE)]}
    OBVIOUS
  <2> HIDE DEF rt, to, T
  <2>3. rt \in Roots => TypedTree(ClearWay(trees[rt], to, FALSE), files)
    BY <2>1, Cleared DEF FilesInv, TypedTrees
  <2>4. TypedTrees([trees EXCEPT ![rt] = ClearWay(trees[rt], to, FALSE)], files)
    BY <2>1, <2>3, Retreed DEF FilesInv
  <2> QED BY <2>1, <2>2, <2>4 DEF FilesInv
<1> HIDE DEF rt, from, to, T, can
<1>3. TypedTrees([T EXCEPT ![rt] = Renamed(T[rt], from, to)], files)
  <2>1. rt \in Roots => TypedTree(Renamed(T[rt], from, to), files)
    BY <1>2, RenamedTyped DEF TypedTrees
  <2> QED BY <1>2, <2>1, Retreed
<1>4. TypedTrees(trees', files)
  BY <1>1, <1>2, <1>3
<1>5. PICK x \in {Progress(call), Failed(call)} : SetDisturbing(c, x)
  BY <1>1
<1>6. r.rpc \notin Streams
  BY <1>1 DEF Streams
<1> QED BY <1>1, <1>4, <1>5, <1>6, TreeKeeps

LEMMA RemoveKeeps ==
    ASSUME CallsAssumption, ContextInv, TransferInv, NEW c \in Clients, RemoveSource(c) PROVE TransferInv'
<1> DEFINE call == vfsCalls[c]
           r == call.request
           src == r.sources[call.next]
           rs == Root(src.context)
           can == r.flags.force \/ Below(trees[rs], src.rel) \subseteq {src.rel}
<1>1. /\ call.pc = "work" /\ r.rpc = "Remove" /\ UNCHANGED files
      /\ trees' = IF can THEN [trees EXCEPT ![rs] = RemoveAll(@, src.rel)] ELSE trees
      /\ SetDisturbing(c, IF can THEN Progress(call) ELSE Failed(call))
  BY DEF RemoveSource
<1> HIDE DEF rs, src, can
<1>2. FilesInv
  BY DEF TransferInv
<1>3. rs \in Roots => TypedTree(RemoveAll(trees[rs], src.rel), files)
  BY <1>2, Cleared DEF FilesInv, TypedTrees
<1>4. TypedTrees([trees EXCEPT ![rs] = RemoveAll(trees[rs], src.rel)], files)
  BY <1>2, <1>3, Retreed DEF FilesInv
<1>5. TypedTrees(trees', files)
  BY <1>1, <1>2, <1>4 DEF FilesInv
<1>6. PICK x \in {Progress(call), Failed(call)} : SetDisturbing(c, x)
  BY <1>1
<1>7. r.rpc \notin Streams
  BY <1>1 DEF Streams
<1> QED BY <1>1, <1>5, <1>6, <1>7, TreeKeeps

LEMMA MakeFolderKeeps ==
    ASSUME CallsAssumption, ContextInv, TransferInv, NEW c \in Clients, MakeFolder(c) PROVE TransferInv'
<1> DEFINE call == vfsCalls[c]
           r == call.request
           p == Target(r)
           rt == TargetRoot(r)
           can == CanMakeFolders(trees[rt], p) /\ (r.flags.force \/ IsFolder(trees[rt], Parent(p)))
<1>1. /\ call.pc = "work" /\ r.rpc = "CreateFolder" /\ UNCHANGED files
      /\ trees' = IF can THEN [trees EXCEPT ![rt] = MakeFolders(@, p)] ELSE trees
      /\ SetDisturbing(c, IF can THEN [call EXCEPT !.pc = "release"] ELSE Failed(call))
  BY DEF MakeFolder
<1> HIDE DEF rt, p, can
<1>2. FilesInv
  BY DEF TransferInv
<1>3. rt \in Roots => TypedTree(MakeFolders(trees[rt], p), files)
  BY <1>2, Cleared DEF FilesInv, TypedTrees
<1>4. TypedTrees([trees EXCEPT ![rt] = MakeFolders(trees[rt], p)], files)
  BY <1>2, <1>3, Retreed DEF FilesInv
<1>5. TypedTrees(trees', files)
  BY <1>1, <1>2, <1>4 DEF FilesInv
<1>6. PICK x \in {[call EXCEPT !.pc = "release"], Failed(call)} : SetDisturbing(c, x)
  BY <1>1
<1>7. r.rpc \notin Streams
  BY <1>1 DEF Streams
<1> QED BY <1>1, <1>5, <1>6, <1>7, TreeKeeps

LEMMA QueryKeeps ==
    ASSUME CallsAssumption, ContextInv, TransferInv, NEW c \in Clients, Query(c) PROVE TransferInv'
<1>1. UNCHANGED <<mounted, trees, files>> /\ FilesInv'
  BY CallFacts, FilesStay DEF Query, contextVars, fileVars
<1>2. PICK y : y = vfsCalls[c] /\ y.pc = "work" /\ DOMAIN y = Fields /\ ProgressInv(c, y)
  BY CallFacts DEF Query
<1>3. PICK ok, outcome, x : x = [y EXCEPT !.pc = "release", !.ok = ok, !.result = outcome] /\ Set(c, x)
  BY <1>2, Zenon DEF Query
<1>4. /\ x.pc = "release" /\ x.call = y.call /\ x.request = y.request /\ x.file = y.file /\ x.held = y.held
  BY <1>2, <1>3 DEF Fields
<1>5. y.file = NoObject
  BY <1>2 DEF ProgressInv
<1>6. ProgressInv(c, x) /\ PartInv(x)'
  BY <1>2, <1>4, <1>5, NoPart DEF ProgressInv
<1> QED BY <1>1, <1>3, <1>6, Transferring
\* The chunks before the next one, and the next.
LEMMA Extended ==
    ASSUME NEW f \in Seq(Data), NEW n \in 1 .. Len(f)
    PROVE  Append(SubSeq(f, 1, n - 1), f[n]) = SubSeq(f, 1, n)
<1>1. Len(f) \in Nat
  OBVIOUS
<1>2. PICK k \in Nat : k = Len(f) /\ n \in 1 .. k /\ n \in Nat
  BY <1>1
<1>3. SubSeq(f, 1, n) = [i \in 1 .. n |-> f[i]] /\ SubSeq(f, 1, n) \in Seq(Data)
  BY <1>2, SubSeqProperties
<1>4. SubSeq(f, 1, n - 1) = [i \in 1 .. (n - 1) |-> f[i]] /\ SubSeq(f, 1, n - 1) \in Seq(Data) /\ f[n] \in Data
  BY <1>2, SubSeqProperties
<1> QED BY <1>2, <1>3, <1>4

LEMMA NoneAndAll ==
    ASSUME NEW f \in Seq(Data)
    PROVE  SubSeq(f, 1, 0) = <<>> /\ SubSeq(f, 1, Len(f)) = f
<1>1. Len(f) \in Nat
  OBVIOUS
<1>2. SubSeq(f, 1, 0) = [i \in 1 .. 0 |-> f[i]]
  BY <1>1, SubSeqProperties
<1>3. SubSeq(f, 1, Len(f)) = [i \in 1 .. Len(f) |-> f[i]]
  BY <1>1, SubSeqProperties
<1> QED BY <1>1, <1>2, <1>3

\* The place that a transfer names.
LEMMA TransferOf ==
    ASSUME CallsAssumption, NEW c \in Clients, NEW y, ProgressInv(c, y), y.pc # "idle", y.request.rpc \in Streams
    PROVE  /\ y.call \in Calls[c] /\ y.request \in Requests(y.call)
           /\ y.call.data \in Seq(Data)
           /\ y.request.rpc = "WriteFile" <=> y.call.method = "upload"
           /\ TargetRoot(y.request) = Root(Head(y.call.path)) /\ Head(y.call.path) \in ContextNames
           /\ TargetRoot(y.request) \in Roots
           /\ Target(y.request) = Tail(y.call.path)
<1>1. PICK a \in Calls[c] : a = y.call /\ y.request \in Requests(a)
  BY DEF ProgressInv
<1>2. PICK r \in Requests(a) : r = y.request /\ r.rpc \in Streams
  BY <1>1
<1>3. /\ r = Request(r.rpc, a.path) /\ Locations(r) \in Seq(LocationType) /\ a.data \in Seq(Data)
      /\ r.rpc = "WriteFile" <=> a.method = "upload"
  BY <1>2, RequestOf
<1>4. /\ Head(a.path) \in ContextNames /\ Target(r) = Tail(a.path)
      /\ TargetRoot(r) = Root(Head(a.path))
  BY <1>2, <1>3, StreamPlace
<1> QED BY <1>1, <1>2, <1>3, <1>4, RootNamed

LEMMA OpenFileKeeps ==
    ASSUME CallsAssumption, ContextInv, TransferInv, NEW c \in Clients, OpenFile(c) PROVE TransferInv'
<1>1. PICK y : /\ y = vfsCalls[c] /\ y.pc = "work" /\ DOMAIN y = Fields /\ ProgressInv(c, y)
               /\ y.request.rpc \in Streams
  BY CallFacts DEF OpenFile, Streams
<1>2. PICK r, p, root, t, number :
          /\ r = y.request /\ p = Target(r) /\ root = TargetRoot(r) /\ t = trees[root]
          /\ number = IF IsFile(t, p) THEN t[p] ELSE Len(files) + 1
  OBVIOUS
<1>3. PICK a : a = y.call /\ a \in Calls[c] /\ r \in Requests(a) /\ a.data \in Seq(Data) /\ root \in Roots
  BY <1>1, <1>2, TransferOf
<1>4. y.file = NoObject /\ y.chunks = <<>> /\ y.next = 1 /\ Len(y.held) <= Len(Locations(r))
  BY <1>1, <1>2 DEF ProgressInv
<1>5. UNCHANGED <<contextVars, mounted>> /\ TargetRoot(r)' = root
  BY <1>2 DEF OpenFile, contextVars, TargetRoot, Root
<1>6. FilesInv
  BY DEF TransferInv
<1>7. PICK x : x = [y EXCEPT !.pc = "stream", !.root = root, !.file = number]
  OBVIOUS
<1>8. /\ x.pc = "stream" /\ x.call = a /\ x.request = r /\ x.file = number /\ x.chunks = <<>>
      /\ x.next = 1 /\ x.held = y.held /\ x.root = root
  BY <1>1, <1>2, <1>3, <1>4, <1>7 DEF Fields
<1>9. ProgressInv(c, x)
  BY <1>1, <1>2, <1>3, <1>4, <1>8 DEF ProgressInv
<1>10. \/ /\ r.rpc = "ReadFile" /\ UNCHANGED fileVars
          /\ Set(c, IF IsFile(t, p) THEN x ELSE [y EXCEPT !.pc = "stream", !.root = root])
       \/ Set(c, Failed(y)) /\ UNCHANGED fileVars
       \/ /\ r.rpc = "WriteFile" /\ SetDisturbing(c, x)
          /\ trees' = [trees EXCEPT ![root] = [q \in DOMAIN t \cup {p} |-> IF q = p THEN number ELSE t[q]]]
          /\ files' = Truncated(number)
  BY <1>1, <1>2, <1>7, ZenonT(30) DEF OpenFile
<1>11. CASE r.rpc = "ReadFile" /\ UNCHANGED fileVars /\ IsFile(t, p) /\ Set(c, x)
  <2>1. p \in DOMAIN t /\ t[p] = number /\ number # Folder
    BY <1>2, <1>11 DEF IsFile
  <2>2. number \in DOMAIN files
    BY <1>2, <1>3, <1>6, <2>1 DEF FilesInv, TypedTrees, TypedTree
  <2>3. PICK f \in Seq(Data) : f = files[number]
    BY <1>6, <2>2 DEF FilesInv, TypedFiles
  <2>4. SubSeq(f, 1, 0) = <<>> /\ 1 <= Len(f) + 1 /\ 1 - 1 = 0
    BY <2>3, NoneAndAll
  <2>5. trees' = trees /\ files' = files
    BY <1>11 DEF fileVars
  <2>6. PartInv(x)'
    BY <1>2, <1>5, <1>8, <1>11, <2>1, <2>3, <2>4, <2>5 DEF PartInv
  <2>7. FilesInv'
    BY <1>6, <1>11, FilesStay
  <2> QED BY <1>5, <1>9, <1>11, <2>5, <2>6, <2>7, Transferring
<1>12. CASE UNCHANGED fileVars /\ \E z \in {[y EXCEPT !.pc = "stream", !.root = root], Failed(y)} : Set(c, z)
  <2>1. PICK z : Set(c, z) /\ z \in {[y EXCEPT !.pc = "stream", !.root = root], Failed(y)}
    BY <1>12
  <2>2. /\ z.pc \in {"stream", "release"} /\ z.call = a /\ z.request = r /\ z.file = NoObject /\ z.next = 1
        /\ z.held = y.held
    BY <1>1, <1>2, <1>3, <1>4, <2>1, ZenonT(30) DEF Fields, Failed
  <2>3. ProgressInv(c, z) /\ PartInv(z)'
    <3>1. z.request.rpc \in Streams /\ 1 \in Nat \ {0}
      BY <1>1, <1>2, <2>2
    <3>2. ProgressInv(c, z)
      BY <1>3, <1>4, <2>2, <3>1 DEF ProgressInv
    <3> QED BY <2>2, <3>2, NoPart
  <2>4. FilesInv' /\ trees' = trees /\ files' = files
    BY <1>6, <1>12, FilesStay DEF fileVars
  <2> QED BY <1>5, <2>1, <2>3, <2>4, Transferring
<1>13. CASE /\ r.rpc = "WriteFile" /\ SetDisturbing(c, x)
            /\ trees' = [trees EXCEPT ![root] = [q \in DOMAIN t \cup {p} |-> IF q = p THEN number ELSE t[q]]]
            /\ files' = Truncated(number)
  <2>1. /\ DOMAIN files' = DOMAIN files \cup {number} /\ files'[number] = <<>>
        /\ TypedFiles(files')
    <3>1. <<>> \in Seq(Data)
      OBVIOUS
    <3> QED BY <1>6, <1>13, <3>1 DEF Truncated, FilesInv, TypedFiles
  <2>2. PICK tree : tree = [q \in DOMAIN t \cup {p} |-> IF q = p THEN number ELSE t[q]]
    OBVIOUS
  <2>3. TypedTrees(trees, files') /\ TypedTree(tree, files')
    BY <1>2, <1>3, <1>6, <2>1, <2>2 DEF FilesInv, TypedTrees, TypedTree
  <2>4. FilesInv'
    <3>1. TypedTrees([trees EXCEPT ![root] = tree], files')
      BY <2>3, Retreed
    <3> QED BY <1>13, <2>1, <2>2, <3>1 DEF FilesInv
  <2>5. trees'[root] = tree /\ p \in DOMAIN tree /\ tree[p] = number
    BY <1>3, <1>6, <1>13, <2>2 DEF FilesInv, TypedTrees
  <2>6. SubSeq(a.data, 1, 0) = <<>> /\ 1 <= Len(a.data) + 1 /\ 1 - 1 = 0
    BY <1>3, NoneAndAll
  <2>7. PartInv(x)'
    BY <1>2, <1>5, <1>8, <1>13, <2>1, <2>5, <2>6 DEF PartInv
  <2> QED BY <1>9, <1>13, <2>4, <2>7, Transferring
<1> QED BY <1>10, <1>11, <1>12, <1>13
LEMMA ChunkKeeps ==
    ASSUME CallsAssumption, ContextInv, TransferInv, NEW c \in Clients, Chunk(c) PROVE TransferInv'
<1>1. PICK y : /\ y = vfsCalls[c] /\ y.pc = "stream" /\ DOMAIN y = Fields /\ ProgressInv(c, y)
               /\ PartInv(y) /\ y.request.rpc \in Streams
  BY CallFacts DEF Chunk, ProgressInv
<1>0. PICK n \in Nat \ {0} : n = y.next
  BY <1>1 DEF ProgressInv
<1>2. PICK r, a, root : r = y.request /\ a = y.call /\ root = TargetRoot(r) /\ n = y.next
  BY <1>0
<1>3. /\ a \in Calls[c] /\ r \in Requests(a) /\ a.data \in Seq(Data) /\ root \in Roots
      /\ Len(y.held) <= Len(Locations(r)) /\ Len(a.data) \in Nat /\ n - 1 \in Nat /\ (n + 1) - 1 = n
      /\ n + 1 \in Nat \ {0}
  <2>1. y.pc # "idle" /\ Len(y.held) <= Len(Locations(r))
    BY <1>1, <1>2 DEF ProgressInv
  <2>2. /\ a \in Calls[c] /\ r \in Requests(a) /\ a.data \in Seq(Data) /\ root \in Roots
    BY <1>1, <1>2, <2>1, TransferOf
  <2>3. Len(a.data) \in Nat
    BY <2>2
  <2>4. n - 1 \in Nat /\ (n + 1) - 1 = n /\ n + 1 \in Nat \ {0}
    BY <1>0
  <2> QED BY <2>1, <2>2, <2>3, <2>4
<1>4. /\ trees' = trees /\ mounted' = mounted /\ TargetRoot(r)' = root
  BY <1>2 DEF Chunk, contextVars, TargetRoot, Root
<1>5. FilesInv
  BY DEF TransferInv
<1> DEFINE Alone(z) == z.file # NoObject /\ z.alone /\ Len(z.held) = Len(Locations(r))
\* What is known of the file, if nobody disturbed the call.
<1>6. ASSUME Alone(y)
      PROVE  /\ y.root = root /\ Target(r) \in DOMAIN trees[root] /\ trees[root][Target(r)] = y.file
             /\ y.file \in DOMAIN files /\ files[y.file] \in Seq(Data) /\ Len(files[y.file]) \in Nat
             /\ r.rpc = "WriteFile" => files[y.file] = SubSeq(a.data, 1, n - 1) /\ n <= Len(a.data) + 1
             /\ r.rpc = "ReadFile" => y.chunks = SubSeq(files[y.file], 1, n - 1) /\ n <= Len(files[y.file]) + 1
  <2>1. /\ y.root = root /\ Target(r) \in DOMAIN trees[root] /\ trees[root][Target(r)] = y.file
        /\ r.rpc = "WriteFile" => files[y.file] = SubSeq(a.data, 1, n - 1) /\ n <= Len(a.data) + 1
        /\ r.rpc = "ReadFile" => y.chunks = SubSeq(files[y.file], 1, n - 1) /\ n <= Len(files[y.file]) + 1
    BY <1>1, <1>2, <1>6 DEF PartInv
  <2>2. y.file \in DOMAIN files
    BY <1>3, <1>5, <1>6, <2>1 DEF FilesInv, TypedTrees, TypedTree, Folder, NoObject
  <2>3. files[y.file] \in Seq(Data)
    BY <1>5, <2>2 DEF FilesInv, TypedFiles
  <2> QED BY <2>1, <2>2, <2>3
<1>7. CASE /\ r.rpc = "ReadFile" /\ UNCHANGED files
           /\ y.file # NoObject /\ n <= Len(files[y.file])
           /\ Set(c, [y EXCEPT !.chunks = Append(@, files[y.file][n]), !.next = @ + 1])
  <2>1. PICK x : x = [y EXCEPT !.chunks = Append(@, files[y.file][n]), !.next = @ + 1] /\ Set(c, x)
    BY <1>7
  <2>2. /\ x.pc = "stream" /\ x.call = a /\ x.request = r /\ x.file = y.file /\ x.next = n + 1
        /\ x.held = y.held /\ x.root = y.root /\ x.alone = y.alone
        /\ x.chunks = Append(y.chunks, files[y.file][n])
    BY <1>1, <1>2, <2>1 DEF Fields
  <2>3. ProgressInv(c, x)
    BY <1>1, <1>2, <1>3, <2>2 DEF ProgressInv
  <2>4. ASSUME Alone(x) PROVE x.chunks = SubSeq(files[x.file], 1, n) /\ n + 1 <= Len(files[x.file]) + 1
    <3>1. Alone(y)
      BY <2>2, <2>4
    <3>2. PICK f \in Seq(Data) : f = files[y.file] /\ y.chunks = SubSeq(f, 1, n - 1)
      BY <1>6, <1>7, <3>1
    <3>3. n \in 1 .. Len(f) /\ Len(f) \in Nat
      BY <1>7, <3>2
    <3>4. Append(SubSeq(f, 1, n - 1), f[n]) = SubSeq(f, 1, n)
      BY <3>3, Extended
    <3> QED BY <2>2, <3>2, <3>3, <3>4
  <2>5. PartInv(x)'
    <3> SUFFICES ASSUME Alone(x) PROVE PartInv(x)'
      BY <2>2 DEF PartInv
    <3>1. Alone(y)
      BY <2>2
    <3> HIDE DEF Alone
    <3> QED BY <1>3, <1>4, <1>6, <1>7, <2>2, <2>4, <3>1 DEF PartInv
  <2>6. FilesInv'
    BY <1>4, <1>5, <1>7, FilesStay DEF fileVars
  <2> QED BY <1>4, <1>7, <2>1, <2>3, <2>5, <2>6, Transferring
<1>8. CASE /\ r.rpc = "ReadFile" /\ UNCHANGED files
           /\ ~(y.file # NoObject /\ n <= Len(files[y.file]))
           /\ Set(c, [y EXCEPT !.pc = "release", !.chunks = Kept(a, @)])
  <2>1. PICK x : x = [y EXCEPT !.pc = "release", !.chunks = Kept(a, @)] /\ Set(c, x)
    BY <1>8
  <2>2. /\ x.pc = "release" /\ x.call = a /\ x.request = r /\ x.file = y.file
        /\ x.held = y.held /\ x.root = y.root /\ x.alone = y.alone /\ x.chunks = Kept(a, y.chunks)
    BY <1>1, <1>2, <2>1 DEF Fields
  <2>3. ProgressInv(c, x)
    BY <1>1, <1>2, <1>3, <2>2 DEF ProgressInv
  <2>4. ASSUME Alone(x) PROVE y.chunks = files[y.file]
    <3>1. Alone(y)
      BY <2>2, <2>4
    <3>2. PICK f \in Seq(Data) : f = files[y.file] /\ y.chunks = SubSeq(f, 1, n - 1) /\ n <= Len(f) + 1
      BY <1>6, <1>8, <3>1
    <3>3. n - 1 = Len(f)
      <4>1. PICK l \in Nat : l = Len(f)
        BY <3>2
      <4>2. ~(n <= l) /\ n <= l + 1
        BY <1>8, <3>1, <3>2, <4>1
      <4> QED BY <1>0, <4>1, <4>2
    <3> QED BY <3>2, <3>3, NoneAndAll
  <2>5. PartInv(x)'
    <3> SUFFICES ASSUME Alone(x) PROVE PartInv(x)'
      BY <2>2 DEF PartInv
    <3>1. Alone(y)
      BY <2>2
    <3> HIDE DEF Alone
    <3> QED BY <1>3, <1>4, <1>6, <1>8, <2>2, <2>4, <3>1 DEF PartInv
  <2>6. FilesInv'
    BY <1>4, <1>5, <1>8, FilesStay DEF fileVars
  <2> QED BY <1>4, <1>8, <2>1, <2>3, <2>5, <2>6, Transferring
<1>9. CASE /\ r.rpc = "WriteFile" /\ n <= Len(UploadIterator(a))
           /\ files' = [files EXCEPT ![y.file] = Append(@, UploadIterator(a)[n].data)]
           /\ SetDisturbing(c, [y EXCEPT !.next = @ + 1])
  <2>1. PICK x : x = [y EXCEPT !.next = @ + 1] /\ SetDisturbing(c, x)
    BY <1>9
  <2>2. /\ x.pc = "stream" /\ x.call = a /\ x.request = r /\ x.file = y.file /\ x.next = n + 1
        /\ x.held = y.held /\ x.root = y.root /\ x.alone = y.alone
    BY <1>1, <1>2, <2>1 DEF Fields
  <2>3. ProgressInv(c, x)
    BY <1>1, <1>2, <1>3, <2>2 DEF ProgressInv
  <2>4. n \in 1 .. Len(a.data) /\ UploadIterator(a)[n].data = a.data[n] /\ a.data[n] \in Data
    <3>1. Len(UploadIterator(a)) = Len(a.data) /\ DOMAIN a.data = 1 .. Len(a.data)
      BY <1>3 DEF UploadIterator
    <3>2. n \in 1 .. Len(a.data)
      BY <1>3, <1>9, <3>1
    <3> QED BY <1>3, <3>1, <3>2 DEF UploadIterator
  <2>5. PICK k : k = a.data[n] /\ k \in Data /\ files' = [files EXCEPT ![y.file] = Append(@, k)]
    BY <1>9, <2>4
  <2>6. FilesInv'
    <3>1. DOMAIN files' = DOMAIN files
      BY <2>5
    <3>2. ASSUME NEW m \in DOMAIN files PROVE files'[m] \in Seq(Data)
      <4>1. PICK f \in Seq(Data) : f = files[m]
        BY <1>5 DEF FilesInv, TypedFiles
      <4>2. files'[m] \in {f, Append(f, k)}
        BY <2>5, <4>1
      <4> QED BY <2>5, <4>1, <4>2
    <3> QED BY <1>4, <1>5, <3>1, <3>2 DEF FilesInv, TypedFiles, TypedTrees, TypedTree
  <2>7. ASSUME Alone(x) PROVE files'[x.file] = SubSeq(a.data, 1, n) /\ n + 1 <= Len(a.data) + 1
    <3>1. Alone(y)
      BY <2>2, <2>7
    <3>2. files'[y.file] = Append(SubSeq(a.data, 1, n - 1), a.data[n])
      BY <1>6, <1>9, <2>5, <3>1
    <3> QED BY <1>3, <2>2, <2>4, <3>2, Extended
  <2>8. PartInv(x)'
    <3> SUFFICES ASSUME Alone(x) PROVE PartInv(x)'
      BY <2>2 DEF PartInv
    <3>1. Alone(y)
      BY <2>2
    <3> HIDE DEF Alone
    <3> QED BY <1>3, <1>4, <1>6, <1>9, <2>2, <2>7, <3>1 DEF PartInv
  <2> QED BY <2>1, <2>3, <2>6, <2>8, Transferring
<1>10. CASE /\ r.rpc = "WriteFile" /\ n > Len(UploadIterator(a)) /\ UNCHANGED files
            /\ Set(c, [y EXCEPT !.pc = "release"])
  <2>1. PICK x : x = [y EXCEPT !.pc = "release"] /\ Set(c, x)
    BY <1>10
  <2>2. /\ x.pc = "release" /\ x.call = a /\ x.request = r /\ x.file = y.file /\ x.next = n
        /\ x.held = y.held /\ x.root = y.root /\ x.alone = y.alone
    BY <1>1, <1>2, <2>1 DEF Fields
  <2>3. ProgressInv(c, x)
    BY <1>1, <1>2, <1>3, <2>2 DEF ProgressInv
  <2>4. ASSUME Alone(x) PROVE files[x.file] = a.data
    <3>1. Alone(y)
      BY <2>2, <2>4
    <3>2. Len(UploadIterator(a)) = Len(a.data)
      BY <1>3 DEF UploadIterator
    <3>3. files[y.file] = SubSeq(a.data, 1, n - 1) /\ n <= Len(a.data) + 1
      BY <1>6, <1>10, <3>1
    <3>4. n - 1 = Len(a.data)
      BY <1>3, <1>10, <3>2, <3>3
    <3> QED BY <1>3, <2>2, <3>3, <3>4, NoneAndAll
  <2>5. PartInv(x)'
    <3> SUFFICES ASSUME Alone(x) PROVE PartInv(x)'
      BY <2>2 DEF PartInv
    <3>1. Alone(y)
      BY <2>2
    <3> HIDE DEF Alone
    <3> QED BY <1>3, <1>4, <1>6, <1>10, <2>2, <2>4, <3>1 DEF PartInv
  <2>6. FilesInv'
    BY <1>4, <1>5, <1>10, FilesStay DEF fileVars
  <2> QED BY <1>4, <1>10, <2>1, <2>3, <2>5, <2>6, Transferring
<1>11. \/ /\ r.rpc = "ReadFile" /\ UNCHANGED files
          /\ Set(c, IF y.file # NoObject /\ n <= Len(files[y.file])
                    THEN [y EXCEPT !.chunks = Append(@, files[y.file][n]), !.next = @ + 1]
                    ELSE [y EXCEPT !.pc = "release", !.chunks = Kept(a, @)])
       \/ /\ r.rpc = "WriteFile" /\ n <= Len(UploadIterator(a))
          /\ files' = [files EXCEPT ![y.file] = Append(@, UploadIterator(a)[n].data)]
          /\ SetDisturbing(c, [y EXCEPT !.next = @ + 1])
       \/ /\ r.rpc = "WriteFile" /\ n > Len(UploadIterator(a)) /\ UNCHANGED files
          /\ Set(c, [y EXCEPT !.pc = "release"])
  BY <1>1, <1>2 DEF Chunk
<1> HIDE DEF Alone
<1> QED BY <1>7, <1>8, <1>9, <1>10, <1>11

LEMMA TransferInit == ASSUME VfsAssumption, TreesAssumption, VfsInit PROVE TransferInv
<1>1. TypedFiles(files)
  BY DEF TreesAssumption, VfsInit, TypedFiles
<1>2. TypedTrees(trees, files)
  <2>1. DOMAIN trees = Roots
    BY DEF VfsInit
  <2>2. ASSUME NEW r \in Roots PROVE TypedTree(trees[r], files)
    <3>1. r[1] \in ContextNames
      BY DEF Roots
    <3>2. trees[r] = InitialTrees[r[1]] \/ trees[r] = [p \in {<<>>} |-> Folder]
      BY DEF VfsInit
    <3>3. files = InitialFiles
      BY DEF VfsInit
    <3> QED BY <3>1, <3>2, <3>3 DEF TreesAssumption, TypedTree, Folder
  <2> QED BY <2>1, <2>2 DEF TypedTrees
<1>3. ASSUME NEW c \in Clients PROVE ProgressInv(c, vfsCalls[c]) /\ PartInv(vfsCalls[c])
  <2>1. vfsCalls[c].pc = "idle" /\ vfsCalls[c].file = NoObject
    BY DEF VfsInit, Idle
  <2> QED BY <2>1 DEF ProgressInv, PartInv
<1> QED BY <1>1, <1>2, <1>3 DEF TransferInv, FilesInv

LEMMA TransferStep ==
    ASSUME CallsAssumption, ContextInv, TransferInv, [VfsNext]_vfsVars PROVE TransferInv'
<1>1. CASE UNCHANGED vfsVars
  <2>1. UNCHANGED <<mounted, trees, files, vfsCalls>>
    BY <1>1 DEF vfsVars
  <2>2. FilesInv'
    BY <2>1, FilesStay DEF TransferInv, fileVars
  <2>3. ASSUME NEW c \in Clients PROVE (ProgressInv(c, vfsCalls[c]) /\ PartInv(vfsCalls[c]))'
    <3>1. ProgressInv(c, vfsCalls[c]) /\ PartInv(vfsCalls[c])
      BY DEF TransferInv
    <3> QED BY <2>1, <3>1 DEF ProgressInv, PartInv, TargetRoot, Root
  <2> QED BY <2>2, <2>3 DEF TransferInv
<1>2. ASSUME NEW n \in Removable, VolumeAdded(n) \/ VolumeRemoved(n) PROVE TransferInv'
  BY <1>2, VolumesKeep
<1>3. ASSUME NEW c \in Clients,
             \/ \E a \in Calls[c] : Begin(c, a)
             \/ Lookup(c) \/ Take(c) \/ CopySource(c) \/ MoveSource(c) \/ RemoveSource(c) \/ MakeFolder(c)
             \/ Query(c) \/ OpenFile(c) \/ Chunk(c) \/ Release(c) \/ ReturnReply(c)
      PROVE  TransferInv'
  BY <1>3, BeginKeeps, LookupKeeps, TakeKeeps, CopyKeeps, MoveKeeps, RemoveKeeps, MakeFolderKeeps, QueryKeeps,
     OpenFileKeeps, ChunkKeeps, ReleaseKeeps, ReturnKeeps
<1> QED BY <1>1, <1>2, <1>3 DEF VfsNext

LEMMA TransfersFollow == ASSUME CallsAssumption, TransferInv PROVE TransfersAreWhole
<1> SUFFICES ASSUME NEW c \in Clients, Succeeded(vfsCalls[c]), vfsCalls[c].file # NoObject
             PROVE  LET call == vfsCalls[c]
                        a == call.call
                        t == trees[Root(Head(a.path))]
                        p == Tail(a.path)
                    IN  /\ IsFile(t, p)
                        /\ a.method = "upload" => files[t[p]] = a.data
                        /\ a.method = "download" => call.chunks = files[t[p]]
  BY DEF TransfersAreWhole
<1>1. PICK y : /\ y = vfsCalls[c] /\ Succeeded(y) /\ y.file # NoObject
               /\ ProgressInv(c, y) /\ PartInv(y)
  BY DEF TransferInv
<1>2. PICK r : r = y.request /\ r.rpc \in Streams /\ y.pc = "release"
  BY <1>1 DEF Succeeded, ProgressInv
<1>3. PICK a, root, p :
          /\ a = y.call /\ root = Root(Head(a.path)) /\ root = TargetRoot(r)
          /\ p = Tail(a.path) /\ p = Target(r)
          /\ r.rpc = "WriteFile" <=> a.method = "upload"
  BY <1>1, <1>2, TransferOf
<1>4. /\ p \in DOMAIN trees[root] /\ trees[root][p] = y.file
      /\ r.rpc = "WriteFile" => files[y.file] = a.data
      /\ r.rpc = "ReadFile" => y.chunks = Kept(a, files[y.file])
  BY <1>1, <1>2, <1>3 DEF PartInv, Succeeded
<1>5. a.method = "download" => r.rpc = "ReadFile" /\ Kept(a, files[y.file]) = files[y.file]
  BY <1>2, <1>3 DEF Streams, Kept
<1>6. IsFile(trees[root], p)
  BY <1>1, <1>4 DEF IsFile, Folder, NoObject
<1> QED BY <1>1, <1>3, <1>4, <1>5, <1>6

\* TransfersAreWhole: of a call that reports success and was alone with what it sees, an
\* upload has left in the file just the chunks that were sent, and a download has returned
\* just those of the file, in order (vfs-local-fileio.c++, and upload() and download() of the
\* Python client), whatever other clients do and whatever volumes come and go meanwhile.
THEOREM Transfers == VfsSpec => []TransfersAreWhole
<1> USE VfsAssumption, CallsAssumption, TreesAssumption
<1>1. VfsInit => TransferInv /\ ContextInv
  BY TransferInit, ContextInitInv
<1>2. (TransferInv /\ ContextInv) /\ [VfsNext]_vfsVars => (TransferInv /\ ContextInv)'
  BY TransferStep, ContextNextInv
<1>3. TransferInv => TransfersAreWhole
  BY TransfersFollow
<1> QED BY <1>1, <1>2, <1>3, PTL DEF VfsSpec

-----------------------------------------------------------------------------
(***************************************************************************)
(* Times and intervals                                                     *)
(***************************************************************************)
(* Division *)

LEMMA Distributes ==
    ASSUME NEW u \in Int, NEW m \in Int, NEW p \in Int
    PROVE  u * (m + p) = u * m + u * p
OBVIOUS

LEMMA Regroup ==
    ASSUME NEW u \in Int, NEW m \in Int, NEW p \in Int, NEW s \in Int, NEW a \in Int, NEW r \in Int,
           a = u * m, r = u * p + s
    PROVE  a + r = u * (m + p) + s
BY Distributes

LEMMA DivMod ==
    ASSUME NEW x \in Int, NEW u \in Nat \ {0}
    PROVE  /\ x \div u \in Int /\ x % u \in Int
           /\ x = u * (x \div u) + (x % u) /\ 0 <= x % u /\ x % u < u
OBVIOUS

LEMMA DivIs ==
    ASSUME NEW u \in Nat \ {0}, NEW x \in Int, NEW q \in Int, NEW r \in Int,
           0 <= r, r < u, x = u * q + r
    PROVE  x \div u = q /\ x % u = r
BY DivMod

LEMMA Whole ==
    ASSUME NEW u \in Nat \ {0}, NEW x \in Int, x % u = 0
    PROVE  \E k \in Int : x = u * k /\ k = x \div u
BY DivMod

LEMMA Multiple ==
    ASSUME NEW u \in Nat \ {0}, NEW k \in Int
    PROVE  (u * k) % u = 0 /\ (u * k) \div u = k
<1>1. u * k \in Int
  OBVIOUS
<1> QED BY <1>1, DivIs

\* Of two natural numbers, what one divides is not less.
LEMMA AtLeast ==
    ASSUME NEW u \in Nat \ {0}, NEW v \in Nat \ {0}, v % u = 0
    PROVE  v >= u /\ (v # u => v >= 2 * u)
<1>1. PICK k \in Int : v = u * k
  BY Whole
<1>2. k > 0
  BY <1>1
<1>3. k = 1 \/ k >= 2
  BY <1>2
<1>4. CASE k = 1
  BY <1>1, <1>4
<1>5. CASE k >= 2
  <2>1. u * k >= u * 2
    BY <1>5
  <2> QED BY <2>1, <1>1
<1> QED BY <1>3, <1>4, <1>5

\* A remainder of a multiple has the same remainder.
LEMMA ModMod ==
    ASSUME NEW u \in Nat \ {0}, NEW v \in Nat \ {0}, v % u = 0, NEW x \in Int
    PROVE  (x % v) % u = x % u
<1>1. PICK k \in Int : v = u * k
  BY Whole
<1>2. PICK q \in Int, r \in Int : x = v * q + r /\ r = x % v
  BY DivMod
<1>3. PICK p \in Int, s \in Int : r = u * p + s /\ s = r % u /\ 0 <= s /\ s < u
  BY <1>2, DivMod
<1>4. PICK m \in Int : v * q = u * m
  <2>1. k * q \in Int /\ v * q = u * (k * q)
    BY <1>1
  <2> QED BY <2>1
<1>5. x = u * (m + p) + s /\ m + p \in Int
  <2>1. x = v * q + r
    BY <1>2
  <2>2. r = u * p + s
    BY <1>3
  <2>3. x = u * (m + p) + s
    BY <2>1, <2>2, <1>4, Regroup
  <2> QED BY <2>3
<1>6. x % u = s
  BY <1>3, <1>5, DivIs
<1> QED BY <1>2, <1>3, <1>6

LEMMA Nested ==
    ASSUME NEW u \in Nat \ {0}, NEW v \in Nat \ {0}, v % u = 0, NEW x \in Int
    PROVE  x % v = ((x % v) \div u) * u + (x % u)
<1>1. PICK y \in Int : y = x % v
  BY DivMod
<1>2. y % u = x % u
  BY <1>1, ModMod
<1>3. y = u * (y \div u) + (y % u) /\ y \div u \in Int
  BY DivMod
<1>4. PICK k \in Int : k = y \div u
  BY <1>3
<1>5. u * k = k * u
  OBVIOUS
<1> QED BY <1>1, <1>2, <1>3, <1>4, <1>5

LEMMA Divided ==
    ASSUME NEW u \in Nat \ {0}, NEW x \in Int
    PROVE  \E q, r \in Int : q = x \div u /\ r = x % u /\ x = q * u + r
<1>1. PICK q \in Int, r \in Int : q = x \div u /\ r = x % u /\ x = u * q + r
  BY DivMod
<1>2. u * q = q * u
  OBVIOUS
<1> QED BY <1>1, <1>2

LEMMA Units ==
    ASSUME TimesAssumption
    PROVE  /\ Thousand \in Nat \ {0} /\ Milli \in Nat \ {0} /\ Second \in Nat \ {0} /\ Leap \in Nat \ {0}
           /\ Minute \in Nat \ {0} /\ Hour \in Nat \ {0} /\ Day \in Nat \ {0} /\ Year \in Nat \ {0}
           /\ Week \in Nat \ {0} /\ Month \in Nat \ {0}
           /\ Second = Milli * Milli /\ Leap = 4 * Year
           /\ Minute >= 2 * Second /\ Hour >= Minute /\ Day >= Hour /\ Year >= Day
<1>1. /\ Thousand \in Nat \ {0} /\ Milli \in Nat \ {0} /\ Thousand * Thousand \in Nat \ {0}
      /\ Minute \in Nat \ {0} /\ Hour \in Nat \ {0} /\ Day \in Nat \ {0} /\ Year \in Nat \ {0}
      /\ Week \in Nat \ {0} /\ Month \in Nat \ {0}
  BY DEF TimesAssumption, Milli
<1>2. Second \in Nat \ {0} /\ Second = Milli * Milli /\ Leap \in Nat \ {0} /\ Leap = 4 * Year
  BY <1>1 DEF Second, Milli, Leap
<1>3. Minute >= 2 * Second
  BY <1>1, <1>2, AtLeast DEF TimesAssumption
<1>4. Hour >= Minute /\ Day >= Hour /\ Year >= Day
  BY <1>1, AtLeast DEF TimesAssumption
<1> QED BY <1>1, <1>2, <1>3, <1>4

-----------------------------------------------------------------------------
(* Intervals as texts *)

LEMMA AbsIs ==
    ASSUME NEW x \in Int
    PROVE  Abs(x) \in Nat /\ x = IF x < 0 THEN -Abs(x) ELSE Abs(x)
BY DEF Abs

\* Units that are zero may be left out.
LEMMA CountKept ==
    ASSUME NEW all, NEW u
    PROVE  Count(Restrict(all, {w \in DOMAIN all : all[w] # 0}), u) = Count(all, u)
BY DEF Count, Restrict

\* The units of a text, and their sum.
Parts(style, r) ==
    IF style = "json" THEN [s |-> r]
    ELSE [y |-> r \div Year, d |-> (r % Year) \div Day, h |-> (r % Day) \div Hour,
          m |-> (r % Hour) \div Minute, s |-> r % Minute]
Ticks(n) == Count(n, "y") * Year + Count(n, "mo") * Month + Count(n, "w") * Week
               + Count(n, "d") * Day + Count(n, "h") * Hour + Count(n, "m") * Minute
               + Count(n, "s")
Styles == {"text", "iso", "json"}

LEMMA CountsOfParts ==
    ASSUME TimesAssumption, NEW style \in Styles, NEW r \in Int
    PROVE  /\ \A u : Count(Parts(style, r), u) \in Int
           /\ Count(Parts(style, r), "y") = IF style = "json" THEN 0 ELSE r \div Year
           /\ Count(Parts(style, r), "mo") = 0 /\ Count(Parts(style, r), "w") = 0
           /\ Count(Parts(style, r), "d") = IF style = "json" THEN 0 ELSE (r % Year) \div Day
           /\ Count(Parts(style, r), "h") = IF style = "json" THEN 0 ELSE (r % Day) \div Hour
           /\ Count(Parts(style, r), "m") = IF style = "json" THEN 0 ELSE (r % Hour) \div Minute
           /\ Count(Parts(style, r), "s") = IF style = "json" THEN r ELSE r % Minute
<1>1. /\ r \div Year \in Int /\ (r % Year) \div Day \in Int /\ (r % Day) \div Hour \in Int
      /\ (r % Hour) \div Minute \in Int /\ r % Minute \in Int
  BY Units, DivMod
<1>2. CASE style = "json"
  BY <1>2 DEF Parts, Count
<1>3. CASE style # "json"
  <2>1. PICK y, e, h, m, t : /\ y = r \div Year /\ e = (r % Year) \div Day /\ h = (r % Day) \div Hour
                             /\ m = (r % Hour) \div Minute /\ t = r % Minute
    OBVIOUS
  <2>2. Parts(style, r) = [y |-> y, d |-> e, h |-> h, m |-> m, s |-> t]
    BY <1>3, <2>1 DEF Parts
  <2>3. \A u : Count(Parts(style, r), u) \in {y, e, h, m, t, 0}
    BY <2>2 DEF Count
  <2>4. /\ Count(Parts(style, r), "y") = y /\ Count(Parts(style, r), "mo") = 0
        /\ Count(Parts(style, r), "w") = 0 /\ Count(Parts(style, r), "d") = e
        /\ Count(Parts(style, r), "h") = h /\ Count(Parts(style, r), "m") = m
        /\ Count(Parts(style, r), "s") = t
    BY <2>2 DEF Count
  <2> QED BY <1>1, <1>3, <2>1, <2>3, <2>4
<1> QED BY <1>2, <1>3

LEMMA SumOfParts ==
    ASSUME TimesAssumption, NEW style \in Styles, NEW r \in Int
    PROVE  Ticks(Parts(style, r)) = r
<1>1. CASE style = "json"
  <2>1. Ticks(Parts(style, r)) = 0 * Year + 0 * Month + 0 * Week + 0 * Day + 0 * Hour + 0 * Minute + r
    BY <1>1, CountsOfParts DEF Ticks
  <2> QED BY <2>1, Units
<1>2. CASE style # "json"
  <2>0. /\ Year \in Nat \ {0} /\ Day \in Nat \ {0} /\ Hour \in Nat \ {0} /\ Minute \in Nat \ {0}
        /\ Year % Day = 0 /\ Day % Hour = 0 /\ Hour % Minute = 0 /\ r \in Int
    BY Units DEF TimesAssumption
  <2>1. PICK y \in Int, a \in Int : y = r \div Year /\ a = r % Year /\ r = y * Year + a
    BY <2>0, Divided, Zenon
  <2>2. PICK e \in Int, b \in Int : e = (r % Year) \div Day /\ b = r % Day /\ r % Year = e * Day + b
    <3>1. Day \in Nat \ {0} /\ Year \in Nat \ {0} /\ Year % Day = 0 /\ r \in Int
      BY <2>0
    <3>2. r % Year = ((r % Year) \div Day) * Day + (r % Day)
      BY <3>1, Nested
    <3>3. r % Year \in Int /\ r % Day \in Int
      BY <3>1, DivMod
    <3>4. (r % Year) \div Day \in Int
      BY <3>1, <3>3, DivMod
    <3> QED BY <3>2, <3>3, <3>4
  <2>3. PICK h \in Int, c \in Int : h = (r % Day) \div Hour /\ c = r % Hour /\ r % Day = h * Hour + c
    <3>1. Hour \in Nat \ {0} /\ Day \in Nat \ {0} /\ Day % Hour = 0 /\ r \in Int
      BY <2>0
    <3>2. r % Day = ((r % Day) \div Hour) * Hour + (r % Hour)
      BY <3>1, Nested
    <3>3. r % Day \in Int /\ r % Hour \in Int
      BY <3>1, DivMod
    <3>4. (r % Day) \div Hour \in Int
      BY <3>1, <3>3, DivMod
    <3> QED BY <3>2, <3>3, <3>4
  <2>4. PICK m \in Int, t \in Int : m = (r % Hour) \div Minute /\ t = r % Minute /\ r % Hour = m * Minute + t
    <3>1. Minute \in Nat \ {0} /\ Hour \in Nat \ {0} /\ Hour % Minute = 0 /\ r \in Int
      BY <2>0
    <3>2. r % Hour = ((r % Hour) \div Minute) * Minute + (r % Minute)
      BY <3>1, Nested
    <3>3. r % Hour \in Int /\ r % Minute \in Int
      BY <3>1, DivMod
    <3>4. (r % Hour) \div Minute \in Int
      BY <3>1, <3>3, DivMod
    <3> QED BY <3>2, <3>3, <3>4
  <2>5. Ticks(Parts(style, r)) = y * Year + 0 * Month + 0 * Week + e * Day + h * Hour + m * Minute + t
    BY <1>2, <2>1, <2>2, <2>3, <2>4, CountsOfParts DEF Ticks
  <2>6. 0 * Month = 0 /\ 0 * Week = 0
    BY Units
  <2>7. r = y * Year + a /\ a = e * Day + b /\ b = h * Hour + c /\ c = m * Minute + t
    BY <2>1, <2>2, <2>3, <2>4
  <2>8. /\ y * Year \in Int /\ e * Day \in Int /\ h * Hour \in Int /\ m * Minute \in Int
    BY Units
  <2> QED BY <2>5, <2>6, <2>7, <2>8
<1> QED BY <1>1, <1>2

\* An interval of up to four years is as it was; any is some number of ticks.
LEMMA TextReads ==
    ASSUME TimesAssumption, NEW style \in Styles, NEW x \in Int
    PROVE  LET i == IntervalFromText(IntervalText(style, x)) IN
           /\ i = Raise \/ \E v \in Int : i = Interval(v)
           /\ Abs(x) <= Leap /\ style \in {"iso", "json"} /\ (style = "iso" => x # 0) => i = Interval(x)
<1> DEFINE a == Abs(x)
           r == IF a > Leap THEN a - Day * (a \div Leap) ELSE a
           all == Parts(style, r)
           parts == Restrict(all, {w \in DOMAIN all : all[w] # 0})
           n == IF DOMAIN parts = {} /\ style # "iso" THEN [s |-> 0] ELSE parts
           t == IntervalText(style, x)
           sum == Ticks(n)
           leap == Day * (Count(n, "y") \div (Leap \div Second))
<1>1. a \in Nat /\ x = IF x < 0 THEN -a ELSE a
  BY AbsIs
<1>2. r \in Int
  <2>1. a \div Leap \in Int
    BY <1>1, Units, DivMod
  <2> QED BY <1>1, <2>1, Units
<1>3. t = [neg |-> x < 0, p |-> style = "iso", n |-> n]
  BY DEF IntervalText, Parts
<1>4. IntervalFromText(t) = IF DOMAIN n = {} \/ (style # "iso" /\ DOMAIN n \cap DateUnits # {}) THEN Raise
                            ELSE Interval(IF x < 0 THEN -(sum + leap) ELSE sum + leap)
  <2> HIDE DEF n, t
  <2>1. t.n = n /\ t.p = (style = "iso") /\ t.neg = (x < 0)
    BY <1>3, Zenon
  <2> QED BY <2>1 DEF IntervalFromText, Ticks
<1>5. \A u : Count(n, u) = Count(all, u)
  <2> SUFFICES ASSUME NEW u PROVE Count(n, u) = Count(all, u)
    OBVIOUS
  <2>1. Count(parts, u) = Count(all, u)
    BY CountKept
  <2>2. DOMAIN parts = {} => Count(parts, u) = 0
    BY DEF Count
  <2>3. Count([s |-> 0], u) = 0
    BY DEF Count
  <2> QED BY <2>1, <2>2, <2>3
<1>6. sum = r /\ Count(n, "y") \in Int
  <2> HIDE DEF n, all, r
  <2>1. Ticks(n) = Ticks(all)
    BY <1>5 DEF Ticks
  <2>2. Ticks(all) = r /\ Count(all, "y") \in Int
    BY <1>2, SumOfParts, CountsOfParts DEF all
  <2> QED BY <2>1, <2>2, <1>5
<1>7. Leap \div Second \in Nat \ {0} /\ Leap \div Second > 4
  <2>0. Second \in Nat \ {0} /\ Leap \in Int
    BY Units
  <2>1. PICK q \in Int, e \in Int : q = Leap \div Second /\ Leap = Second * q + e /\ e < Second
    BY <2>0, DivMod
  <2>2. Leap >= 8 * Second
    BY Units
  <2>3. q > 4
    <3>1. Second * q > 7 * Second
      BY <2>1, <2>2, Units
    <3>2. q <= 4 => Second * q <= Second * 4
      BY Units
    <3> QED BY <3>1, <3>2, Units
  <2> QED BY <2>1, <2>3
<1>8. leap \in Int
  <2>1. Count(n, "y") \div (Leap \div Second) \in Int
    BY <1>6, <1>7, DivMod
  <2> QED BY <2>1, Units
<1>9. IntervalFromText(t) = Raise \/ \E v \in Int : IntervalFromText(t) = Interval(v)
  <2>1. sum + leap \in Int /\ -(sum + leap) \in Int
    BY <1>2, <1>6, <1>8
  <2> HIDE DEF sum, leap, t, n
  <2> QED BY <1>4, <2>1
<1>10. ASSUME a <= Leap, style \in {"iso", "json"}, style = "iso" => x # 0
       PROVE  IntervalFromText(t) = Interval(x)
  <2>1. r = a
    BY <1>1, <1>10, Units
  <2>2. DOMAIN n # {}
    <3>1. ASSUME style = "iso", DOMAIN n = {} PROVE FALSE
      <4>1. \A u : Count(n, u) = 0
        BY <3>1 DEF Count
      <4>2. Ticks(n) = 0
        <5> HIDE DEF n
        <5>1. Ticks(n) = 0 * Year + 0 * Month + 0 * Week + 0 * Day + 0 * Hour + 0 * Minute + 0
          BY <4>1 DEF Ticks
        <5> QED BY <5>1, Units
      <4> QED BY <1>1, <1>6, <1>10, <2>1, <3>1, <4>2
    <3>2. CASE style = "json"
      BY <3>2
    <3> QED BY <1>10, <3>1, <3>2
  <2>3. style = "json" => DOMAIN n \subseteq {"s"}
    BY DEF Parts, Restrict
  <2>4. leap = 0
    <3>1. PICK y \in Int : y = Count(n, "y") /\ (style = "json" => y = 0) /\ (style = "iso" => y = a \div Year)
      <4>1. Count(n, "y") = IF style = "json" THEN 0 ELSE r \div Year
        <5> HIDE DEF n, r
        <5> QED BY <1>2, <1>5, CountsOfParts
      <4> HIDE DEF n, r, a
      <4> QED BY <1>6, <1>10, <2>1, <4>1
    <3>2. a \div Year >= 0 /\ a \div Year <= 4
      <4>0. Year \in Nat \ {0} /\ a \in Int
        BY <1>1, Units
      <4> HIDE DEF a
      <4>1. PICK q \in Int, e \in Int : q = a \div Year /\ a = Year * q + e /\ 0 <= e /\ e < Year
        BY <4>0, DivMod
      <4>2. Year * q <= 4 * Year /\ Year * q > -Year
        BY <1>1, <1>10, <4>1, Units
      <4>3. (q >= 5 => Year * q >= Year * 5) /\ (q <= -1 => Year * q <= Year * (-1))
        BY Units
      <4> QED BY <4>1, <4>2, <4>3, Units
    <3>3. 0 <= y /\ y <= 4
      BY <1>10, <3>1, <3>2
    <3>4. y \div (Leap \div Second) = 0
      <4>1. PICK k \in Nat \ {0} : k = Leap \div Second /\ k > 4
        BY <1>7
      <4>2. y = k * 0 + y
        BY <3>1
      <4> QED BY <3>3, <4>1, <4>2, DivIs
    <3> HIDE DEF n
    <3> QED BY <3>1, <3>4, Units
  <2>5. IntervalFromText(t) = Interval(IF x < 0 THEN -(sum + leap) ELSE sum + leap)
    <3> HIDE DEF sum, leap, n, t
    <3> QED BY <1>4, <1>10, <2>2, <2>3 DEF DateUnits
  <2>6. sum + leap = a
    <3> HIDE DEF sum, leap, r, a
    <3> QED BY <1>1, <1>6, <2>1, <2>4
  <2> HIDE DEF sum, leap, t, a, r
  <2> QED BY <1>1, <2>5, <2>6
<1> HIDE DEF sum, leap, n, r, parts, all
<1> QED BY <1>9, <1>10

-----------------------------------------------------------------------------
(* Intervals in every form *)

LEMMA TruncIs == ASSUME NEW x \in Int, NEW u \in Nat \ {0} PROVE Trunc(x, u) \in Int
<1>1. x \div u \in Int /\ (-x) \div u \in Int
  BY DivMod
<1> QED BY <1>1 DEF Trunc

\* Seconds and a fraction are exact.
LEMMA SplitReads == ASSUME TimesAssumption, NEW x \in Int PROVE TicksOf(Split(x)) = x
<1>1. PICK q \in Int : q = Trunc(x, Second)
  BY Units, TruncIs
<1>2. TicksOf(Split(x)) = q * Second + (x - Second * q)
  BY <1>1 DEF TicksOf, Split
<1>3. q * Second = Second * q /\ Second * q \in Int
  BY Units
<1> QED BY <1>2, <1>3

Exact == {"timedelta", "duration", "number", "interval"}

LEMMA IntervalReads ==
    ASSUME TimesAssumption, NEW x \in Int, NEW kind \in IntervalForms \cup OperandKinds
    PROVE  LET i == IntervalFrom(WriteAs(kind, x)) IN
           /\ i = Raise \/ \E v \in Int : i = Interval(v)
           /\ kind \in Exact => i = Interval(x)
           /\ kind = "milliseconds" => i = Interval(Trunc(x, Milli) * Milli)
           /\ Abs(x) <= Leap /\ kind \in {"iso", "json"} /\ (kind = "iso" => x # 0) => i = Interval(x)
<1> DEFINE f == WriteAs(kind, x)
<1>1. f.k = kind /\ f.to = "interval"
  BY DEF WriteAs
<1>2. CASE kind \in Styles
  <2>1. f.v = IntervalText(kind, x)
    BY <1>2 DEF WriteAs, Styles
  <2>2. IntervalFrom(f) = IntervalFromText(IntervalText(kind, x))
    BY <1>1, <1>2, <2>1 DEF IntervalFrom, Styles
  <2>3. kind \notin Exact /\ kind # "milliseconds"
    BY <1>2 DEF Styles, Exact
  <2> HIDE DEF f
  <2>4. /\ IntervalFrom(f) = Raise \/ \E v \in Int : IntervalFrom(f) = Interval(v)
        /\ Abs(x) <= Leap /\ kind \in {"iso", "json"} /\ (kind = "iso" => x # 0) => IntervalFrom(f) = Interval(x)
    BY <1>2, <2>2, TextReads
  <2> QED BY <2>3, <2>4 DEF f
<1>3. CASE kind \in {"timedelta", "number", "interval"}
  <2>1. IntervalFrom(f) = Interval(x)
    BY <1>1, <1>3 DEF WriteAs, IntervalFrom
  <2> HIDE DEF f
  <2> QED BY <1>3, <2>1 DEF f
<1>4. CASE kind = "duration"
  <2>1. IntervalFrom(f) = Interval(TicksOf(Split(x)))
    BY <1>1, <1>4 DEF WriteAs, IntervalFrom
  <2> HIDE DEF f
  <2> QED BY <1>4, <2>1, SplitReads DEF f
<1>5. CASE kind = "milliseconds"
  <2>1. IntervalFrom(f) = Interval(Trunc(x, Milli) * Milli)
    BY <1>1, <1>5 DEF WriteAs, IntervalFrom
  <2>2. Trunc(x, Milli) * Milli \in Int
    <3>1. Milli \in Nat \ {0}
      BY Units
    <3>2. Trunc(x, Milli) \in Int
      BY <3>1, TruncIs
    <3> QED BY <3>1, <3>2
  <2> HIDE DEF f
  <2> QED BY <1>5, <2>1, <2>2 DEF Exact, f
<1>6. CASE kind = "Interval"
  <2>1. IntervalFrom(f) = DecodeInterval(EncodeInterval(x))
    BY <1>1, <1>6 DEF WriteAs, IntervalFrom
  <2>2. x \div Day \in Int /\ (x \div Day) * Day \in Int
    BY Units, DivMod
  <2>3. CASE x % Day = 0
    <3>1. DecodeInterval(EncodeInterval(x)) = Interval((x \div Day) * Day)
      BY <2>3 DEF DecodeInterval, EncodeInterval
    <3> HIDE DEF f
    <3> QED BY <1>6, <2>1, <2>2, <3>1 DEF Exact, f
  <2>4. CASE x % Day # 0
    <3>1. DecodeInterval(EncodeInterval(x)) = Raise
      BY <2>4 DEF DecodeInterval, EncodeInterval
    <3> HIDE DEF f
    <3> QED BY <1>6, <2>1, <3>1 DEF Exact, f
  <2> QED BY <2>3, <2>4
<1> HIDE DEF f
<1> QED BY <1>2, <1>3, <1>4, <1>5, <1>6 DEF IntervalForms, OperandKinds, Styles

-----------------------------------------------------------------------------
(* Scaled numbers *)

\* The function that Scaled is defined by, up to a number, and for all.
Limit == Thousand * Year
ScalesTo(N) == {f \in [0 .. N -> Nat] :
    \A n \in 0 .. N : f[n] = IF n >= Limit THEN f[n \div Thousand] ELSE n}

LEMMA Quotients ==
    ASSUME TimesAssumption
    PROVE  /\ Limit \in Nat \ {0}
           /\ \A n \in Nat : n >= Limit => n \div Thousand \in Nat /\ n \div Thousand < n
<1>1. Limit \in Nat \ {0}
  BY Units DEF Limit
<1>2. ASSUME NEW n \in Nat, n >= Limit
      PROVE  n \div Thousand \in Nat /\ n \div Thousand < n
  <2>1. PICK T \in Nat \ {0} : T = Thousand /\ T >= 2
    BY DEF TimesAssumption
  <2>2. PICK q \in Int, r \in Int : q = n \div T /\ n = T * q + r /\ 0 <= r /\ r < T
    <3>1. /\ n \div T \in Int /\ n % T \in Int
          /\ n = T * (n \div T) + (n % T) /\ 0 <= n % T /\ n % T < T
      BY DivMod
    <3> QED BY <3>1
  <2>3. q >= 0
    <3>1. q <= -1 => T * q <= T * (-1)
      BY <2>1
    <3> QED BY <2>1, <2>2, <3>1
  <2>4. T * q >= 2 * q
    BY <2>1, <2>3
  <2>5. q < n
    BY <1>1, <1>2, <2>2, <2>3, <2>4
  <2> QED BY <2>1, <2>2, <2>3, <2>5
<1> QED BY <1>1, <1>2

\* A set of numbers that is not empty has a least one.
LEMMA LeastNat ==
    ASSUME NEW S \in SUBSET Nat, S # {}
    PROVE  \E x \in S : \A y \in S : x <= y
<1> DEFINE Less == {ss \in Nat \X Nat : ss[1] < ss[2]}
<1>1. IsWellFoundedOn(Less, Nat)
  BY NatLessThanWellFounded DEF OpToRel
<1>2. PICK x \in S : \A y \in S : ~ (<<y, x>> \in Less)
  <2> HIDE DEF Less
  <2> QED BY <1>1, WFMin, Zenon
<1>3. \A y \in S : ~ (y < x)
  BY <1>2
<1> QED BY <1>3

LEMMA ScalesUnique ==
    ASSUME TimesAssumption, NEW M \in Nat, NEW N \in Nat, M <= N,
           NEW f \in ScalesTo(M), NEW g \in ScalesTo(N)
    PROVE  \A n \in 0 .. M : f[n] = g[n]
<1> DEFINE S == {n \in 0 .. M : f[n] # g[n]}
<1> SUFFICES ASSUME S # {} PROVE FALSE
  OBVIOUS
<1>1. PICK n \in S : \A m \in S : n <= m
  <2> S \in SUBSET Nat
    OBVIOUS
  <2> HIDE DEF S
  <2> QED BY LeastNat
<1>2. CASE n >= Limit
  <2>1. PICK m \in Nat : m = n \div Thousand /\ m < n
    <3>1. n \in Nat
      BY <1>1
    <3>2. n \div Thousand \in Nat /\ n \div Thousand < n
      BY <1>2, <3>1, Quotients, Zenon
    <3> QED BY <3>2, Zenon
  <2>2. f[m] = g[m]
    BY <1>1, <2>1
  <2>3. f[n] = f[m] /\ g[n] = g[m]
    BY <1>2, <2>1 DEF ScalesTo
  <2> QED BY <2>2, <2>3
<1>3. CASE ~(n >= Limit)
  <2>1. n \in 0 .. M /\ n \in 0 .. N
    BY <1>1
  <2>2. f[n] = n
    BY <1>3, <2>1 DEF ScalesTo
  <2>3. g[n] = n
    BY <1>3, <2>1 DEF ScalesTo
  <2> QED BY <1>1, <2>2, <2>3
<1> QED BY <1>2, <1>3

LEMMA ScalesExist == ASSUME TimesAssumption PROVE \A N \in Nat : ScalesTo(N) # {}
<1> DEFINE S == {N \in Nat : ScalesTo(N) = {}}
<1> SUFFICES ASSUME S # {} PROVE FALSE
  OBVIOUS
<1>1. PICK N \in S : \A m \in S : N <= m
  <2> HIDE DEF S
  <2> S \in SUBSET Nat
    BY DEF S
  <2> QED BY LeastNat
<1>2. N # 0
  <2> SUFFICES ASSUME N = 0 PROVE FALSE
    OBVIOUS
  <2>1. [n \in 0 .. 0 |-> n] \in ScalesTo(0)
    BY Quotients DEF ScalesTo
  <2> QED BY <2>1
<1>3. PICK f : f \in ScalesTo(N - 1)
  <2>1. N - 1 \in Nat /\ ~(N <= N - 1)
    BY <1>1, <1>2
  <2> QED BY <1>1, <2>1
<1>a. N \in Nat /\ f \in [0 .. N - 1 -> Nat]
  BY <1>1, <1>3 DEF ScalesTo
<1>b. ASSUME NEW n \in 0 .. N, n >= Limit PROVE n \div Thousand \in 0 .. N - 1 /\ n \div Thousand < n
  BY <1>a, <1>b, Quotients
<1> DEFINE g == [n \in 0 .. N |-> IF n = N THEN IF N >= Limit THEN f[N \div Thousand] ELSE N ELSE f[n]]
<1>4. g \in [0 .. N -> Nat]
  <2>1. N >= Limit => f[N \div Thousand] \in Nat
    <3>1. N \in 0 .. N
      BY <1>a
    <3>2. N >= Limit => N \div Thousand \in 0 .. N - 1
      BY <1>b, <3>1
    <3> QED BY <1>a, <3>2
  <2>2. \A n \in 0 .. N : n # N => n \in 0 .. N - 1
    BY <1>a
  <2> QED BY <2>1, <2>2, <1>a
<1>5. \A n \in 0 .. N : g[n] = IF n >= Limit THEN g[n \div Thousand] ELSE n
  <2> SUFFICES ASSUME NEW n \in 0 .. N PROVE g[n] = IF n >= Limit THEN g[n \div Thousand] ELSE n
    OBVIOUS
  <2>1. n >= Limit => n \div Thousand \in 0 .. N - 1 /\ n \div Thousand # N /\ n \div Thousand \in 0 .. N
    BY <1>a, <1>b
  <2>2. n >= Limit => g[n \div Thousand] = f[n \div Thousand]
    BY <2>1
  <2>3. CASE n = N
    BY <2>2, <2>3
  <2>4. CASE n # N
    <3>1. n \in 0 .. N - 1
      BY <1>a, <2>4
    <3>2. f[n] = IF n >= Limit THEN f[n \div Thousand] ELSE n
      BY <1>3, <3>1 DEF ScalesTo
    <3>3. g[n] = f[n]
      BY <2>4
    <3> QED BY <2>2, <3>2, <3>3
  <2> QED BY <2>3, <2>4
<1>6. g \in ScalesTo(N)
  BY <1>4, <1>5 DEF ScalesTo
<1> QED BY <1>1, <1>6

\* Scaled is what its definition says.
LEMMA ScaledIs ==
    ASSUME TimesAssumption
    PROVE  \A n \in Nat : Scaled[n] = IF n >= Limit THEN Scaled[n \div Thousand] ELSE n
<1> DEFINE F(N) == CHOOSE f : f \in ScalesTo(N)
           G == [n \in Nat |-> F(n)[n]]
<1>1. ASSUME NEW n \in Nat PROVE F(n) \in ScalesTo(n)
  BY ScalesExist
<1>2. G = [n \in Nat |-> IF n >= Limit THEN G[n \div Thousand] ELSE n]
  <2> SUFFICES ASSUME NEW n \in Nat PROVE G[n] = IF n >= Limit THEN G[n \div Thousand] ELSE n
    <3> HIDE DEF F
    <3> QED OBVIOUS
  <2>1. F(n)[n] = IF n >= Limit THEN F(n)[n \div Thousand] ELSE n
    <3> HIDE DEF F
    <3> QED BY <1>1 DEF ScalesTo
  <2>2. CASE n >= Limit
    <3>1. PICK m \in Nat : m = n \div Thousand /\ m < n
      BY <2>2, Quotients
    <3>2. F(m)[m] = F(n)[m]
      <4> HIDE DEF F
      <4>1. F(m) \in ScalesTo(m) /\ F(n) \in ScalesTo(n) /\ m <= n /\ m \in 0 .. m
        BY <1>1, <3>1
      <4> QED BY <4>1, ScalesUnique
    <3> QED BY <2>1, <2>2, <3>1, <3>2
  <2>3. CASE ~(n >= Limit)
    BY <2>1, <2>3
  <2> QED BY <2>2, <2>3
<1>3. Scaled = [n \in Nat |-> IF n >= Limit THEN Scaled[n \div Thousand] ELSE n]
  <2> HIDE DEF G
  <2> QED BY <1>2 DEF Scaled, Limit
<1> QED BY <1>3

\* A number of the next smaller unit is scaled to the same.
LEMMA ScaleUp ==
    ASSUME TimesAssumption, NEW n \in Nat, n >= Year
    PROVE  /\ Thousand * n \in Nat /\ Thousand * n >= Year
           /\ Scaled[Thousand * n] = Scaled[n]
<1>1. PICK T \in Nat \ {0} : T = Thousand /\ T >= 2
  BY DEF TimesAssumption
<1>2. T * n \in Nat /\ T * n >= T * Year /\ T * Year >= Year
  BY <1>1, Units
<1>3. (T * n) \div T = n
  BY <1>1, Multiple
<1>4. T * n >= Limit
  BY <1>1, <1>2 DEF Limit
<1>5. Scaled[T * n] = Scaled[n]
  <2>1. PICK m \in Nat : m = T * n
    BY <1>2
  <2>2. Scaled[m] = Scaled[m \div T]
    BY <1>1, <1>4, <2>1, ScaledIs
  <2> QED BY <1>3, <2>1, <2>2
<1> QED BY <1>1, <1>2, <1>5, Units

LEMMA Unscaled == ASSUME TimesAssumption, NEW n \in Nat, n < Limit PROVE Scaled[n] = n
<1>1. ~(n >= Limit)
  BY Quotients
<1> QED BY <1>1, ScaledIs

-----------------------------------------------------------------------------
(* What is below a unit *)

Cut(p, u) == (p \div u) * u

LEMMA CutIs ==
    ASSUME NEW u \in Nat \ {0}, NEW p \in Int
    PROVE  /\ Cut(p, u) \in Int /\ Cut(p, u) <= p
           /\ \A b \in Int : b % u = 0 => (b <= p <=> b <= Cut(p, u))
<1>1. PICK m \in Int, r \in Int : m = p \div u /\ p = m * u + r /\ 0 <= r /\ r < u
  <2>1. p \div u \in Int /\ p % u \in Int /\ 0 <= p % u /\ p % u < u
    BY DivMod
  <2>2. PICK q, e \in Int : q = p \div u /\ e = p % u /\ p = q * u + e
    BY Divided
  <2> QED BY <2>1, <2>2
<1>2. Cut(p, u) = m * u /\ m * u \in Int
  BY <1>1 DEF Cut
<1>3. ASSUME NEW b \in Int, b % u = 0, b <= p PROVE b <= m * u
  <2>1. PICK k \in Int : b = u * k
    BY <1>3, Whole
  <2>2. CASE k <= m
    <3>1. u * k <= u * m /\ u * m = m * u
      BY <2>2
    <3> QED BY <2>1, <3>1, <1>2
  <2>3. CASE k >= m + 1
    <3>1. u * k >= u * (m + 1) /\ u * (m + 1) = m * u + u
      BY <2>3
    <3> QED BY <1>1, <1>2, <1>3, <2>1, <3>1
  <2> QED BY <2>2, <2>3
<1> QED BY <1>1, <1>2, <1>3

LEMMA CutOfNat ==
    ASSUME NEW u \in Nat \ {0}, NEW p \in Nat
    PROVE  Cut(p, u) \in Nat /\ p \div u \in Nat
<1>1. 0 % u = 0
  BY Multiple
<1>2. Cut(p, u) \in Int /\ 0 <= Cut(p, u)
  BY <1>1, CutIs
<1>3. PICK k \in Int : k = p \div u
  BY DivMod
<1>4. k >= 0
  <2>1. k <= -1 => k * u <= (-1) * u
    OBVIOUS
  <2> QED BY <1>2, <1>3, <2>1 DEF Cut
<1> QED BY <1>2, <1>3, <1>4

LEMMA CutByOne == \A p \in Int : Cut(p, 1) = p
<1> SUFFICES ASSUME NEW p \in Int PROVE Cut(p, 1) = p
  OBVIOUS
<1>1. p \div 1 = p
  <2>1. p = 1 * p + 0
    OBVIOUS
  <2> QED BY <2>1, DivIs
<1> QED BY <1>1 DEF Cut

LEMMA SumOfMultiples ==
    ASSUME NEW u \in Nat \ {0}, NEW a \in Int, NEW b \in Int, a % u = 0, b % u = 0
    PROVE  (a + b) % u = 0 /\ (a - b) % u = 0 /\ (-a) % u = 0
<1>1. PICK j \in Int : a = u * j
  BY Whole
<1>2. PICK k \in Int : b = u * k
  BY Whole
<1>3. PICK l \in Int, m \in Int, n \in Int : l = j + k /\ m = j - k /\ n = -j
  OBVIOUS
<1>5. a + b = u * l /\ a - b = u * m /\ -a = u * n
  BY <1>1, <1>2, <1>3
<1>4. (u * l) % u = 0 /\ (u * m) % u = 0 /\ (u * n) % u = 0
  BY Multiple
<1> QED BY <1>4, <1>5

\* What a multiple of another unit is a multiple of.
LEMMA Finer ==
    ASSUME NEW u \in Nat \ {0}, NEW v \in Nat \ {0}, v % u = 0, NEW x \in Int, x % v = 0
    PROVE  x % u = 0
<1>1. (x % v) % u = x % u
  BY ModMod
<1>2. 0 % u = 0
  BY Multiple
<1> QED BY <1>1, <1>2

LEMMA Zones ==
    ASSUME TimesAssumption, ZonesAssumption, NEW u \in {Milli, Second}
    PROVE  /\ u \in Nat \ {0}
           /\ Timezone \in Int /\ Altzone \in Int /\ SummerFrom \in Int /\ SummerTo \in Int
           /\ Timezone % u = 0 /\ Altzone % u = 0 /\ SummerFrom % u = 0 /\ SummerTo % u = 0
<1>1. /\ Milli \in Nat \ {0} /\ Second \in Nat \ {0} /\ Minute \in Nat \ {0} /\ Second = Milli * Milli
      /\ Minute % Second = 0
  BY Units DEF TimesAssumption
<1>2. Second % Milli = 0
  BY <1>1, Multiple
<1>3. Second % Second = 0
  <2>1. Second = Second * 1
    BY <1>1
  <2> QED BY <1>1, <2>1, Multiple
<1>4. Timezone \in Int /\ Altzone \in Int /\ SummerFrom \in Int /\ SummerTo \in Int
  BY DEF TimesAssumption
<1>5. /\ Timezone % Minute = 0 /\ Altzone % Minute = 0
      /\ SummerFrom % Second = 0 /\ SummerTo % Second = 0
  BY DEF ZonesAssumption
<1>6. Timezone % Second = 0 /\ Altzone % Second = 0
  BY <1>1, <1>4, <1>5, Finer, ZenonT(30)
<1>7. CASE u = Second
  BY <1>1, <1>4, <1>5, <1>6, <1>7
<1>8. CASE u = Milli
  <2>1. Timezone % Milli = 0 /\ Altzone % Milli = 0 /\ SummerFrom % Milli = 0 /\ SummerTo % Milli = 0
    BY <1>1, <1>2, <1>4, <1>5, <1>6, Finer, ZenonT(30)
  <2> QED BY <1>1, <1>4, <1>8, <2>1
<1> QED BY <1>7, <1>8

\* Summer time, and a clock that is shown again, are not a matter of what is below a second.
LEMMA SummerOfCut ==
    ASSUME TimesAssumption, ZonesAssumption, NEW u \in {Milli, Second}, NEW p \in Int
    PROVE  /\ IsSummer(Cut(p, u)) <=> IsSummer(p)
           /\ Fold(Cut(p, u)) <=> Fold(p)
<1>1. PICK z \in Int, a \in Int, s \in Int, t \in Int :
          z = Timezone /\ a = Altzone /\ s = SummerFrom /\ t = SummerTo
  BY Zones
<1>2. u \in Nat \ {0} /\ z % u = 0 /\ a % u = 0 /\ s % u = 0 /\ t % u = 0
  BY <1>1, Zones
<1>3. PICK q \in Int : q = Cut(p, u) /\ \A b \in Int : b % u = 0 => (b <= p <=> b <= q)
  BY <1>2, CutIs
<1>4. s <= p <=> s <= q
  BY <1>2, <1>3
<1>5. t <= p <=> t <= q
  BY <1>2, <1>3
<1>6. (s + z) - a \in Int /\ ((s + z) - a) % u = 0
  <2>0. (s + z) % u = 0
    BY <1>2, SumOfMultiples, ZenonT(30)
  <2>1. PICK b \in Int : b = s + z /\ b % u = 0
    BY <2>0
  <2>2. (b - a) % u = 0
    BY <1>2, <2>1, SumOfMultiples
  <2> QED BY <2>1, <2>2
<1>7. (t + z) - a \in Int /\ ((t + z) - a) % u = 0
  <2>0. (t + z) % u = 0
    BY <1>2, SumOfMultiples, ZenonT(30)
  <2>1. PICK b \in Int : b = t + z /\ b % u = 0
    BY <2>0
  <2>2. (b - a) % u = 0
    BY <1>2, <2>1, SumOfMultiples, ZenonT(30)
  <2> QED BY <2>1, <2>2
<1>8. ((s + z) - a <= p <=> (s + z) - a <= q) /\ ((t + z) - a <= p <=> (t + z) - a <= q)
  BY <1>3, <1>6, <1>7
<1>9. IsSummer(q) <=> IsSummer(p)
  BY <1>1, <1>4, <1>5 DEF IsSummer
<1>10. IsSummer(q - z + a) <=> IsSummer(p - z + a)
  BY <1>1, <1>8 DEF IsSummer
<1> QED BY <1>1, <1>3, <1>9, <1>10 DEF Fold

-----------------------------------------------------------------------------
(* Points in every form *)

\* The distance of a zone from UTC, as it is written.
ZoneText(east) == [hours |-> Trunc(east, Hour), minutes |-> (east % Hour) \div Minute]

LEMMA ZoneReads ==
    ASSUME TimesAssumption, NEW e \in Int, e % Minute = 0,
           e < 0 /\ (-e) % Hour # 0 => -e > Hour /\ 2 * ((-e) % Hour) = Hour
    PROVE  Offset(ZoneText(e)) = e
<1>0. /\ Minute \in Nat \ {0} /\ Hour \in Nat \ {0} /\ Hour % Minute = 0
  BY Units DEF TimesAssumption
<1>1. PICK h, m : h = Trunc(e, Hour) /\ m = (e % Hour) \div Minute
  OBVIOUS
<1>2. Offset(ZoneText(e)) = IF h < 0 THEN h * Hour - m * Minute ELSE h * Hour + m * Minute
  BY <1>1 DEF Offset, ZoneText
\* What is left of the hours is whole minutes.
<1>3. m \in Int /\ e % Hour = m * Minute /\ m * Minute \in Int
  <2>1. e % Hour = ((e % Hour) \div Minute) * Minute + (e % Minute)
    BY <1>0, Nested
  <2>2. e % Hour \in Int
    BY <1>0, DivMod
  <2>3. m \in Int
    BY <1>0, <1>1, <2>2, DivMod
  <2>4. m * Minute \in Int
    BY <1>0, <2>3
  <2> QED BY <1>1, <2>1, <2>3, <2>4
<1>4. CASE e >= 0
  <2>1. h = e \div Hour
    BY <1>1, <1>4 DEF Trunc
  <2>2. PICK q \in Int, r \in Int : q = e \div Hour /\ r = e % Hour /\ e = Hour * q + r /\ 0 <= r /\ r < Hour
    BY <1>0, DivMod
  <2>3. q >= 0
    <3>1. q <= -1 => Hour * q <= Hour * (-1)
      BY <1>0
    <3> QED BY <1>0, <1>4, <2>2, <3>1
  <2>4. q * Hour = Hour * q
    BY <1>0
  <2> QED BY <1>2, <1>3, <2>1, <2>2, <2>3, <2>4
<1>5. CASE e < 0
  <2>1. PICK z \in Int : z = -e /\ z > 0
    BY <1>5
  <2>2. PICK k \in Int, s \in Int : k = z \div Hour /\ s = z % Hour /\ z = Hour * k + s /\ 0 <= s /\ s < Hour
    BY <1>0, DivMod
  <2>3. PICK j \in Int : j = -k
    OBVIOUS
  <2>4. h = j
    BY <1>1, <1>5, <2>1, <2>2, <2>3 DEF Trunc
  <2>5. j * Hour = -(Hour * k) /\ Hour * k \in Int
    BY <1>0, <2>3
  <2>6. k > 0
    <3>1. s = 0 \/ z > Hour
      BY <1>5, <2>1, <2>2
    <3>2. k <= 0 => Hour * k <= Hour * 0
      BY <1>0
    <3> QED BY <1>0, <2>1, <2>2, <3>1, <3>2
  <2>7. e % Hour = s
    <3>1. CASE s = 0
      <4>1. e = Hour * j
        <5>1. Hour * j = j * Hour
          BY <1>0
        <5> QED BY <2>1, <2>2, <2>5, <3>1, <5>1
      <4>2. (Hour * j) % Hour = 0
        BY <1>0, Multiple
      <4> QED BY <3>1, <4>1, <4>2
    <3>2. CASE s # 0
      <4>1. 2 * s = Hour
        BY <1>5, <2>1, <2>2, <3>2
      <4>2. PICK l \in Int : l = j - 1
        OBVIOUS
      <4>3. Hour * l = j * Hour - Hour
        BY <1>0, <4>2
      <4>4. e = Hour * l + s
        BY <1>0, <2>1, <2>2, <2>5, <4>1, <4>3
      <4>5. 0 <= s /\ s < Hour
        BY <2>2
      <4> QED BY <1>0, <4>4, <4>5, DivIs
    <3> QED BY <3>1, <3>2
  <2>8. h < 0 /\ h * Hour = -(Hour * k) /\ m * Minute = s
    BY <1>3, <2>3, <2>4, <2>5, <2>6, <2>7
  <2>9. e = -(Hour * k) - s
    <3>1. PICK x \in Int : x = Hour * k
      BY <2>5
    <3>2. z = x + s
      BY <2>2, <3>1
    <3>3. e = -x - s
      BY <2>1, <3>2
    <3> QED BY <3>1, <3>3
  <2> QED BY <1>2, <2>5, <2>8, <2>9
<1> QED BY <1>4, <1>5

LEMMA OffsetReads ==
    ASSUME TimesAssumption, ZonesAssumption, NEW p \in Int, NEW utc \in BOOLEAN
    PROVE  Offset(OffsetText(p, utc)) = IF utc THEN 0 ELSE -West(IsSummer(p))
<1>1. CASE utc = TRUE
  <2>1. OffsetText(p, utc) = ZoneText(0)
    BY <1>1 DEF OffsetText, ZoneText
  <2>2. 0 % Minute = 0
    <3>1. Minute \in Nat \ {0} /\ 0 = Minute * 0 + 0
      BY Units
    <3> QED BY <3>1, DivIs
  <2>3. Offset(ZoneText(0)) = 0
    BY <2>2, ZoneReads
  <2> QED BY <1>1, <2>1, <2>3
<1>2. CASE utc = FALSE
  <2>1. PICK z \in Int : z = West(IsSummer(p)) /\ z \in {Timezone, Altzone}
    BY DEF West, TimesAssumption
  <2>2. OffsetText(p, utc) = ZoneText(-z)
    BY <1>2, <2>1 DEF OffsetText, ZoneText
  <2>3. z % Minute = 0 /\ (z > 0 /\ z % Hour # 0 => z > Hour /\ 2 * (z % Hour) = Hour)
    BY <2>1 DEF ZonesAssumption
  <2>4. Offset(ZoneText(-z)) = -z
    <3>1. PICK e \in Int : e = -z /\ -e = z
      OBVIOUS
    <3>2. e % Minute = 0
      BY <2>3, <3>1, Units, SumOfMultiples
    <3>3. Offset(ZoneText(e)) = e
      BY <2>3, <3>1, <3>2, ZoneReads
    <3> QED BY <3>1, <3>3
  <2> QED BY <1>2, <2>1, <2>2, <2>4
<1> QED BY <1>1, <1>2

\* The clock on the wall says which point it was, with the fold, or if there is none.
LEMMA NaiveReads ==
    ASSUME TimesAssumption, NEW p \in Int
    PROVE  /\ Naive(Clock(p, FALSE), Fold(p)) = p
           /\ ~Fold(p) => Naive(Clock(p, FALSE), FALSE) = p
<1>1. PICK z \in Int, a \in Int : z = Timezone /\ a = Altzone
  BY DEF TimesAssumption
<1>2. CASE IsSummer(p)
  <2>0. PICK c \in Int : c = p - a
    OBVIOUS
  <2>1. Clock(p, FALSE) = c
    BY <1>1, <1>2, <2>0 DEF Clock, West
  <2>2. c + Altzone = p
    BY <1>1, <2>0
  <2>3. ~Fold(p)
    BY <1>2 DEF Fold
  <2> QED BY <1>2, <2>1, <2>2, <2>3 DEF Naive
<1>3. CASE ~IsSummer(p)
  <2>0. PICK c \in Int : c = p - z
    OBVIOUS
  <2>1. Clock(p, FALSE) = c
    BY <1>1, <1>3, <2>0 DEF Clock, West
  <2>2. c + Timezone = p /\ c + Altzone = p - Timezone + Altzone
    BY <1>1, <2>0
  <2>3. CASE IsSummer(p - Timezone + Altzone)
    <3>1. Fold(p)
      BY <1>3, <2>3 DEF Fold
    <3> QED BY <1>3, <2>1, <2>2, <3>1 DEF Naive
  <2>4. CASE ~IsSummer(p - Timezone + Altzone)
    BY <2>1, <2>2, <2>4 DEF Naive
  <2> QED BY <2>3, <2>4
<1> QED BY <1>2, <1>3

\* What is read of a written point: as PointReadsBack says it, of any form.
ReadsBack(f, i, p) ==
    LET exact == f.k \in {"datetime", "naive datetime", "timestamp", "microseconds", "nanoseconds"}
        unit == IF exact THEN 1 ELSE IF f.k \in {"seconds", "struct_time"} THEN Second ELSE Milli
        scaled == f.k \in {"seconds", "milliseconds", "microseconds", "nanoseconds"}
    IN  \/ f.k \in {"zone name", "TimeStruct"}
        \/ f.k = "text" /\ ~f.utc /\ Fold(p)
        \/ scaled /\ p \notin Year..(Thousand * Year - 1)
        \/ i = Point((p \div unit) * unit)

LEMMA TextsRead ==
    ASSUME TimesAssumption, ZonesAssumption, NEW p \in Nat, NEW utc \in BOOLEAN,
           NEW kind \in {"zulu", "text", "offset"}, ~(kind = "text" /\ ~utc /\ Fold(p))
    PROVE  PointFrom(WritePointAs(kind, p, utc)) = Point((p \div Milli) * Milli)
<1>1. PICK q \in Int : q = (p \div Milli) * Milli /\ q = Cut(p, Milli)
  BY Units, CutIs, SMTT(30) DEF Cut
<1>2. (IsSummer(q) <=> IsSummer(p)) /\ (Fold(q) <=> Fold(p))
  BY <1>1, SummerOfCut
<1>3. CASE kind = "zulu"
  <2>1. PointFrom(WritePointAs(kind, p, utc)) = PointFromText(TimeText(p, TRUE, "Z"), utc)
    BY <1>3 DEF PointFrom, WritePointAs
  <2>2. PointFromText(TimeText(p, TRUE, "Z"), utc) = Point(Clock(q, TRUE))
    BY <1>1 DEF PointFromText, TimeText
  <2> QED BY <1>1, <2>1, <2>2 DEF Clock
<1>4. CASE kind = "text"
  <2>1. PointFrom(WritePointAs(kind, p, utc)) = PointFromText(TimeText(p, utc, ""), utc)
    BY <1>4 DEF PointFrom, WritePointAs
  <2>2. PointFromText(TimeText(p, utc, ""), utc) = Point(IF utc THEN Clock(q, utc) ELSE Naive(Clock(q, utc), FALSE))
    BY <1>1 DEF PointFromText, TimeText
  <2>3. CASE utc = TRUE
    BY <1>1, <2>1, <2>2, <2>3 DEF Clock
  <2>4. CASE utc = FALSE
    <3>1. ~Fold(q)
      BY <1>2, <1>4, <2>4
    <3>2. Naive(Clock(q, FALSE), FALSE) = q
      BY <3>1, NaiveReads
    <3> QED BY <1>1, <2>1, <2>2, <2>4, <3>2
  <2> QED BY <2>3, <2>4
<1>5. CASE kind = "offset"
  <2>1. PointFrom(WritePointAs(kind, p, utc)) = PointFromText(TimeText(p, utc, "offset"), utc)
    BY <1>5 DEF PointFrom, WritePointAs
  <2>2. PointFromText(TimeText(p, utc, "offset"), utc) = Point(Clock(q, utc) - Offset(OffsetText(p, utc)))
    BY <1>1 DEF PointFromText, TimeText
  <2>3. PICK o : o = Offset(OffsetText(p, utc)) /\ o = IF utc THEN 0 ELSE -West(IsSummer(p))
    BY OffsetReads
  <2>4. West(IsSummer(p)) = West(IsSummer(q)) /\ West(IsSummer(q)) \in Int
    BY <1>2 DEF West, TimesAssumption
  <2>5. Clock(q, utc) - o = q
    <3>1. CASE utc = TRUE
      BY <2>3, <3>1 DEF Clock
    <3>2. CASE utc = FALSE
      <4>1. PICK w \in Int : w = West(IsSummer(q))
        BY <2>4
      <4>2. o = -w /\ Clock(q, utc) = q - w
        BY <2>3, <2>4, <3>2, <4>1 DEF Clock
      <4> QED BY <4>2
    <3> QED BY <3>1, <3>2
  <2> QED BY <1>1, <2>1, <2>2, <2>3, <2>5
<1> QED BY <1>3, <1>4, <1>5

LEMMA NumbersRead ==
    ASSUME TimesAssumption, NEW p \in Nat, p \in Year .. (Thousand * Year - 1), NEW utc \in BOOLEAN,
           NEW kind \in {"seconds", "milliseconds", "microseconds", "nanoseconds"}
    PROVE  PointFrom(WritePointAs(kind, p, utc)) =
               Point(CASE kind = "seconds" -> (p \div Second) * Second
                       [] kind = "milliseconds" -> (p \div Milli) * Milli
                       [] OTHER -> p)
<1>1. p >= Year /\ p < Limit
  BY Units DEF Limit
<1>2. PICK T \in Nat \ {0} : T = Thousand /\ T = Milli /\ Second = T * T
  BY DEF TimesAssumption, Milli, Second
<1>3. \A n \in Nat : Autoscaled(n) = Scaled[n]
  BY DEF Autoscaled
<1>4. CASE kind = "seconds"
  <2>1. PICK q \in Nat : q = Cut(p, Second) /\ q <= p
    <3>1. Second \in Nat \ {0} /\ p \in Int
      BY Units
    <3>2. Cut(p, Second) \in Nat /\ Cut(p, Second) <= p
      BY <3>1, CutOfNat, CutIs
    <3> QED BY <3>2
  <2>2. PointFrom(WritePointAs(kind, p, utc)) = Point(Autoscaled(q))
    BY <1>4, <2>1 DEF PointFrom, WritePointAs, Cut
  <2>3. q < Limit
    BY <1>1, <2>1, Quotients
  <2>4. Scaled[q] = q
    BY <2>3, Unscaled
  <2> QED BY <1>3, <1>4, <2>1, <2>2, <2>4 DEF Cut
<1>5. CASE kind = "milliseconds"
  <2>1. PICK m \in Nat : m = p \div Milli
    BY Units, CutOfNat
  <2>2. PICK q \in Nat : q = m * T /\ q = Cut(p, Milli)
    BY <1>2, <2>1, Units, CutOfNat DEF Cut
  <2>3. q <= p /\ q >= Year
    <3>1. Year % Milli = 0 /\ Year \in Int
      <4>1. Hour % Second = 0
        BY Units, Finer DEF TimesAssumption
      <4>2. Day % Second = 0
        BY Units, <4>1, Finer DEF TimesAssumption
      <4>3. Year % Second = 0
        BY Units, <4>2, Finer DEF TimesAssumption
      <4>4. Second % Milli = 0
        BY Units, Multiple
      <4> QED BY Units, <4>3, <4>4, Finer
    <3>2. Milli \in Nat \ {0} /\ p \in Int
      BY Units
    <3> QED BY <1>1, <2>2, <3>1, <3>2, CutIs
  <2>4. m * Second = T * q
    BY <1>2, <2>2
  <2>5. PointFrom(WritePointAs(kind, p, utc)) = Point(Autoscaled(m * Second))
    BY <1>5, <2>1 DEF PointFrom, WritePointAs
  <2>6. T * q \in Nat /\ Scaled[T * q] = Scaled[q]
    BY <1>2, <2>3, ScaleUp
  <2>7. Scaled[q] = q
    BY <1>1, <2>3, Unscaled, Quotients
  <2>8. Autoscaled(T * q) = q
    BY <1>3, <2>6, <2>7
  <2> QED BY <1>5, <2>1, <2>2, <2>4, <2>5, <2>8, <1>2
<1>6. Scaled[p] = p
  BY <1>1, Unscaled
<1>7. PICK t \in Nat : t = T * p /\ t >= Year /\ Scaled[t] = p
  BY <1>1, <1>2, <1>6, ScaleUp
<1>8. PICK w \in Nat : w = T * t /\ w >= Year /\ Scaled[w] = p
  BY <1>2, <1>7, ScaleUp
<1>9. PICK x \in Nat : x = T * w /\ Scaled[x] = p
  BY <1>2, <1>8, ScaleUp
<1>10. CASE kind = "microseconds"
  <2>1. p * Second = w
    BY <1>2, <1>7, <1>8
  <2>2. PointFrom(WritePointAs(kind, p, utc)) = Point(Autoscaled(p * Second))
    BY <1>10 DEF PointFrom, WritePointAs
  <2> QED BY <1>3, <1>8, <1>10, <2>1, <2>2
<1>11. CASE kind = "nanoseconds"
  <2>1. p * Thousand * Second = x
    <3>1. p * T * (T * T) = T * (T * (T * p))
      BY <1>2
    <3> QED BY <1>2, <1>7, <1>8, <1>9, <3>1
  <2>2. PointFrom(WritePointAs(kind, p, utc)) = Point(Autoscaled(p * Thousand * Second))
    BY <1>11 DEF PointFrom, WritePointAs
  <2> QED BY <1>3, <1>9, <1>11, <2>1, <2>2
<1> QED BY <1>4, <1>5, <1>10, <1>11

LEMMA PointReads ==
    ASSUME TimesAssumption, ZonesAssumption, NEW p \in Nat, NEW utc \in BOOLEAN, NEW kind \in PointForms
    PROVE  LET f == WritePointAs(kind, p, utc) IN ReadsBack(f, PointFrom(f), p)
<1> DEFINE f == WritePointAs(kind, p, utc)
           i == PointFrom(f)
<1>1. f.k = kind /\ f.utc = utc
  BY DEF WritePointAs
<1>2. CASE kind \in {"zulu", "text", "offset"}
  <2>1. ~(kind = "text" /\ ~utc /\ Fold(p)) => i = Point((p \div Milli) * Milli)
    <3> SUFFICES ASSUME ~(kind = "text" /\ ~utc /\ Fold(p)) PROVE i = Point((p \div Milli) * Milli)
      OBVIOUS
    <3> QED BY <1>2, TextsRead
  <2> HIDE DEF f, i
  <2>2. ReadsBack(f, i, p)
    BY <1>1, <1>2, <2>1 DEF ReadsBack
  <2> QED BY <2>2 DEF f, i
<1>3. CASE kind \in {"seconds", "milliseconds", "microseconds", "nanoseconds"}
  <2>1. p \in Year..(Thousand * Year - 1) =>
            i = Point(CASE kind = "seconds" -> (p \div Second) * Second
                       [] kind = "milliseconds" -> (p \div Milli) * Milli
                       [] OTHER -> p)
    <3> SUFFICES ASSUME p \in Year..(Thousand * Year - 1)
                 PROVE  i = Point(CASE kind = "seconds" -> (p \div Second) * Second
                                    [] kind = "milliseconds" -> (p \div Milli) * Milli
                                    [] OTHER -> p)
      OBVIOUS
    <3> QED BY <1>3, NumbersRead
  <2>2. (p \div 1) * 1 = p
    BY CutByOne DEF Cut
  <2> HIDE DEF f, i
  <2>3. ReadsBack(f, i, p)
    BY <1>1, <1>3, <2>1, <2>2 DEF ReadsBack
  <2> QED BY <2>3 DEF f, i
<1>4. CASE kind \in {"datetime", "naive datetime", "timestamp"}
  <2>1. i = Point(p)
    <3>1. CASE kind = "datetime"
      BY <3>1 DEF WritePointAs, PointFrom
    <3>2. CASE kind = "naive datetime"
      <4>1. i = Point(Naive(Clock(p, FALSE), Fold(p)))
        BY <3>2 DEF WritePointAs, PointFrom
      <4>2. Naive(Clock(p, FALSE), Fold(p)) = p
        BY NaiveReads, p \in Int, Zenon
      <4> QED BY <4>1, <4>2, Zenon
    <3>3. CASE kind = "timestamp"
      <4>1. i = Point(TicksOf(Split(p)))
        BY <3>3 DEF WritePointAs, PointFrom
      <4> QED BY <4>1, SplitReads
    <3> QED BY <1>4, <3>1, <3>2, <3>3
  <2>2. (p \div 1) * 1 = p
    BY CutByOne DEF Cut
  <2> HIDE DEF f, i
  <2>3. ReadsBack(f, i, p)
    BY <1>1, <1>4, <2>1, <2>2 DEF ReadsBack
  <2> QED BY <2>3 DEF f, i
<1>5. CASE kind = "struct_time"
  <2>1. PICK q \in Int : q = (p \div Second) * Second /\ q = Cut(p, Second)
    BY Units, CutIs DEF Cut
  <2>2. IsSummer(q) <=> IsSummer(p)
    BY <2>1, SummerOfCut
  <2>3. i = Point(FromStruct([clock |-> Clock(q, utc), summer |-> ~utc /\ IsSummer(p)], utc))
    BY <1>5, <2>1 DEF WritePointAs, PointFrom
  <2>4. i = Point(q)
    <3>1. CASE utc = TRUE
      <4>1. PICK w \in Int : w = West(FALSE)
        BY DEF West, TimesAssumption
      <4>2. i = Point((q + w) - w)
        BY <2>3, <3>1, <4>1 DEF FromStruct, Clock
      <4>3. (q + w) - w = q
        OBVIOUS
      <4> QED BY <4>2, <4>3
    <3>2. CASE utc = FALSE
      <4>1. PICK w \in Int : w = West(IsSummer(p)) /\ w = West(IsSummer(q))
        BY <2>2 DEF West, TimesAssumption
      <4>2. i = Point((q - w) + w)
        <5>1. Clock(q, utc) = q - w
          BY <3>2, <4>1 DEF Clock
        <5>2. West(~utc /\ IsSummer(p)) = w
          BY <3>2, <4>1 DEF West
        <5> QED BY <2>3, <3>2, <5>1, <5>2 DEF FromStruct
      <4>3. (q - w) + w = q
        OBVIOUS
      <4> QED BY <4>2, <4>3
    <3> QED BY <3>1, <3>2
  <2> HIDE DEF f, i
  <2>5. ReadsBack(f, i, p)
    BY <1>1, <1>5, <2>1, <2>4 DEF ReadsBack
  <2> QED BY <2>5 DEF f, i
<1>6. CASE kind \in {"zone name", "TimeStruct"}
  <2> HIDE DEF f, i
  <2>1. ReadsBack(f, i, p)
    BY <1>1, <1>6 DEF ReadsBack
  <2> QED BY <2>1 DEF f, i
<1> QED BY <1>2, <1>3, <1>4, <1>5, <1>6 DEF PointForms

-----------------------------------------------------------------------------
(* The invariant *)

\* What was written is kept until it was read, and so are the values it was written of.
IntervalWritten ==
    \E kind \in IntervalForms :
        /\ form = WriteAs(kind, d)
        /\ result # Nothing => result = IntervalFrom(form) \/ IntervalFrom(form) = Raise
PointWritten ==
    \E kind \in PointForms, utc \in BOOLEAN :
        /\ time.k = "point" /\ time.v \in Nat
        /\ form = WritePointAs(kind, time.v, utc)
        /\ result # Nothing => result = PointFrom(form)

WrittenInv == form = Nothing \/ IntervalWritten \/ PointWritten

TimesInv ==
    /\ d \in Int /\ start \in Int /\ net \in Int
    /\ time.k = "point" => time = Point(time.v) /\ time.v \in Int
    /\ Abs(d) < 10 * Year => time = Point(start + net)
    /\ WrittenInv

LEMMA WrittenOf ==
    /\ IntervalWritten => form.to = "interval"
    /\ PointWritten => form.to = "point"
<1>1. \A kind, x : WriteAs(kind, x).to = "interval"
  BY DEF WriteAs
<1>2. ASSUME NEW kind, NEW p, NEW utc PROVE WritePointAs(kind, p, utc).to = "point"
  BY Zenon DEF WritePointAs
<1>3. IntervalWritten => form.to = "interval"
  BY <1>1, Zenon DEF IntervalWritten
<1>4. PointWritten => form.to = "point"
  BY <1>2, Zenon DEF PointWritten
<1> QED BY <1>3, <1>4

LEMMA TimesInvInit == ASSUME TimesAssumption, TimesInit PROVE TimesInv
<1>1. PICK p \in Points : time = Point(p)
  BY DEF TimesInit
<1>2. p \in Int /\ d \in Int
  BY DEF TimesInit, TimesAssumption
<1>3. start = p /\ net = 0 /\ form = Nothing
  BY <1>1 DEF TimesInit, Point
<1>4. time.v = p
  BY <1>1 DEF Point
<1> QED BY <1>1, <1>2, <1>3, <1>4 DEF TimesInv, WrittenInv

\* An operand that can be read moves the point by what it says, whatever its form; an
\* interval of ten years or more may be taken for a point.
LEMMA Moved ==
    ASSUME TimesAssumption, NEW p \in Int, NEW x \in Int, NEW kind \in OperandKinds
    PROVE  LET f == WriteAs(kind, x)
               v == IntervalFrom(f).v
           IN  /\ v \in Int
               /\ Plus(p, f) = Raise \/ Plus(p, f) = Point(p + v)
               /\ \/ Minus(p, f) = Raise
                  \/ Minus(p, f) = Point(p - v)
                  \/ Abs(x) >= 10 * Year /\ Minus(p, f).k = "interval"
<1> DEFINE f == WriteAs(kind, x)
           i == IntervalFrom(f)
<1>1. f.k = kind
  BY DEF WriteAs
<1>2. i = Raise \/ \E v \in Int : i = Interval(v)
  BY IntervalReads
<1>3. i.v \in Int /\ (i.k = "raise" => i = Raise)
  BY <1>2 DEF Raise, Interval
<1>4. Plus(p, f) = Raise \/ Plus(p, f) = Point(p + i.v)
  BY DEF Plus
<1>5. CASE kind \in {"number", "interval"}
  <2>1. f.v = x /\ i.v = x
    BY <1>1, <1>5 DEF WriteAs, IntervalFrom, Interval
  <2>2. Minus(p, f) = IF Abs(x) < 10 * Year THEN Point(p - x) ELSE Interval(p - Autoscaled(x))
    BY <1>1, <1>5, <2>1 DEF Minus
  <2>3. Interval(p - Autoscaled(x)).k = "interval"
    BY DEF Interval
  <2>4. PICK y \in Int, a \in Int : y = 10 * Year /\ a = Abs(x)
    BY AbsIs DEF TimesAssumption
  <2> HIDE DEF f, i
  <2>5. a < y \/ a >= y
    BY <2>4
  <2>6. Minus(p, f) = Point(p - i.v) \/ (Abs(x) >= 10 * Year /\ Minus(p, f).k = "interval")
    BY <2>1, <2>2, <2>3, <2>4, <2>5
  <2> QED BY <1>3, <1>4, <2>6 DEF f, i
<1>6. CASE kind \in {"timedelta", "duration"}
  <2>1. Minus(p, f) = Point(p - i.v)
    BY <1>1, <1>6 DEF Minus
  <2> QED BY <1>3, <1>4, <2>1
<1>7. CASE kind \in {"text", "json"}
  <2>1. Minus(p, f) = Raise \/ Minus(p, f) = Point(p - i.v)
    BY <1>1, <1>7 DEF Minus
  <2> QED BY <1>3, <1>4, <2>1
<1> QED BY <1>5, <1>6, <1>7 DEF OperandKinds

LEMMA MoveKept ==
    ASSUME TimesAssumption, TimesInv, NEW value, NEW ticks \in Int, MoveBy(value, ticks),
           \/ value = Raise
           \/ value = Point(time.v + ticks)
           \/ Abs(d) >= 10 * Year /\ value.k = "interval"
    PROVE  TimesInv'
<1>1. /\ time.k = "point" /\ time = Point(time.v) /\ time.v \in Int
      /\ d' = d /\ start' = start /\ d \in Int /\ start \in Int /\ net \in Int
      /\ form' = Nothing
  BY DEF TimesInv, MoveBy
<1>2. WrittenInv'
  BY <1>1 DEF WrittenInv
<1>3. CASE value = Raise
  <2>1. time' = time /\ net' = net
    BY <1>3 DEF MoveBy
  <2> QED BY <1>1, <1>2, <2>1 DEF TimesInv
<1>4. CASE value # Raise
  <2>1. time' = value /\ net' = net + ticks /\ net' \in Int
    BY <1>1, <1>4 DEF MoveBy
  <2>2. CASE value = Point(time.v + ticks)
    <3>1. PICK v \in Int, w \in Int : v = time.v /\ w = v + ticks
      BY <1>1
    <3>2. time'.v = w /\ time'.k = "point" /\ time' = Point(w)
      BY <2>1, <2>2, <3>1 DEF Point
    <3>3. Abs(d) < 10 * Year => v = start + net
      <4> SUFFICES ASSUME Abs(d) < 10 * Year PROVE v = start + net
        OBVIOUS
      <4>1. time = Point(start + net)
        BY DEF TimesInv
      <4> QED BY <3>1, <4>1 DEF Point
    <3>4. Abs(d) < 10 * Year => w = start + net'
      BY <1>1, <2>1, <3>1, <3>3
    <3> QED BY <1>1, <1>2, <2>1, <3>2, <3>4 DEF TimesInv
  <2>3. CASE Abs(d) >= 10 * Year /\ value.k = "interval"
    <3>1. PICK y \in Int, a \in Int : y = 10 * Year /\ a = Abs(d)
      BY <1>1, AbsIs DEF TimesAssumption
    <3>2. ~(Abs(d) < 10 * Year)
      BY <2>3, <3>1
    <3> QED BY <1>1, <1>2, <2>1, <2>3, <3>2 DEF TimesInv
  <2> QED BY <1>4, <2>2, <2>3
<1> QED BY <1>3, <1>4

LEMMA TimesInvStep == ASSUME TimesAssumption, TimesInv, [TimesNext]_timeVars PROVE TimesInv'
<1>0. d \in Int
  BY DEF TimesInv
<1>1. ASSUME NEW kind \in IntervalForms, WriteInterval(kind) PROVE TimesInv'
  <2>1. IntervalWritten'
    BY <1>1 DEF WriteInterval, IntervalWritten
  <2> QED BY <1>1, <2>1 DEF TimesInv, WrittenInv, WriteInterval
<1>2. ASSUME NEW kind \in PointForms, NEW utc \in BOOLEAN, WritePoint(kind, utc) PROVE TimesInv'
  <2>1. time.v \in Nat
    BY <1>2 DEF WritePoint, TimesInv
  <2>2. PointWritten'
    BY <1>2, <2>1 DEF WritePoint, PointWritten
  <2> QED BY <1>2, <2>2 DEF TimesInv, WrittenInv, WritePoint
<1>3. CASE ReadBack
  <2>1. CASE IntervalWritten
    <3>1. form.to = "interval"
      BY <2>1, WrittenOf
    <3>2. result' = IntervalFrom(form)
      BY <1>3, <3>1 DEF ReadBack
    <3>3. IntervalWritten'
      BY <1>3, <2>1, <3>2 DEF IntervalWritten, ReadBack
    <3> QED BY <1>3, <3>3 DEF TimesInv, WrittenInv, ReadBack
  <2>2. CASE PointWritten
    <3>1. form.to = "point"
      BY <2>2, WrittenOf
    <3>2. result' = PointFrom(form)
      BY <1>3, <3>1 DEF ReadBack
    <3>3. PointWritten'
      BY <1>3, <2>2, <3>2 DEF PointWritten, ReadBack
    <3> QED BY <1>3, <3>3 DEF TimesInv, WrittenInv, ReadBack
  <2> QED BY <1>3, <2>1, <2>2 DEF TimesInv, WrittenInv, ReadBack
<1>4. ASSUME NEW fallback, TryRead(fallback) PROVE TimesInv'
  <2>1. IntervalWritten
    <3>1. PointWritten => form.to = "point"
      BY WrittenOf
    <3> QED BY <1>4, <3>1 DEF TimesInv, WrittenInv, TryRead
  <2>2. result' = IntervalFrom(form) \/ IntervalFrom(form) = Raise
    BY <1>4 DEF TryRead
  <2>3. IntervalWritten'
    BY <1>4, <2>1, <2>2 DEF IntervalWritten, TryRead
  <2> QED BY <1>4, <2>3 DEF TimesInv, WrittenInv, TryRead
<1>5. CASE Add
  <2>1. PICK kind \in OperandKinds :
            MoveBy(Plus(time.v, WriteAs(kind, d)), IntervalFrom(WriteAs(kind, d)).v)
    BY <1>5 DEF Add
  <2>2. PICK p \in Int : p = time.v
    BY <2>1 DEF MoveBy, TimesInv
  <2>3. PICK v \in Int : v = IntervalFrom(WriteAs(kind, d)).v
    BY <1>0, Moved
  <2>4. PICK w : w = Plus(time.v, WriteAs(kind, d)) /\ (w = Raise \/ w = Point(time.v + v))
    BY <1>0, <2>2, <2>3, Moved
  <2> QED BY <2>1, <2>3, <2>4, MoveKept
<1>6. CASE Subtract
  <2>1. PICK kind \in OperandKinds :
            MoveBy(Minus(time.v, WriteAs(kind, d)), -IntervalFrom(WriteAs(kind, d)).v)
    BY <1>6 DEF Subtract
  <2>2. PICK p \in Int : p = time.v
    BY <2>1 DEF MoveBy, TimesInv
  <2>3. PICK v \in Int : v = IntervalFrom(WriteAs(kind, d)).v
    BY <1>0, Moved
  <2>4. PICK w : /\ w = Minus(time.v, WriteAs(kind, d))
                 /\ w = Raise \/ w = Point(p - v) \/ (Abs(d) >= 10 * Year /\ w.k = "interval")
    BY <1>0, <2>2, <2>3, Moved
  <2>5. PICK u \in Int : u = -v /\ p + u = p - v
    OBVIOUS
  <2>6. MoveBy(w, u) /\ (w = Raise \/ w = Point(time.v + u) \/ (Abs(d) >= 10 * Year /\ w.k = "interval"))
    BY <2>1, <2>2, <2>3, <2>4, <2>5
  <2> QED BY <2>6, MoveKept
<1>7. CASE UNCHANGED timeVars
  BY <1>7 DEF timeVars, TimesInv, WrittenInv, IntervalWritten, PointWritten
<1> QED BY <1>1, <1>2, <1>3, <1>4, <1>5, <1>6, <1>7 DEF TimesNext

LEMMA TimesHold == ASSUME TimesAssumption PROVE TimesSpec => []TimesInv
<1>1. TimesInit => TimesInv
  BY TimesInvInit
<1>2. TimesInv /\ [TimesNext]_timeVars => TimesInv'
  BY TimesInvStep
<1> QED BY <1>1, <1>2, PTL DEF TimesSpec

\* MovesAddUp: after any sequence of additions and subtractions, of intervals in any of the
\* forms an operand may have, a point is where it started plus what these said, for any
\* interval below ten years (timepoint.py, __add__() and __sub__()).
THEOREM Moves == TimesSpec => []MovesAddUp
<1> USE TimesAssumption
<1>1. TimesInv => MovesAddUp
  BY DEF TimesInv, MovesAddUp
<1> QED BY <1>1, TimesHold, PTL

\* TimesReadBack: what is written of an interval of up to four years and of a point is read
\* as the same, to the precision of the form, in any time zone that ZonesAssumption knows
\* (timeinterval.py and timepoint.py: to_string(), from_string(), from_value()).
THEOREM TimesRead == TimesSpec => []TimesReadBack
<1> USE TimesAssumption, ZonesAssumption
<1>1. TimesInv => IntervalReadsBack
  <2> SUFFICES ASSUME TimesInv, form # Nothing, form.to = "interval", result # Nothing, Abs(d) <= Leap
               PROVE  /\ form.k \in {"json", "duration", "timedelta"} \/ (form.k = "iso" /\ d # 0) =>
                             result = Interval(d)
                      /\ form.k = "milliseconds" => result = Interval(Trunc(d, Milli) * Milli)
    BY DEF IntervalReadsBack
  <2>1. IntervalWritten
    <3>1. PointWritten => form.to = "point"
      BY WrittenOf
    <3> QED BY <3>1 DEF TimesInv, WrittenInv
  <2>2. PICK kind \in IntervalForms :
            /\ form = WriteAs(kind, d)
            /\ result = IntervalFrom(form) \/ IntervalFrom(form) = Raise
    BY <2>1 DEF IntervalWritten
  <2>3. form.k = kind
    BY <2>2 DEF WriteAs
  <2>4. PICK x \in Int : x = d
    BY DEF TimesInv
  <2> DEFINE i == IntervalFrom(form)
  <2>5. /\ kind \in Exact => i = Interval(x)
        /\ kind = "milliseconds" => i = Interval(Trunc(x, Milli) * Milli)
        /\ kind \in {"iso", "json"} /\ (kind = "iso" => x # 0) => i = Interval(x)
    BY <2>2, <2>4, IntervalReads
  <2>6. \A v : Interval(v) # Raise
    BY DEF Interval, Raise
  <2> HIDE DEF i
  <2> QED BY <2>2, <2>3, <2>4, <2>5, <2>6 DEF Exact, i
<1>2. TimesInv => PointReadsBack
  <2> SUFFICES ASSUME TimesInv, form # Nothing, form.to = "point", result # Nothing
               PROVE  ReadsBack(form, result, time.v)
    BY DEF PointReadsBack, ReadsBack
  <2>1. PointWritten
    <3>1. IntervalWritten => form.to = "interval"
      BY WrittenOf
    <3> QED BY <3>1 DEF TimesInv, WrittenInv
  <2>2. PICK kind \in PointForms, utc \in BOOLEAN :
            time.v \in Nat /\ form = WritePointAs(kind, time.v, utc) /\ result = PointFrom(form)
    BY <2>1 DEF PointWritten
  <2>3. PICK p \in Nat : p = time.v
    BY <2>2
  <2>4. ReadsBack(WritePointAs(kind, p, utc), PointFrom(WritePointAs(kind, p, utc)), p)
    BY PointReads
  <2> QED BY <2>2, <2>3, <2>4
<1>3. TimesInv => TimesReadBack
  BY <1>1, <1>2 DEF TimesReadBack
<1> QED BY <1>3, TimesHold, PTL
==============================================================================
