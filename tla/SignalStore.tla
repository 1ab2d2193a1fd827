---------------------------- MODULE SignalStore ----------------------------
(***************************************************************************)
(* What the signal stores in Python do with one message                    *)
(* (protobuf/signal/signalstore.py, cachingsignalstore.py): the cache, the *)
(* choice of the mapping action, the messages of a map update.  A server's *)
(* store and its clients' stores use the same operators.                   *)
(*                                                                         *)
(* A cache maps the names that were emitted to maps from key to value; an  *)
(* event has the key None.                                                 *)
(***************************************************************************)
EXTENDS Integers, Sequences, SequencesExt, Functions, TLC

CONSTANTS
    Names,     \* the signals of the message type, the fields of its "oneof"
    Keys,      \* mapping keys
    Values,    \* payloads
    None

Actions == {"NONE", "ADDITION", "UPDATE", "REMOVAL"}

ASSUME NoneAssumption == None \notin Names \cup Keys \cup Values \cup Actions

\* A Signal message; without a name it carries no signal.
Message == [name : Names \cup {None}, action : Actions, key : Keys \cup {None},
            value : Values \cup {None}]

Msg(n, a, k, v) == [name |-> n, action |-> a, key |-> k, value |-> v]

\* The empty message that ends the cache.
Marker == Msg(None, "NONE", None, None)

EmptyCache == <<>>
DataMap(cache, n) == IF n \in DOMAIN cache THEN cache[n] ELSE <<>>
Cached(cache, n, k) == IF k \in DOMAIN DataMap(cache, n) THEN DataMap(cache, n)[k] ELSE None

\* f with the value v for x.
Put(f, x, v) == [y \in DOMAIN f \cup {x} |-> IF y = x THEN v ELSE f[y]]

\* CachingSignalStore.emit(): a message without a signal changes nothing.
UpdateCache(cache, m) ==
    LET old == DataMap(cache, m.name)
        new == IF m.action = "REMOVAL" THEN Restrict(old, DOMAIN old \ {m.key})
                                       ELSE Put(old, m.key, m.value)
    IN  IF m.name = None THEN cache ELSE Put(cache, m.name, new)

\* What a store has for a key once it was given a sequence of messages: the last word.
About(m, n, k) == m.name = n /\ m.key = k
Word(m) == IF m.action = "REMOVAL" THEN None ELSE m.value
Applied(cache, messages, n, k) ==
    LET about == {i \in DOMAIN messages : About(messages[i], n, k)}
    IN  IF about = {} THEN Cached(cache, n, k) ELSE Word(messages[Max(about)])

\* SignalStore.emit(): every message without a mapping action is taken for the end of
\* the initial cache.
Completes(m) == m.action = "NONE"

\* emit_mapping(): the action follows from the value and what is cached; None: no signal.
ActionFor(cached, v) ==
    CASE v = None /\ cached = None -> None
      [] v = None /\ cached # None -> "REMOVAL"
      [] v # None /\ cached = None -> "ADDITION"
      [] v # None /\ cached # None -> IF v # cached THEN "UPDATE" ELSE None

\* The constructor leaves a field that is given as None unset: such a message carries
\* no signal.
MappingMessage(n, a, k, v) == Msg(IF v = None THEN None ELSE n, a, k, v)

\* emit_mapping() without an action: no message, or one.
EmitMapping(cache, n, k, v) ==
    LET a == ActionFor(Cached(cache, n, k), v)
    IN  IF a = None THEN <<>> ELSE <<MappingMessage(n, a, k, v)>>

EmitEvent(n, v) == <<Msg(n, "NONE", None, v)>>

\* emit_map_update(): removals of what the new map lacks, with their old value, then
\* what is new or differs.  (The order of the keys does not matter.)
EmitMapUpdate(cache, n, new) ==
    LET current  == DataMap(cache, n)
        gone     == SetToSeq(DOMAIN current \ DOMAIN new)
        action   == [k \in DOMAIN new |-> ActionFor(Cached(cache, n, k), new[k])]
        differs  == SetToSeq({k \in DOMAIN new : action[k] # None})
    IN  [i \in DOMAIN gone |-> MappingMessage(n, "REMOVAL", gone[i], current[gone[i]])] \o
        [i \in DOMAIN differs |->
            MappingMessage(n, action[differs[i]], differs[i], new[differs[i]])]
============================================================================
