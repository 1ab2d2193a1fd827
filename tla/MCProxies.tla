------------------------------ MODULE MCProxies ------------------------------
(* Two kinds of mirror in Python of what a server has.  They share no state: a behaviour *)
(* has one of them, with the other at rest. *)
(*   "signals": a map signal and an event; the event has the last field of the message. *)
(*   "switches": a switch and a name for it, which another client operates as well. *)
EXTENDS WatchSignals, SwitchProxy
CONSTANTS readings, alarm, k1, v1, v2, s1, a1, en, c1, t1, t2
VARIABLE part

MCOrder == <<readings, alarm>>
MCMappings == {<<k1, v1>>, <<k1, None>>}
MCUpdates == {<<>>, k1 :> v2}
MCClient == [t \in Streams |-> c1]

MCOtherRequests == {AddRequest(s1), RemoveRequest(s1), AddAliases(Blank(s1), {a1}), SetActive(Blank(s1), TRUE)}
MCHandles == 1 .. 3

Init == part \in {"signals", "switches"} /\ WatchInit /\ ProxyInit
Next ==
    \/ part = "signals" /\ WatchNext /\ UNCHANGED <<part, proxyVars>>
    \/ part = "switches" /\ ProxyNext /\ UNCHANGED <<part, watchVars>>
Spec == Init /\ [][Next]_<<part, watchVars, proxyVars>> /\ WatchFairness /\ ProxyFairness
==============================================================================
