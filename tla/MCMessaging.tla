----------------------------- MODULE MCMessaging -----------------------------
(* Messages in Python.  The parts share no state: a behaviour has one of them, with the *)
(* others at rest. *)
(*   "calls": a ZMQ server and two clients, of which one names the port itself. *)
(*   "publications": two threads, each with a publisher; one topic starts with the other. *)
(*   "logs": two threads that log, and a queue of two messages. *)
EXTENDS ZmqRpc, ZmqPubSub, LogSubmitter
CONSTANTS c1, c2, h1, h2, h3, t1, t2
VARIABLE part

MCGiven == (c1 :> [port |-> 6573]) @@ (c2 :> [host |-> "loghost"]) @@ ("server" :> <<>>)
MCSettings == [port |-> 6573, scheme |-> "tcp"]

MCThreads == {"w1", "w2"}
MCTopicOf == [w1 |-> "Signal", w2 |-> "SignalMap"]
MCPublisher == [w1 |-> "p1", w2 |-> "p2"]
MCFilterOf == (h1 :> "Signal") @@ (h2 :> "SignalMap") @@ (h3 :> "Signal")
MCStartsWith == {<<"Signal", "Signal">>, <<"SignalMap", "SignalMap">>, <<"SignalMap", "Signal">>}

Init ==
    /\ part \in {"calls", "publications", "logs"}
    /\ RpcInit /\ BusInit /\ LogInit
    /\ part # "logs" => transport = "grpc"
Next ==
    \/ part = "calls" /\ RpcNext /\ UNCHANGED <<part, busVars, logVars>>
    \/ part = "publications" /\ BusNext /\ UNCHANGED <<part, rpcVars, logVars>>
    \/ part = "logs" /\ LogNext /\ UNCHANGED <<part, rpcVars, busVars>>
Spec ==
    /\ Init /\ [][Next]_<<part, rpcVars, busVars, logVars>>
    /\ RpcFairness /\ BusFairness /\ LogFairness
==============================================================================
