--------------------------- MODULE MCSwitchboard ---------------------------
(***************************************************************************)
(* Small switchboards for TLC: the graphs, interceptors and requests that  *)
(* the configurations combine.                                             *)
(***************************************************************************)
EXTENDS Switchboard, TLC

None == <<>>

On(polarity, trigger, sufficient) ==
    [trigger |-> trigger, polarity |-> polarity, sufficient |-> sufficient]
Follow == On("POSITIVE", Settled, FALSE)
Oppose == On("NEGATIVE", Settled, FALSE)

\* 2 opposes 1, and 3 follows 2.
Chain == (1 :> None) @@ (2 :> (1 :> Oppose)) @@ (3 :> (2 :> Follow))
\* 2 follows 1 through its transitional states also.
Shadow == (1 :> None) @@ (2 :> (1 :> On("POSITIVE", State \ {"UNSET"}, FALSE)))
\* 2 and 3 follow 1; 4 needs 2 without 3.
Diamond == (1 :> None) @@ (2 :> (1 :> Follow)) @@ (3 :> (1 :> Follow))
           @@ (4 :> ((2 :> Follow) @@ (3 :> Oppose)))
Alone == 1 :> None

Icept(states, phase, onCancel, onError, faulty) ==
    [states |-> states, phase |-> phase, asynchronous |-> FALSE,
     on_cancel |-> onCancel, on_error |-> onError, faulty |-> faulty]

Activation == {"ACTIVATING", "DEACTIVATING"}

NoInterceptors == [s \in Switches |-> None]
\* Switches 1 and 2 have one that never throws.
Slow == [s \in Switches |-> IF s \in {1, 2}
    THEN "slow" :> Icept(Activation, "NORMAL", "ABORT", "FAIL", FALSE) ELSE None]
\* An early interceptor that reverts and a late one that does not care.
Mixed == [s \in Switches |-> IF s = 1
    THEN ("early" :> Icept(Activation, "EARLY", "REVERT", "REVERT", TRUE))
         @@ ("late" :> Icept(Activation \union {"FAILING"}, "LATE", "IGNORE", "ABORT", TRUE))
    ELSE None]
\* All phases, one of them asynchronous; errors abort, are ignored, or fail.
Lenient == [s \in Switches |-> IF s = 1
    THEN ("early" :> Icept(Activation, "EARLY", "ABORT", "ABORT", TRUE))
         @@ ("normal" :> [Icept(Activation, "NORMAL", "ABORT", "FAIL", TRUE) EXCEPT !.asynchronous = TRUE])
         @@ ("late" :> Icept(Activation \union {"FAILED"}, "LATE", "ABORT", "IGNORE", TRUE))
    ELSE "own" :> Icept(Activation, "NORMAL", "ABORT", "FAIL", TRUE)]

Ask(sw, target, error) ==
    [sw |-> sw, target |-> target, error |-> error, ic |-> TRUE, reeval |-> FALSE,
     on_cancel |-> "DEFAULT", on_error |-> "DEFAULT"]
Turn(sws) == {Ask(s, Position(on), "none") : s \in sws, on \in BOOLEAN}
Fail(sws) == {Ask(s, "FAILED", "error") : s \in sws}
Auto(sws) == {Ask(s, "UNSET", "none") : s \in sws}
Again(sws) == {[r EXCEPT !.reeval = TRUE] : r \in Turn(sws)}
Quiet(sws) == {[r EXCEPT !.ic = FALSE] : r \in Turn(sws)}

Explicit(sws) == {[r EXCEPT !.on_error = eh] : r \in Turn(sws), eh \in {"IGNORE", "ABORT"}}

AnyOfOne == Turn({1}) \union Fail({1}) \union Auto({1}) \union Again({1}) \union Quiet({1})
PoliciesOfOne == AnyOfOne \union Explicit({1})
TurnOnOne == {Ask(1, "ACTIVE", "none")}
=============================================================================
