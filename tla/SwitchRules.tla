---------------------------- MODULE SwitchRules ----------------------------
(***************************************************************************)
(* The switchboard's rules that involve no thread: the states of a switch, *)
(* the state that its dependencies imply (Switch::auto_state), and the     *)
(* policy applied when a transition is cancelled or its interceptors fail. *)
(***************************************************************************)
EXTENDS Naturals, FiniteSetsExt

Settled == {"ACTIVE", "INACTIVE", "FAILED"}
Transitional == {"ACTIVATING", "DEACTIVATING", "FAILING"}
State == {"UNSET"} \union Settled \union Transitional

Position(on) == IF on THEN "ACTIVE" ELSE "INACTIVE"

\* The state a switch passes through on its way to `target`.
TransitionState(target) ==
    CASE target = "ACTIVE" -> "ACTIVATING"
      [] target = "INACTIVE" -> "DEACTIVATING"
      [] target = "FAILED" -> "FAILING"
      [] OTHER -> "UNSET"

\* status->active once the switch is in `state`.
TargetPosition(state, current) ==
    CASE state = "ACTIVE" -> TRUE
      [] state = "INACTIVE" -> FALSE
      [] OTHER -> current

Inverted(state) ==
    CASE state = "ACTIVATING" -> "DEACTIVATING"
      [] state = "ACTIVE" -> "INACTIVE"
      [] state = "DEACTIVATING" -> "ACTIVATING"
      [] state = "INACTIVE" -> "ACTIVE"
      [] OTHER -> state

-----------------------------------------------------------------------------
(* Dependencies.  A switch's dependencies are a function from the names of *)
(* its predecessors, numbered in the order of the std::map that holds them. *)

Polarities == {"TOGGLE", "POSITIVE", "NEGATIVE"}

Dependency == [trigger : SUBSET (State \ {"UNSET"}), polarity : Polarities, sufficient : BOOLEAN]

AutoTrigger(dep, predState) == predState \in dep.trigger

\* What one dependency wants the switch to be, given its predecessor's state.
DerivedState(dep, predState, active) ==
    CASE dep.polarity = "TOGGLE" -> Position(active # AutoTrigger(dep, predState))
      [] dep.polarity = "POSITIVE" -> predState
      [] OTHER -> Inverted(predState)

\* Switch::auto_state(): `deps` are the dependencies, `states` the states of
\* the predecessors, `state` and `active` those of the switch itself.  The
\* first verdict that is given counts.  The code keeps four sets of
\* satisfaction levels, but assigns `failed` where it adds to the others: only
\* the last failing dependency counts.
Verdicts(deps, states, state, active) ==
    LET derived == [p \in DOMAIN deps |-> DerivedState(deps[p], states[p], active)]
        some(d, sufficient) ==
            \E p \in DOMAIN deps : derived[p] = d /\ deps[p].sufficient \in sufficient
        failures == {p \in DOMAIN deps : derived[p] \in {"FAILING", "FAILED"}}
        last(d) == failures # {} /\ derived[Max(failures)] = d
    IN  <<  [given |-> last("FAILED"),                state |-> "FAILED"],
            [given |-> some("ACTIVE", {TRUE}),        state |-> "ACTIVE"],
            [given |-> some("INACTIVE", {FALSE}),     state |-> "INACTIVE"],
            [given |-> some("UNSET", {FALSE}),        state |-> "UNSET"],
            [given |-> last("FAILING"),               state |-> "FAILING"],
            [given |-> some("ACTIVATING", BOOLEAN),   state |-> "ACTIVATING"],
            [given |-> some("DEACTIVATING", BOOLEAN), state |-> "DEACTIVATING"],
            [given |-> some("ACTIVE", {FALSE}),       state |-> "ACTIVE"],
            [given |-> some("INACTIVE", {TRUE}),      state |-> "INACTIVE"],
            [given |-> state \in Settled,             state |-> state],
            [given |-> some("UNSET", {TRUE}),         state |-> "UNSET"],
            [given |-> TRUE,                          state |-> Position(active)]  >>

AutoState(deps, states, state, active) ==
    LET verdicts == Verdicts(deps, states, state, active)
    IN  verdicts[Min({i \in DOMAIN verdicts : verdicts[i].given})].state

-----------------------------------------------------------------------------
(* Interceptors.                                                           *)

Phases == {"EARLY", "NORMAL", "LATE"}

\* The policies in the order of the enumeration: a later one dominates.
EHRank == [DEFAULT |-> 0, IGNORE |-> 1, ABORT |-> 2, FAIL |-> 3, REVERT |-> 4]
ExceptionHandling == DOMAIN EHRank

Interceptor == [states : SUBSET (State \ {"UNSET"}), phase : Phases, asynchronous : BOOLEAN,
                on_cancel : ExceptionHandling, on_error : ExceptionHandling,
                faulty : BOOLEAN]

Applicable(ic, state, phase) == state \in ic.states /\ ic.phase = phase

Dominant(policies) ==
    CHOOSE eh \in policies \union {"DEFAULT"} :
        \A other \in policies : EHRank[other] <= EHRank[eh]

\* The explicit policy, else the dominant one of the interceptors involved,
\* else the default for the kind of diversion.
Policy(explicit, policies, default) ==
    LET eh == IF explicit # "DEFAULT" THEN explicit ELSE Dominant(policies)
    IN  IF eh = "DEFAULT" THEN default ELSE eh

\* handle_errors() keeps an interceptor's error only where that interceptor's
\* policy is the one that is applied.
CarriedError(explicit, policies) ==
    IF explicit = "DEFAULT" /\ Dominant(policies) # "DEFAULT" THEN "error" ELSE "none"
=============================================================================
