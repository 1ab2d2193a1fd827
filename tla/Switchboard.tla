---------------------------- MODULE Switchboard ----------------------------
(***************************************************************************)
(* The switchboard's switches (switchboard::LocalSwitch) under the threads *)
(* that change them: one per request of a client, and one for each         *)
(* descendant that a change triggers.  Nothing locks a switch's status, so *)
(* two threads interleave between any two of the steps below, and a        *)
(* diversion (error, cancellation) nests a further change in the one it    *)
(* diverts: every thread is a stack of frames, the innermost first.        *)
(*                                                                         *)
(* A frame is one set_target() (from "decide") or set_current_state()      *)
(* (from "enter").  Its point `at` is                                      *)
(*   decide   resolve the target, compare it with the current state        *)
(*   commit   store the position and the error of the target               *)
(*   enter    store the transitional state or the target itself            *)
(*   EARLY, NORMAL, LATE   wait for that phase's interceptors              *)
(*   cease    the interceptors are done, or a diversion has been handled   *)
(*   spread   trigger the descendants, publish the status, return          *)
(***************************************************************************)
EXTENDS SwitchRules, Sequences, FiniteSets, Functions

CONSTANTS
    Switches,       \* the switches' names, in their order
    Dependencies,   \* of each switch: predecessor -> Dependency
    Interceptors,   \* of each switch: name -> Interceptor
    Requests,       \* the calls clients make
    Serial,         \* TRUE: a client calls only once everything is at rest
    Threads,        \* bound: threads alive at the same time
    MaxRequests     \* bound: calls of clients

Error == {"none", "error"}

Request == [sw : Switches, target : State, error : Error, ic : BOOLEAN,
            reeval : BOOLEAN, on_cancel : ExceptionHandling, on_error : ExceptionHandling]

ASSUME SwitchboardAssumption ==
    /\ Switches \subseteq Nat /\ IsFiniteSet(Switches)
    /\ DOMAIN Dependencies = Switches
    /\ \A s \in Switches : /\ DOMAIN Dependencies[s] \subseteq Switches
                           /\ \A p \in DOMAIN Dependencies[s] : Dependencies[s][p] \in Dependency
    /\ DOMAIN Interceptors = Switches
    /\ \A s \in Switches : \A n \in DOMAIN Interceptors[s] : Interceptors[s][n] \in Interceptor
    /\ Requests \subseteq Request
    /\ Serial \in BOOLEAN
    /\ MaxRequests \in Nat

VARIABLES
    status,      \* status_ref of each switch
    published,   \* what signal_status last carried for each switch
    stacks,      \* the frames of each thread, innermost first
    requests     \* calls made so far

vars == <<status, published, stacks, requests>>

Status == [current : State, settled : Settled, active : BOOLEAN, pending : BOOLEAN, error : Error]

Points == {"decide", "commit", "enter", "cease", "spread"} \union Phases

\* `cause` is who asked, `stage` whether the frame is entering the
\* transitional state or the target; `ok` is set_current_state()'s result.
Frame == [cause : {"client", "descendant", "FAIL", "ABORT", "REVERT"},
          sw : Switches, target : State, error : Error,
          ic : BOOLEAN, desc : BOOLEAN, reeval : BOOLEAN,
          on_cancel : ExceptionHandling, on_error : ExceptionHandling,
          stage : {"transition", "target"}, at : Points, ok : BOOLEAN]

TypeOK ==
    /\ status \in [Switches -> Status]
    /\ published \in [Switches -> Status]
    /\ stacks \in [Threads -> Seq(Frame)]
    /\ requests \in Nat

Quiescent == \A t \in Threads : stacks[t] = <<>>

StateOf == [s \in Switches |-> status[s].current]

\* What `s` would become if it followed its dependencies now.
AutoStateOf(s) ==
    AutoState(Dependencies[s], StateOf, status[s].current, status[s].active)

\* The configuration files are loaded, each switch is in the position that
\* its dependencies imply, and its status has been published.
Init ==
    /\ \E on \in [Switches -> BOOLEAN] :
          status = [s \in Switches |->
              [current |-> Position(on[s]), settled |-> Position(on[s]), active |-> on[s],
               pending |-> FALSE, error |-> "none"]]
    /\ \A s \in Switches :
          status[s].current = IF DOMAIN Dependencies[s] = {} THEN "INACTIVE" ELSE AutoStateOf(s)
    /\ published = status
    /\ stacks = [t \in Threads |-> <<>>]
    /\ requests = 0

-----------------------------------------------------------------------------
(* Frames                                                                  *)

\* set_target() with its default arguments.
SetTarget(cause, sw, target, error) ==
    [cause |-> cause, sw |-> sw, target |-> target, error |-> error,
     ic |-> TRUE, desc |-> TRUE, reeval |-> FALSE,
     on_cancel |-> "DEFAULT", on_error |-> "DEFAULT",
     stage |-> "transition", at |-> "decide", ok |-> TRUE]

Top(t) == Head(stacks[t])
Running(t, point) == stacks[t] # <<>> /\ Top(t).at = point

Continue(t, frame) == stacks' = [stacks EXCEPT ![t] = <<frame>> \o Tail(@)]
Return(t) == stacks' = [stacks EXCEPT ![t] = Tail(@)]

\* The state that a frame at "enter" or beyond is about.
Entering(f) == IF f.stage = "transition" THEN TransitionState(f.target) ELSE f.target

Invoked(f, phase) ==
    {n \in DOMAIN Interceptors[f.sw] : Applicable(Interceptors[f.sw][n], Entering(f), phase)}

\* notify_status(): signal_status.emit_if_changed(), which compares with what
\* it carried last by Status's operator==, and that leaves `pending` out.
SamePosition(a, b) == a.active = b.active /\ a.error = b.error
SameStatus(a, b) == [a EXCEPT !.pending = b.pending] = b

Publish(s) ==
    published' = IF SameStatus(status'[s], published[s]) THEN published
                 ELSE [published EXCEPT ![s] = status'[s]]

-----------------------------------------------------------------------------
(* set_target()                                                            *)

\* Switch::pending()
Pending(s) == status[s].current \notin Settled

RefuseAndWait(t) == UNCHANGED stacks
Refuse(t) == Return(t)

\* Resolve the target and compare.  A request for the transition that the
\* switch is in is refused while the switch is pending; a switch without
\* interceptors goes to its target without a transition.
Decide(t) ==
    /\ Running(t, "decide")
    /\ LET f == Top(t)
           target == IF f.target # "UNSET" THEN f.target
                     ELSE IF f.error # "none" THEN "FAILED" ELSE AutoStateOf(f.sw)
           transition == TransitionState(target)
           current == status[f.sw].current
           underway == transition # "UNSET" /\ current = transition
           direct == transition = "UNSET" \/ underway \/ DOMAIN Interceptors[f.sw] = {}
       IN  \/ ~f.reeval /\ current = target /\ Return(t)
           \/ /\ f.reeval \/ current # target
              /\ \/ underway /\ Pending(f.sw) /\ Refuse(t)
                 \/ /\ ~(underway /\ Pending(f.sw))
                    /\ Continue(t, [f EXCEPT !.target = target,
                                             !.at = IF direct THEN "commit" ELSE "enter"])
    /\ UNCHANGED <<status, published, requests>>

NewError(f, current) == f.error

\* The position and the error go with the target, just before it is entered;
\* errors in interceptors are then ignored.
Commit(t) ==
    /\ Running(t, "commit")
    /\ LET f == Top(t)
       IN  /\ status' = [status EXCEPT ![f.sw].active = TargetPosition(f.target, @),
                                       ![f.sw].error = NewError(f, @)]
           /\ Continue(t, [f EXCEPT !.stage = "target", !.at = "enter",
                                    !.on_cancel = "IGNORE", !.on_error = "IGNORE"])
    /\ UNCHANGED <<published, requests>>

-----------------------------------------------------------------------------
(* set_current_state() and its interceptors                                *)

\* Interceptors are launched in threads of their own, after a notification.
PublishIfInvoked(f, phase) ==
    IF Invoked(f, phase) # {} THEN Publish(f.sw) ELSE UNCHANGED published

SettledState(state, settled) == IF state \in Settled THEN state ELSE settled

Enter(t) ==
    /\ Running(t, "enter")
    /\ LET f == Top(t)
           state == Entering(f)
       IN  /\ status' = [status EXCEPT
                  ![f.sw].current = state,
                  ![f.sw].settled = SettledState(state, @),
                  ![f.sw].pending = IF f.ic THEN TRUE ELSE @]
           /\ IF f.ic
              THEN PublishIfInvoked(f, "EARLY") /\ Continue(t, [f EXCEPT !.at = "EARLY", !.ok = TRUE])
              ELSE UNCHANGED published /\ Continue(t, [f EXCEPT !.at = "spread", !.ok = TRUE])
    /\ UNCHANGED requests

NextPoint == [EARLY |-> "NORMAL", NORMAL |-> "LATE", LATE |-> "cease"]

\* On to the next phase's interceptors, or out.
Advance(t, f) ==
    LET next == NextPoint[f.at]
    IN  /\ Continue(t, [f EXCEPT !.at = next])
        /\ IF next \in Phases
           THEN PublishIfInvoked([f EXCEPT !.at = next], next)
           ELSE UNCHANGED published

\* handle_diversion(): the frame stops, and the change that the policy asks
\* for is made first.
Divert(t, f, policy, error) ==
    LET stopped == [f EXCEPT !.at = "cease", !.ok = FALSE]
        s == status[f.sw]
        nested ==
            CASE policy = "FAIL" ->
                     SetTarget("FAIL", f.sw, IF error = "none" THEN Position(s.active) ELSE "FAILED", error)
              [] policy = "ABORT" ->
                     [SetTarget("ABORT", f.sw, s.settled, s.error) EXCEPT
                         !.ic = FALSE, !.desc = FALSE, !.stage = "target", !.at = "enter"]
              [] policy = "REVERT" ->
                     [SetTarget("REVERT", f.sw, s.settled, s.error) EXCEPT !.desc = FALSE]
    IN  stacks' = [stacks EXCEPT ![t] = <<nested, stopped>> \o Tail(@)]

\* The phase's synchronous interceptors have ended, some with an error.
\* First the switch's state is looked at: another thread may have changed it.
Finish(t, phase) ==
    /\ Running(t, phase)
    /\ LET f == Top(t)
           icept == Interceptors[f.sw]
           invoked == Invoked(f, phase)
           faulty == {n \in invoked : icept[n].faulty /\ ~icept[n].asynchronous}
           cancelled == status[f.sw].current # Entering(f)
           cancelPolicy == Policy(f.on_cancel, {icept[n].on_cancel : n \in invoked}, "IGNORE")
       IN  \E failed \in SUBSET faulty :
             LET policies == {icept[n].on_error : n \in failed}
                 errorPolicy == Policy(f.on_error, policies, "FAIL")
                 policy == IF cancelled THEN cancelPolicy
                           ELSE IF failed # {} THEN errorPolicy ELSE "IGNORE"
                 error == IF cancelled THEN "error" ELSE CarriedError(f.on_error, policies)
             IN  /\ UNCHANGED status
                 /\ IF policy = "IGNORE"
                    THEN Advance(t, f)
                    ELSE Divert(t, f, policy, error) /\ UNCHANGED published
    /\ UNCHANGED requests

CeaseOnSuccess(t) ==
    /\ Running(t, "cease")
    /\ status' = [status EXCEPT ![Top(t).sw].pending = @ /\ ~Top(t).ok]
    /\ Continue(t, [Top(t) EXCEPT !.at = "spread"])
    /\ UNCHANGED <<published, requests>>

Cease(t) ==
    /\ Running(t, "cease")
    /\ LET f == Top(t)
       IN  /\ status' = [status EXCEPT ![f.sw].pending = FALSE]
           /\ Continue(t, [f EXCEPT !.at = "spread"])
    /\ UNCHANGED <<published, requests>>

Successors(s) == {d \in Switches : s \in DOMAIN Dependencies[d]}

TriggeredWhenActive(s) == {d \in Successors(s) : status[s].current = "ACTIVE"}
Triggered(s) == {d \in Successors(s) : AutoTrigger(Dependencies[d][s], status[s].current)}

Free == {t \in Threads : stacks[t] = <<>>}

ProceedsIfIntercepted(f) == f.stage = "transition" /\ f.ok /\ f.ic
Proceeds(f) == f.stage = "transition" /\ f.ok

\* update_descendants() starts a detached set_auto(), in a thread of its own, for each successor that
\* the state of the switch triggers; the status is published; and the call
\* returns to set_target(), which goes on to the target or gives up.
Spread(t) ==
    /\ Running(t, "spread")
    /\ LET f == Top(t)
           triggered == IF f.desc THEN Triggered(f.sw) ELSE {}
           rest == IF Proceeds(f)
                   THEN <<[f EXCEPT !.at = "commit"]>> \o Tail(stacks[t])
                   ELSE Tail(stacks[t])
           hosts == Injection(triggered, Free)
       IN  /\ hosts # {}
           /\ LET host == CHOOSE h \in hosts : TRUE
              IN  stacks' = [u \in Threads |->
                      IF u = t THEN rest
                      ELSE IF \E d \in triggered : host[d] = u
                      THEN <<[SetTarget("descendant", CHOOSE d \in triggered : host[d] = u,
                                        "UNSET", "none") EXCEPT !.ic = f.ic]>>
                      ELSE stacks[u]]
           /\ UNCHANGED status
           /\ Publish(f.sw)
    /\ UNCHANGED requests

-----------------------------------------------------------------------------
\* A client calls set_target(), set_active(), set_error() or set_auto() in a
\* thread of its own.
Call(r) ==
    /\ requests < MaxRequests
    /\ Serial => Quiescent
    /\ Free # {}
    /\ requests' = requests + 1
    /\ stacks' = [stacks EXCEPT ![CHOOSE t \in Free : TRUE] =
           <<[SetTarget("client", r.sw, r.target, r.error) EXCEPT
                 !.ic = r.ic, !.reeval = r.reeval,
                 !.on_cancel = r.on_cancel, !.on_error = r.on_error]>>]
    /\ UNCHANGED <<status, published>>

Step(t) ==
    \/ Decide(t)
    \/ Commit(t)
    \/ Enter(t)
    \/ \E phase \in Phases : Finish(t, phase)
    \/ Cease(t)
    \/ Spread(t)

\* All requests made and all threads done.
Rest ==
    /\ Quiescent
    /\ requests = MaxRequests
    /\ UNCHANGED vars

Next ==
    \/ \E r \in Requests : Call(r)
    \/ \E t \in Threads : Step(t)
    \/ Rest

Spec == Init /\ [][Next]_vars

\* Threads are scheduled and interceptors return.
FairSpec == Spec /\ \A t \in Threads : WF_vars(Step(t))

-----------------------------------------------------------------------------
(* Properties                                                              *)

\* pending is only set while some thread is inside that switch's interceptors
\* or has yet to leave them, whoever else enters and leaves meanwhile
\* (LocalSwitch::set_current_state).
PendingHasRunner == \A s \in Switches :
    status[s].pending => \E t \in Threads : \E i \in DOMAIN stacks[t] :
        stacks[t][i].sw = s /\ stacks[t][i].at \in Phases \union {"cease"}

\* Once all requests and all that they triggered are done, no switch is left
\* half way: steps (a) to (f) of set_target() (switch.h++:317-346).
AtRestSettled == Quiescent => \A s \in Switches : status[s].current \notin Transitional

\* ... the position of a switch is the one its state stands for,
PositionAtRest == Quiescent => \A s \in Switches :
    status[s].current \in {"ACTIVE", "INACTIVE"} => status[s].current = Position(status[s].active)

\* ... an error is only kept by a switch that has failed (switch.h++:280-283),
ErrorAtRest == Quiescent => \A s \in Switches :
    status[s].error # "none" => status[s].current = "FAILED"

\* ... every switch with dependencies is what they imply, however the
\* triggered updates interleaved (switch.h++:330, 385), unless its own
\* interceptors made it fail,
Converged == Quiescent => \A s \in Switches :
    DOMAIN Dependencies[s] # {} /\ status[s].error = "none" =>
        status[s].current = AutoStateOf(s)

\* ... whoever listens to signal_status has last been told the switch's state,
\* position and error (every change ends in notify_status()).
AnnouncedAtRest == Quiescent => \A s \in Switches :
    status[s] = [published[s] EXCEPT !.pending = status[s].pending]

\* The policy FAIL leads to the failed state ("Transition to error state",
\* switchboard-types.h++:82), whichever interceptor or argument it came from.
FailLeadsToFailed == \A t \in Threads : \A i \in DOMAIN stacks[t] :
    stacks[t][i].cause = "FAIL" => stacks[t][i].target = "FAILED"

\* Whatever was requested, and whatever failed on the way, the switches end in states that
\* are consistent in themselves.
OutcomesFit == AtRestSettled /\ PositionAtRest /\ ErrorAtRest /\ FailLeadsToFailed

\* Every request ends, with every diversion nested in it and every update it
\* triggers, in a graph without cycles.
RequestsEnd == \A t \in Threads : stacks[t] # <<>> ~> stacks[t] = <<>>
=============================================================================
