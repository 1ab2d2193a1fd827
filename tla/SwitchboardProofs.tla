--------------------------- MODULE SwitchboardProofs ---------------------------
(***************************************************************************)
(* Theorems about Switchboard, for all switches and dependencies, all      *)
(* interceptors, all requests, serial or concurrent, and all numbers of    *)
(* threads and calls.                                                      *)
(***************************************************************************)
EXTENDS Switchboard, TLAPS

(* The inductive invariant *)

\* Some thread has a frame for switch s at one of the points, in whatever depth.
HasFrame(s, points) == \E t \in Threads : \E i \in DOMAIN stacks[t] :
    stacks[t][i].sw = s /\ stacks[t][i].at \in points

Inside == Phases \union {"cease"}
Begun == Points \ {"decide"}

PendingInv == \A s \in Switches : status[s].pending => HasFrame(s, Inside)

\* Whatever was stored and not yet published, the frame that stored it has yet to publish.
AnnounceInv == \A s \in Switches :
    SameStatus(status[s], published[s]) \/ HasFrame(s, Begun)

SwitchInv == TypeOK /\ PendingInv /\ AnnounceInv

-----------------------------------------------------------------------------
(* Rules *)

\* The first of the verdicts given.
LEMMA MinOfTwelve ==
    ASSUME NEW S \in SUBSET (1 .. 12), 12 \in S
    PROVE  Min(S) \in S
  <1>1. \A y \in S : y \in {1, 2, 3, 4, 5, 6, 7, 8, 9, 10, 11, 12}
    OBVIOUS
  <1>2. \E x \in S : \A y \in S : x <= y
    <2> SUFFICES ASSUME \A x \in S : \E y \in S : y < x PROVE FALSE
      OBVIOUS
    <2>1. 1 \notin S
      BY <1>1
    <2>2. 2 \notin S
      BY <1>1, <2>1
    <2>3. 3 \notin S
      BY <1>1, <2>1, <2>2
    <2>4. 4 \notin S
      BY <1>1, <2>1, <2>2, <2>3
    <2>5. 5 \notin S /\ 6 \notin S
      BY <1>1, <2>1, <2>2, <2>3, <2>4
    <2>6. 7 \notin S /\ 8 \notin S
      BY <1>1, <2>1, <2>2, <2>3, <2>4, <2>5
    <2>7. 9 \notin S /\ 10 \notin S
      BY <1>1, <2>1, <2>2, <2>3, <2>4, <2>5, <2>6
    <2> QED BY <1>1, <2>1, <2>2, <2>3, <2>4, <2>5, <2>6, <2>7
  <1> QED BY <1>2 DEF Min

\* The state that the dependencies imply is one: some verdict is always given.
LEMMA AutoStateType ==
    ASSUME NEW deps, NEW states, NEW state \in State, NEW active
    PROVE  AutoState(deps, states, state, active) \in State
  <1> DEFINE verdicts == Verdicts(deps, states, state, active)
             given == {i \in DOMAIN verdicts : verdicts[i].given}
  <1>1. DOMAIN verdicts = 1 .. 12
    BY DEF Verdicts
  <1>2. verdicts[12].given
    BY DEF Verdicts
  <1>3. \A i \in 1 .. 12 : verdicts[i].state \in State
    <2>1. Position(active) \in State
      BY DEF Position, State, Settled
    <2> QED BY <2>1 DEF Verdicts, State, Settled, Transitional
  <1>4. Min(given) \in given
    <2>1. given \in SUBSET (1 .. 12) /\ 12 \in given
      BY <1>1, <1>2
    <2> QED BY <2>1, MinOfTwelve
  <1> QED BY <1>1, <1>3, <1>4 DEF AutoState

\* The dominant policy is one of those given, or the default.
LEMMA DominantType ==
    ASSUME NEW policies \in SUBSET ExceptionHandling
    PROVE  Dominant(policies) \in ExceptionHandling
  <1> DEFINE all == policies \union {"DEFAULT"}
  <1>1. ExceptionHandling = {"DEFAULT", "IGNORE", "ABORT", "FAIL", "REVERT"}
    BY DEF ExceptionHandling, EHRank
  <1>2. /\ EHRank["DEFAULT"] = 0 /\ EHRank["IGNORE"] = 1 /\ EHRank["ABORT"] = 2
        /\ EHRank["FAIL"] = 3 /\ EHRank["REVERT"] = 4
    BY DEF EHRank
  <1>3. \E eh \in all : \A other \in policies : EHRank[other] <= EHRank[eh]
    BY <1>1, <1>2
  <1> QED BY <1>1, <1>3 DEF Dominant

\* A diversion is handled by one of three policies, or not at all.
LEMMA PolicyType ==
    ASSUME NEW explicit \in ExceptionHandling, NEW policies \in SUBSET ExceptionHandling,
           NEW default \in {"IGNORE", "FAIL"}
    PROVE  Policy(explicit, policies, default) \in {"IGNORE", "ABORT", "FAIL", "REVERT"}
  <1>1. ExceptionHandling = {"DEFAULT", "IGNORE", "ABORT", "FAIL", "REVERT"}
    BY DEF ExceptionHandling, EHRank
  <1> QED BY <1>1, DominantType DEF Policy

\* On the way to a state, and the state's position.
LEMMA TargetType ==
    ASSUME NEW state \in State, NEW active \in BOOLEAN
    PROVE  /\ TransitionState(state) \in State
           /\ TargetPosition(state, active) \in BOOLEAN
           /\ Position(active) \in State
  BY DEF TransitionState, TargetPosition, Position, State, Settled, Transitional

-----------------------------------------------------------------------------
(* Stacks *)

\* The frame on top of a stack and those below.
LEMMA TopType ==
    ASSUME TypeOK, NEW t \in Threads, stacks[t] # <<>>
    PROVE  /\ Top(t) \in Frame /\ Top(t) = stacks[t][1]
           /\ Tail(stacks[t]) \in Seq(Frame)
           /\ Len(stacks[t]) \in Nat \ {0} /\ DOMAIN stacks[t] = 1 .. Len(stacks[t])
           /\ Len(Tail(stacks[t])) = Len(stacks[t]) - 1
           /\ \A i \in 1 .. Len(stacks[t]) - 1 : Tail(stacks[t])[i] = stacks[t][i + 1]
  <1> DEFINE stack == stacks[t]
  <1>1. stack \in Seq(Frame) /\ stack # <<>>
    BY DEF TypeOK
  <1> HIDE DEF stack
  <1>2. Head(stack) \in Frame /\ Head(stack) = stack[1]
    BY <1>1
  <1>3. /\ Tail(stack) \in Seq(Frame)
        /\ Len(stack) \in Nat \ {0} /\ DOMAIN stack = 1 .. Len(stack)
        /\ Len(Tail(stack)) = Len(stack) - 1
        /\ \A i \in 1 .. Len(stack) - 1 : Tail(stack)[i] = stack[i + 1]
    BY <1>1
  <1> QED BY <1>2, <1>3 DEF stack, Top

\* The frames `frames` take the place of thread t's top frame; no other thread loses one.
Moves(t, frames) ==
    /\ stacks' \in [Threads -> Seq(Frame)]
    /\ stacks'[t] = frames \o Tail(stacks[t])
    /\ \A u \in Threads \ {t} : stacks[u] = <<>> \/ stacks'[u] = stacks[u]

\* A frame among the new ones is there ...
LEMMA FrameAdded ==
    ASSUME NEW t \in Threads, NEW frames \in Seq(Frame), Tail(stacks[t]) \in Seq(Frame),
           Moves(t, frames), NEW s, NEW points,
           NEW i \in DOMAIN frames, frames[i].sw = s, frames[i].at \in points
    PROVE  HasFrame(s, points)'
  <1>1. i \in DOMAIN (frames \o Tail(stacks[t])) /\ (frames \o Tail(stacks[t]))[i] = frames[i]
    OBVIOUS
  <1> QED BY <1>1 DEF Moves, HasFrame

\* ... and all others are still there, but for the one replaced.
LEMMA FramesKept ==
    ASSUME TypeOK, NEW t \in Threads, stacks[t] # <<>>, NEW frames \in Seq(Frame),
           Moves(t, frames), NEW s, NEW points, HasFrame(s, points),
           Top(t).sw # s \/ Top(t).at \notin points
    PROVE  HasFrame(s, points)'
  <1>1. PICK u \in Threads : \E i \in DOMAIN stacks[u] :
            stacks[u][i].sw = s /\ stacks[u][i].at \in points
    BY DEF HasFrame
  <1>4. PICK i \in DOMAIN stacks[u] : stacks[u][i].sw = s /\ stacks[u][i].at \in points
    BY <1>1
  <1>2. CASE u = t
    <2> DEFINE rest == Tail(stacks[t])
    <2>1. /\ rest \in Seq(Frame) /\ i \in 1 .. Len(stacks[t]) /\ Len(rest) = Len(stacks[t]) - 1
          /\ Len(stacks[t]) \in Nat
          /\ \A j \in 1 .. Len(rest) : rest[j] = stacks[t][j + 1]
      BY <1>4, <1>2, TopType
    <2>2. i # 1
      BY <1>4, <1>2, TopType
    <2>3. i - 1 \in 1 .. Len(rest) /\ rest[i - 1] = stacks[t][i]
      BY <2>1, <2>2
    <2> HIDE DEF rest
    <2>4. /\ Len(frames) + (i - 1) \in DOMAIN (frames \o rest)
          /\ (frames \o rest)[Len(frames) + (i - 1)] = rest[i - 1]
      BY <2>1, <2>3
    <2>5. stacks'[t] = frames \o rest
      BY DEF Moves, rest
    <2> QED BY <1>4, <1>2, <2>3, <2>4, <2>5 DEF HasFrame
  <1>3. CASE u # t
    BY <1>4, <1>3 DEF Moves, HasFrame, TypeOK
  <1> QED BY <1>2, <1>3

\* The top frame goes on.
LEMMA ContinueMoves ==
    ASSUME TypeOK, NEW t \in Threads, stacks[t] # <<>>, NEW f \in Frame, Continue(t, f)
    PROVE  Moves(t, <<f>>) /\ <<f>> \in Seq(Frame)
  <1>1. <<f>> \o Tail(stacks[t]) \in Seq(Frame)
    BY TopType
  <1> QED BY <1>1 DEF Continue, Moves, TypeOK

\* The top frame is done.
LEMMA ReturnMoves ==
    ASSUME TypeOK, NEW t \in Threads, stacks[t] # <<>>, Return(t)
    PROVE  Moves(t, <<>>) /\ <<>> \in Seq(Frame)
  <1>1. Tail(stacks[t]) \in Seq(Frame) /\ <<>> \o Tail(stacks[t]) = Tail(stacks[t])
    BY TopType
  <1> QED BY <1>1 DEF Return, Moves, TypeOK

-----------------------------------------------------------------------------
(* Steps *)

\* What a listener was told last is what the switch is, once it has been published.
LEMMA PublishStep ==
    ASSUME TypeOK, status' \in [Switches -> Status], NEW s \in Switches, Publish(s)
    PROVE  /\ published' \in [Switches -> Status]
           /\ SameStatus(status'[s], published'[s])
           /\ \A d \in Switches \ {s} : published'[d] = published[d]
  <1>1. SameStatus(status'[s], status'[s])
    BY DEF SameStatus, Status
  <1> QED BY <1>1 DEF Publish, TypeOK

LEMMA PublishIfInvokedStep ==
    ASSUME TypeOK, status' \in [Switches -> Status], NEW f \in Frame, NEW phase,
           PublishIfInvoked(f, phase)
    PROVE  /\ published' \in [Switches -> Status]
           /\ \A d \in Switches \ {f.sw} : published'[d] = published[d]
  <1>1. f.sw \in Switches
    BY DEF Frame
  <1>2. CASE Publish(f.sw)
    BY <1>1, <1>2, PublishStep
  <1>3. CASE UNCHANGED published
    BY <1>3 DEF TypeOK
  <1> QED BY <1>2, <1>3 DEF PublishIfInvoked

\* A frame that changes its switch's status, or none, and has yet to publish it.
LEMMA AnnounceStep ==
    ASSUME SwitchInv, NEW t \in Threads, stacks[t] # <<>>, NEW frames \in Seq(Frame),
           Moves(t, frames),
           NEW i \in DOMAIN frames, frames[i].sw = Top(t).sw, frames[i].at \in Begun,
           \A d \in Switches \ {Top(t).sw} :
               status'[d] = status[d] /\ published'[d] = published[d]
    PROVE  AnnounceInv'
  <1> SUFFICES ASSUME NEW s \in Switches
               PROVE  SameStatus(status'[s], published'[s]) \/ HasFrame(s, Begun)'
    BY DEF AnnounceInv
  <1>1. CASE s = Top(t).sw
    <2>1. Tail(stacks[t]) \in Seq(Frame)
      BY TopType DEF SwitchInv
    <2> QED BY <1>1, <2>1, FrameAdded
  <1>2. CASE s # Top(t).sw
    <2>1. HasFrame(s, Begun) => HasFrame(s, Begun)'
      BY <1>2, FramesKept DEF SwitchInv
    <2> QED BY <1>2, <2>1 DEF SwitchInv, AnnounceInv
  <1> QED BY <1>1, <1>2

\* A frame that leaves its switch pending only if it has yet to leave the interceptors, or if the
\* switch was pending for another.
LEMMA PendingStep ==
    ASSUME SwitchInv, NEW t \in Threads, stacks[t] # <<>>, NEW frames \in Seq(Frame),
           Moves(t, frames),
           \A d \in Switches \ {Top(t).sw} : status'[d] = status[d],
           status'[Top(t).sw].pending =>
               \/ \E i \in DOMAIN frames : frames[i].sw = Top(t).sw /\ frames[i].at \in Inside
               \/ status[Top(t).sw].pending /\ Top(t).at \notin Inside
    PROVE  PendingInv'
  <1> SUFFICES ASSUME NEW s \in Switches, status'[s].pending
               PROVE  HasFrame(s, Inside)'
    BY DEF PendingInv
  <1>1. ASSUME NEW i \in DOMAIN frames, frames[i].sw = s, frames[i].at \in Inside
        PROVE  HasFrame(s, Inside)'
    <2>1. Tail(stacks[t]) \in Seq(Frame)
      BY TopType DEF SwitchInv
    <2> QED BY <1>1, <2>1, FrameAdded
  <1>2. CASE s = Top(t).sw /\ status[s].pending /\ Top(t).at \notin Inside
    <2>1. HasFrame(s, Inside)
      BY <1>2 DEF SwitchInv, PendingInv
    <2> QED BY <1>2, <2>1, FramesKept DEF SwitchInv
  <1>3. CASE s # Top(t).sw
    <2>1. HasFrame(s, Inside)
      BY <1>3 DEF SwitchInv, PendingInv
    <2> QED BY <1>3, <2>1, FramesKept DEF SwitchInv
  <1> QED BY <1>1, <1>2, <1>3

\* The frame goes on with the same switch.
LEMMA ContinueStep ==
    ASSUME SwitchInv, NEW t \in Threads, stacks[t] # <<>>, NEW g \in Frame, Continue(t, g),
           g.sw = Top(t).sw, g.at \in Begun,
           status' \in [Switches -> Status], published' \in [Switches -> Status],
           requests' = requests,
           \A d \in Switches \ {Top(t).sw} :
               status'[d] = status[d] /\ published'[d] = published[d],
           status'[Top(t).sw].pending =>
               \/ g.at \in Inside
               \/ status[Top(t).sw].pending /\ Top(t).at \notin Inside
    PROVE  SwitchInv'
  <1>1. Moves(t, <<g>>) /\ <<g>> \in Seq(Frame)
    BY ContinueMoves DEF SwitchInv
  <1>2. 1 \in DOMAIN <<g>> /\ <<g>>[1] = g
    OBVIOUS
  <1>3. TypeOK'
    BY <1>1 DEF SwitchInv, TypeOK, Moves
  <1>4. AnnounceInv'
    BY <1>1, <1>2, AnnounceStep
  <1>5. PendingInv'
    BY <1>1, <1>2, PendingStep
  <1> QED BY <1>3, <1>4, <1>5 DEF SwitchInv

LEMMA PointSets ==
    /\ Points = {"decide", "commit", "enter", "cease", "spread", "EARLY", "NORMAL", "LATE"}
    /\ Begun = {"commit", "enter", "cease", "spread", "EARLY", "NORMAL", "LATE"}
    /\ Inside = {"cease", "EARLY", "NORMAL", "LATE"}
  BY DEF Points, Begun, Inside, Phases

\* The top frame returns without having changed anything.
LEMMA ReturnStep ==
    ASSUME SwitchInv, NEW t \in Threads, Running(t, "decide"), Return(t),
           UNCHANGED <<status, published, requests>>
    PROVE  SwitchInv'
  <1>1. stacks[t] # <<>> /\ Top(t).at \notin Begun /\ Top(t).at \notin Inside
    BY PointSets DEF Running
  <1>2. Moves(t, <<>>) /\ <<>> \in Seq(Frame)
    BY <1>1, ReturnMoves DEF SwitchInv
  <1>3. TypeOK'
    BY <1>2 DEF SwitchInv, TypeOK, Moves
  <1>4. \A s : /\ HasFrame(s, Begun) => HasFrame(s, Begun)'
               /\ HasFrame(s, Inside) => HasFrame(s, Inside)'
    BY <1>1, <1>2, FramesKept DEF SwitchInv
  <1> QED BY <1>3, <1>4 DEF SwitchInv, AnnounceInv, PendingInv

LEMMA DecideInv ==
    ASSUME SwitchInv, NEW t \in Threads, Decide(t)
    PROVE  SwitchInv'
  <1> DEFINE f == Top(t)
             target == IF f.target # "UNSET" THEN f.target
                       ELSE IF f.error # "none" THEN "FAILED" ELSE AutoStateOf(f.sw)
  <1>1. Running(t, "decide") /\ stacks[t] # <<>> /\ f.at = "decide"
    BY DEF Decide, Running
  <1>2. f \in Frame /\ f.sw \in Switches /\ f.target \in State
    BY <1>1, TopType DEF SwitchInv, Frame
  <1>3. target \in State
    <2>1. status[f.sw].current \in State
      BY <1>2 DEF SwitchInv, TypeOK, Status
    <2>2. AutoStateOf(f.sw) \in State
      BY <2>1, AutoStateType DEF AutoStateOf
    <2> QED BY <1>2, <2>2 DEF State, Settled
  <1>4. UNCHANGED <<status, published, requests>>
    BY DEF Decide
  <1>5. CASE Return(t)
    BY <1>1, <1>4, <1>5, ReturnStep
  <1>6. ASSUME NEW point \in {"commit", "enter"},
               Continue(t, [f EXCEPT !.target = target, !.at = point])
        PROVE  SwitchInv'
    <2> DEFINE g == [f EXCEPT !.target = target, !.at = point]
    <2>1. point \in Points /\ point \in Begun
      BY PointSets
    <2> HIDE DEF target
    <2>2. g \in Frame /\ g.sw = f.sw /\ g.at = point
      BY <1>2, <1>3, <2>1 DEF Frame
    <2>3. f.at \notin Inside
      BY <1>1, PointSets
    <2> HIDE DEF g, f
    <2> QED BY <1>1, <1>4, <1>6, <2>1, <2>2, <2>3, ContinueStep DEF SwitchInv, TypeOK, f, g
  <1> QED BY <1>5, <1>6 DEF Decide, Refuse

LEMMA CommitInv ==
    ASSUME SwitchInv, NEW t \in Threads, Commit(t)
    PROVE  SwitchInv'
  <1> DEFINE f == Top(t)
             g == [f EXCEPT !.stage = "target", !.at = "enter",
                            !.on_cancel = "IGNORE", !.on_error = "IGNORE"]
  <1>1. /\ stacks[t] # <<>> /\ f.at = "commit" /\ Continue(t, g)
        /\ UNCHANGED <<published, requests>>
        /\ status' = [status EXCEPT ![f.sw].active = TargetPosition(f.target, @),
                                    ![f.sw].error = NewError(f, @)]
    BY DEF Commit, Running
  <1>2. f \in Frame
    BY <1>1, TopType DEF SwitchInv
  <1>3. /\ f.sw \in Switches /\ f.target \in State /\ f.error \in Error
        /\ g \in Frame /\ g.sw = f.sw /\ g.at = "enter"
    BY <1>2, PointSets DEF Frame, ExceptionHandling, EHRank
  <1>4. status[f.sw] \in Status /\ status \in [Switches -> Status]
    BY <1>3 DEF SwitchInv, TypeOK
  <1>5. TargetPosition(f.target, status[f.sw].active) \in BOOLEAN
    BY <1>3, <1>4, TargetType DEF Status
  <1>6. /\ status' \in [Switches -> Status]
        /\ \A d \in Switches \ {f.sw} : status'[d] = status[d]
        /\ status'[f.sw].pending = status[f.sw].pending
    BY <1>1, <1>3, <1>4, <1>5 DEF Status, NewError
  <1>7. published' \in [Switches -> Status]
    BY <1>1 DEF SwitchInv, TypeOK
  <1>8. f.at \notin Inside /\ g.at \in Begun
    BY <1>1, <1>3, PointSets
  <1> HIDE DEF f, g
  <1> QED BY <1>1, <1>3, <1>6, <1>7, <1>8, ContinueStep DEF f

LEMMA EnterInv ==
    ASSUME SwitchInv, NEW t \in Threads, Enter(t)
    PROVE  SwitchInv'
  <1> DEFINE f == Top(t)
             state == Entering(f)
             g(point) == [f EXCEPT !.at = point, !.ok = TRUE]
  <1>1. /\ stacks[t] # <<>> /\ f.at = "enter" /\ requests' = requests
        /\ status' = [status EXCEPT
               ![f.sw].current = state,
               ![f.sw].settled = SettledState(state, @),
               ![f.sw].pending = IF f.ic THEN TRUE ELSE @]
    BY DEF Enter, Running
  <1>2. f \in Frame
    BY <1>1, TopType DEF SwitchInv
  <1>3. /\ f.sw \in Switches /\ f.target \in State /\ f.ic \in BOOLEAN
        /\ \A point \in Points : g(point) \in Frame /\ g(point).sw = f.sw /\ g(point).at = point
    BY <1>2 DEF Frame
  <1>4. status[f.sw] \in Status /\ status \in [Switches -> Status]
    BY <1>3 DEF SwitchInv, TypeOK
  <1>5. state \in State /\ SettledState(state, status[f.sw].settled) \in Settled
    BY <1>3, <1>4, TargetType DEF Entering, SettledState, Status
  <1>6. /\ status' \in [Switches -> Status]
        /\ \A d \in Switches \ {f.sw} : status'[d] = status[d]
        /\ status'[f.sw].pending = IF f.ic THEN TRUE ELSE status[f.sw].pending
    BY <1>1, <1>3, <1>4, <1>5 DEF Status
  <1>7. f.at \notin Inside /\ {"EARLY", "spread"} \subseteq Points \intersect Begun /\ "EARLY" \in Inside
    BY <1>1, PointSets
  <1> HIDE DEF g
  <1>8. CASE f.ic
    <2>1. PublishIfInvoked(f, "EARLY") /\ Continue(t, g("EARLY"))
      BY <1>8 DEF Enter, g
    <2>2. /\ published' \in [Switches -> Status]
          /\ \A d \in Switches \ {f.sw} : published'[d] = published[d]
      BY <1>2, <1>6, <2>1, PublishIfInvokedStep DEF SwitchInv
    <2>3. /\ g("EARLY") \in Frame /\ g("EARLY").sw = f.sw
          /\ g("EARLY").at \in Begun /\ g("EARLY").at \in Inside
      BY <1>3, <1>7
    <2>4. \A d \in Switches \ {f.sw} : status'[d] = status[d] /\ published'[d] = published[d]
      BY <1>6, <2>2
    <2> HIDE DEF f
    <2> QED BY <1>1, <1>6, <2>1, <2>2, <2>3, <2>4, ContinueStep DEF f
  <1>9. CASE ~f.ic
    <2>1. UNCHANGED published /\ Continue(t, g("spread"))
      BY <1>9 DEF Enter, g
    <2>2. published' \in [Switches -> Status]
      BY <2>1 DEF SwitchInv, TypeOK
    <2> HIDE DEF f
    <2> QED BY <1>1, <1>3, <1>6, <1>7, <1>9, <2>1, <2>2, ContinueStep DEF f
  <1> QED BY <1>8, <1>9

\* The interceptors of a phase have ended well.
LEMMA AdvanceInv ==
    ASSUME SwitchInv, NEW t \in Threads, NEW phase \in Phases, Running(t, phase),
           Advance(t, Top(t)), UNCHANGED <<status, requests>>
    PROVE  SwitchInv'
  <1> DEFINE f == Top(t)
             next == NextPoint[f.at]
             g == [f EXCEPT !.at = next]
  <1>1. stacks[t] # <<>> /\ f.at = phase /\ Continue(t, g)
    BY DEF Running, Advance
  <1>2. f \in Frame
    BY <1>1, TopType DEF SwitchInv
  <1>3. next \in Inside
    <2>1. NextPoint["EARLY"] = "NORMAL" /\ NextPoint["NORMAL"] = "LATE" /\ NextPoint["LATE"] = "cease"
      BY DEF NextPoint
    <2> QED BY <1>1, <2>1, PointSets DEF Phases
  <1>4. next \in Points /\ next \in Begun
    BY <1>3, PointSets
  <1> HIDE DEF next
  <1>5. g \in Frame /\ g.sw = f.sw /\ g.at = next /\ f.sw \in Switches
    BY <1>2, <1>4 DEF Frame
  <1>6. status' \in [Switches -> Status] /\ status' = status
    BY DEF SwitchInv, TypeOK
  <1>7. PublishIfInvoked(g, next) \/ UNCHANGED published
    BY DEF Advance, next
  <1>8. /\ published' \in [Switches -> Status]
        /\ \A d \in Switches \ {f.sw} : published'[d] = published[d]
    <2>1. CASE PublishIfInvoked(g, next)
      <3> HIDE DEF g, f
      <3> QED BY <1>5, <1>6, <2>1, PublishIfInvokedStep DEF SwitchInv
    <2>2. CASE UNCHANGED published
      BY <2>2 DEF SwitchInv, TypeOK
    <2> QED BY <1>7, <2>1, <2>2
  <1>9. \A d \in Switches \ {f.sw} : status'[d] = status[d] /\ published'[d] = published[d]
    BY <1>6, <1>8
  <1>10. g.at \in Begun /\ g.at \in Inside
    BY <1>3, <1>4, <1>5
  <1> HIDE DEF f, g
  <1> QED BY <1>1, <1>5, <1>6, <1>8, <1>9, <1>10, ContinueStep DEF f

\* A diverted frame waits, with the change that the policy asks for on top of it.
LEMMA DivertInv ==
    ASSUME SwitchInv, NEW t \in Threads, stacks[t] # <<>>,
           NEW policy \in {"ABORT", "FAIL", "REVERT"}, NEW error \in Error,
           Divert(t, Top(t), policy, error), UNCHANGED <<status, published, requests>>
    PROVE  SwitchInv'
  <1> DEFINE f == Top(t)
             s == status[f.sw]
             stopped == [f EXCEPT !.at = "cease", !.ok = FALSE]
             nested ==
                 CASE policy = "FAIL" ->
                          SetTarget("FAIL", f.sw,
                                    IF error = "none" THEN Position(s.active) ELSE "FAILED", error)
                   [] policy = "ABORT" ->
                          [SetTarget("ABORT", f.sw, s.settled, s.error) EXCEPT
                              !.ic = FALSE, !.desc = FALSE, !.stage = "target", !.at = "enter"]
                   [] policy = "REVERT" ->
                          [SetTarget("REVERT", f.sw, s.settled, s.error) EXCEPT !.desc = FALSE]
  <1>1. stacks' = [stacks EXCEPT ![t] = <<nested, stopped>> \o Tail(@)]
    BY DEF Divert
  <1>2. f \in Frame /\ Tail(stacks[t]) \in Seq(Frame)
    BY TopType DEF SwitchInv
  <1>3. f.sw \in Switches /\ s \in Status
    BY <1>2 DEF Frame, SwitchInv, TypeOK
  <1>4. /\ s.settled \in State /\ s.error \in Error /\ s.active \in BOOLEAN
        /\ Position(s.active) \in State /\ "FAILED" \in State
    BY <1>3, TargetType DEF Status, State, Settled
  <1>5. stopped \in Frame /\ stopped.sw = f.sw /\ stopped.at = "cease"
    BY <1>2, PointSets DEF Frame
  <1>6. ASSUME NEW cause \in {"FAIL", "ABORT", "REVERT"}, NEW target \in State, NEW e \in Error
        PROVE  /\ SetTarget(cause, f.sw, target, e) \in Frame
               /\ [SetTarget(cause, f.sw, target, e) EXCEPT !.desc = FALSE] \in Frame
               /\ [SetTarget(cause, f.sw, target, e) EXCEPT
                      !.ic = FALSE, !.desc = FALSE, !.stage = "target", !.at = "enter"] \in Frame
    BY <1>3, PointSets DEF SetTarget, Frame, ExceptionHandling, EHRank
  <1>7. nested \in Frame
    <2> HIDE DEF f, s
    <2>1. CASE policy = "FAIL"
      BY <1>4, <1>6, <2>1
    <2>2. CASE policy = "ABORT"
      BY <1>4, <1>6, <2>2
    <2>3. CASE policy = "REVERT"
      BY <1>4, <1>6, <2>3
    <2> QED BY <2>1, <2>2, <2>3
  <1> HIDE DEF nested, stopped
  <1> DEFINE frames == <<nested, stopped>>
  <1>8. frames \in Seq(Frame) /\ 2 \in DOMAIN frames /\ frames[2] = stopped
    BY <1>5, <1>7
  <1>9. Moves(t, frames)
    <2>1. frames \o Tail(stacks[t]) \in Seq(Frame)
      BY <1>2, <1>8
    <2> QED BY <1>1, <2>1 DEF Moves, SwitchInv, TypeOK
  <1>10. "cease" \in Begun /\ "cease" \in Inside
    BY PointSets
  <1>11. TypeOK'
    BY <1>9 DEF SwitchInv, TypeOK, Moves
  <1> HIDE DEF frames, f
  <1>12. AnnounceInv'
    BY <1>5, <1>8, <1>9, <1>10, AnnounceStep DEF f
  <1>13. PendingInv'
    BY <1>5, <1>8, <1>9, <1>10, PendingStep DEF f
  <1> QED BY <1>11, <1>12, <1>13 DEF SwitchInv

LEMMA FinishInv ==
    ASSUME SwitchInv, NEW t \in Threads, NEW phase \in Phases, Finish(t, phase)
    PROVE  SwitchInv'
  <1> DEFINE f == Top(t)
             icept == Interceptors[f.sw]
             invoked == Invoked(f, phase)
             faulty == {n \in invoked : icept[n].faulty /\ ~icept[n].asynchronous}
             cancelled == status[f.sw].current # Entering(f)
             cancelPolicy == Policy(f.on_cancel, {icept[n].on_cancel : n \in invoked}, "IGNORE")
  <1>1. Running(t, phase) /\ stacks[t] # <<>> /\ UNCHANGED <<status, requests>>
    BY DEF Finish, Running
  <1>2. /\ f \in Frame /\ f.sw \in Switches
        /\ f.on_cancel \in ExceptionHandling /\ f.on_error \in ExceptionHandling
    BY <1>1, TopType DEF SwitchInv, Frame
  <1>3. \A n \in invoked : icept[n].on_cancel \in ExceptionHandling
                           /\ icept[n].on_error \in ExceptionHandling
    BY <1>2, SwitchboardAssumption DEF Invoked, Interceptor
  <1>4. PICK failed \in SUBSET faulty :
            LET policies == {icept[n].on_error : n \in failed}
                errorPolicy == Policy(f.on_error, policies, "FAIL")
                policy == IF cancelled THEN cancelPolicy
                          ELSE IF failed # {} THEN errorPolicy ELSE "IGNORE"
                error == IF cancelled THEN "error" ELSE CarriedError(f.on_error, policies)
            IN  IF policy = "IGNORE"
                THEN Advance(t, f)
                ELSE Divert(t, f, policy, error) /\ UNCHANGED published
    BY DEF Finish
  <1> DEFINE policies == {icept[n].on_error : n \in failed}
             errorPolicy == Policy(f.on_error, policies, "FAIL")
             policy == IF cancelled THEN cancelPolicy
                       ELSE IF failed # {} THEN errorPolicy ELSE "IGNORE"
             error == IF cancelled THEN "error" ELSE CarriedError(f.on_error, policies)
  <1>5. cancelPolicy \in {"IGNORE", "ABORT", "FAIL", "REVERT"}
    <2>1. {icept[n].on_cancel : n \in invoked} \in SUBSET ExceptionHandling
      BY <1>3
    <2> QED BY <1>2, <2>1, PolicyType
  <1>6. errorPolicy \in {"IGNORE", "ABORT", "FAIL", "REVERT"}
    <2>1. policies \in SUBSET ExceptionHandling
      BY <1>3
    <2> QED BY <1>2, <2>1, PolicyType
  <1>7. error \in Error
    BY DEF Error, CarriedError
  <1> HIDE DEF f, icept, invoked, faulty, cancelled, cancelPolicy, errorPolicy, error
  <1>8. policy \in {"IGNORE", "ABORT", "FAIL", "REVERT"}
    BY <1>5, <1>6
  <1>9. IF policy = "IGNORE" THEN Advance(t, f) ELSE Divert(t, f, policy, error) /\ UNCHANGED published
    BY <1>4 DEF errorPolicy, error
  <1> HIDE DEF policy
  <1>10. CASE policy = "IGNORE"
    BY <1>1, <1>9, <1>10, AdvanceInv DEF f
  <1>11. CASE policy # "IGNORE"
    BY <1>1, <1>7, <1>8, <1>9, <1>11, DivertInv DEF f
  <1> QED BY <1>10, <1>11

\* Whoever leaves the interceptors clears the mark, also for those still inside.
LEMMA CeaseInv ==
    ASSUME SwitchInv, NEW t \in Threads, Cease(t)
    PROVE  SwitchInv'
  <1> DEFINE f == Top(t)
             g == [f EXCEPT !.at = "spread"]
  <1>1. /\ stacks[t] # <<>> /\ Continue(t, g) /\ UNCHANGED <<published, requests>>
        /\ status' = [status EXCEPT ![f.sw].pending = FALSE]
    BY DEF Cease, Running
  <1>2. f \in Frame
    BY <1>1, TopType DEF SwitchInv
  <1>3. f.sw \in Switches /\ g \in Frame /\ g.sw = f.sw /\ g.at \in Begun
    BY <1>2, PointSets DEF Frame
  <1>4. /\ status' \in [Switches -> Status] /\ published' \in [Switches -> Status]
        /\ \A d \in Switches \ {f.sw} : status'[d] = status[d] /\ published'[d] = published[d]
        /\ ~status'[f.sw].pending
    BY <1>1, <1>3 DEF SwitchInv, TypeOK, Status
  <1> HIDE DEF f, g
  <1> QED BY <1>1, <1>3, <1>4, ContinueStep DEF f

\* The threads for the descendants are free ones; the frame goes on or ends, and what its switch
\* is has been published.
LEMMA SpreadInv ==
    ASSUME SwitchInv, NEW t \in Threads, Spread(t)
    PROVE  SwitchInv'
  <1> DEFINE f == Top(t)
             triggered == IF f.desc THEN Triggered(f.sw) ELSE {}
             hosts == Injection(triggered, Free)
             host == CHOOSE h \in hosts : TRUE
             g == [f EXCEPT !.at = "commit"]
             frames == IF Proceeds(f) THEN <<g>> ELSE <<>>
             child(u) == [SetTarget("descendant", CHOOSE d \in triggered : host[d] = u,
                                    "UNSET", "none") EXCEPT !.ic = f.ic]
  <1>1. /\ stacks[t] # <<>> /\ f.at = "spread" /\ UNCHANGED <<status, requests>> /\ Publish(f.sw)
        /\ hosts # {}
    BY DEF Spread, Running
  <1>2. f \in Frame /\ Tail(stacks[t]) \in Seq(Frame)
    BY <1>1, TopType DEF SwitchInv
  <1>3. /\ f.sw \in Switches /\ f.ic \in BOOLEAN
        /\ g \in Frame /\ frames \in Seq(Frame)
    <2>1. f.sw \in Switches /\ f.ic \in BOOLEAN /\ g \in Frame
      BY <1>2, PointSets DEF Frame
    <2> HIDE DEF g
    <2>2. <<g>> \in Seq(Frame) /\ <<>> \in Seq(Frame)
      BY <2>1
    <2> QED BY <2>1, <2>2
  <1>4. host \in [triggered -> Free]
    <2>1. host \in hosts
      BY <1>1
    <2> QED BY <2>1 DEF Injection
  <1>5. \A d \in triggered : host[d] \in Threads /\ stacks[host[d]] = <<>>
    BY <1>4 DEF Free
  <1>6. stacks' = [u \in Threads |->
                      IF u = t THEN frames \o Tail(stacks[t])
                      ELSE IF \E d \in triggered : host[d] = u THEN <<child(u)>>
                      ELSE stacks[u]]
    <2>1. (IF Proceeds(f) THEN <<g>> \o Tail(stacks[t]) ELSE Tail(stacks[t]))
              = frames \o Tail(stacks[t])
      <3>1. <<>> \o Tail(stacks[t]) = Tail(stacks[t])
        BY <1>2
      <3> QED BY <3>1
    <2> DEFINE rest == IF Proceeds(f) THEN <<g>> \o Tail(stacks[t]) ELSE Tail(stacks[t])
    <2>2. stacks' = [u \in Threads |->
                        IF u = t THEN rest
                        ELSE IF \E d \in triggered : host[d] = u THEN <<child(u)>>
                        ELSE stacks[u]]
      BY Zenon DEF Spread
    <2>3. rest = frames \o Tail(stacks[t])
      BY <2>1
    <2> HIDE DEF rest, frames, child, host, triggered
    <2> QED BY <2>2, <2>3
  <1>7. ASSUME NEW u, \E d \in triggered : host[d] = u
        PROVE  <<child(u)>> \in Seq(Frame)
    <2> DEFINE d == CHOOSE d \in triggered : host[d] = u
    <2>1. d \in triggered
      BY <1>7
    <2>2. d \in Switches
      BY <2>1 DEF Triggered, Successors
    <2> HIDE DEF d
    <2>4. "UNSET" \in State /\ "none" \in Error /\ "DEFAULT" \in ExceptionHandling
      BY DEF State, Error, ExceptionHandling, EHRank
    <2>3. [SetTarget("descendant", d, "UNSET", "none") EXCEPT !.ic = f.ic] \in Frame
      <3> HIDE DEF f
      <3> QED BY <1>3, <2>2, <2>4, PointSets DEF SetTarget, Frame
    <2> QED BY <2>3 DEF d
  <1> HIDE DEF frames, child, host, triggered
  <1>8. stacks' \in [Threads -> Seq(Frame)]
    <2>1. frames \o Tail(stacks[t]) \in Seq(Frame)
      BY <1>2, <1>3
    <2> QED BY <1>6, <1>7, <2>1 DEF SwitchInv, TypeOK
  <1>9. Moves(t, frames)
    BY <1>5, <1>6, <1>8 DEF Moves
  <1>10. /\ status' \in [Switches -> Status] /\ published' \in [Switches -> Status]
         /\ SameStatus(status'[f.sw], published'[f.sw])
         /\ \A d \in Switches \ {f.sw} : published'[d] = published[d]
    <2>1. status' \in [Switches -> Status]
      BY <1>1 DEF SwitchInv, TypeOK
    <2> QED BY <1>1, <1>3, <2>1, PublishStep DEF SwitchInv
  <1>11. TypeOK'
    BY <1>1, <1>8, <1>10 DEF SwitchInv, TypeOK
  <1>12. PendingInv'
    <2>1. f.at \notin Inside
      BY <1>1, PointSets
    <2>2. \A s : HasFrame(s, Inside) => HasFrame(s, Inside)'
      BY <1>1, <1>3, <1>9, <2>1, FramesKept DEF SwitchInv
    <2> QED BY <1>1, <2>2 DEF SwitchInv, PendingInv
  <1>13. AnnounceInv'
    <2> SUFFICES ASSUME NEW s \in Switches
                 PROVE  SameStatus(status'[s], published'[s]) \/ HasFrame(s, Begun)'
      BY DEF AnnounceInv
    <2>1. CASE s = f.sw
      BY <1>10, <2>1
    <2>2. CASE s # f.sw
      <3>1. HasFrame(s, Begun) => HasFrame(s, Begun)'
        BY <1>1, <1>3, <1>9, <2>2, FramesKept DEF SwitchInv
      <3> QED BY <1>1, <1>10, <2>2, <3>1 DEF SwitchInv, AnnounceInv
    <2> QED BY <2>1, <2>2
  <1> QED BY <1>11, <1>12, <1>13 DEF SwitchInv

\* A client's call takes a free thread.
LEMMA CallInv ==
    ASSUME SwitchInv, NEW r \in Requests, Call(r)
    PROVE  SwitchInv'
  <1> DEFINE t == CHOOSE t \in Free : TRUE
             g == [SetTarget("client", r.sw, r.target, r.error) EXCEPT
                      !.ic = r.ic, !.reeval = r.reeval,
                      !.on_cancel = r.on_cancel, !.on_error = r.on_error]
  <1>1. t \in Threads /\ stacks[t] = <<>>
    BY DEF Call, Free
  <1>2. g \in Frame
    <2>1. r \in Request
      BY SwitchboardAssumption
    <2> QED BY <2>1, PointSets DEF Request, SetTarget, Frame, ExceptionHandling, EHRank
  <1>3. stacks' = [stacks EXCEPT ![t] = <<g>>] /\ UNCHANGED <<status, published>> /\ requests' \in Nat
    BY DEF Call, SwitchInv, TypeOK
  <1> HIDE DEF t, g
  <1>4. TypeOK'
    BY <1>1, <1>2, <1>3 DEF SwitchInv, TypeOK
  <1>5. \A u \in Threads : u # t => stacks'[u] = stacks[u]
    BY <1>3 DEF SwitchInv, TypeOK
  <1>6. \A s, points : HasFrame(s, points) => HasFrame(s, points)'
    BY <1>1, <1>5 DEF HasFrame
  <1> QED BY <1>3, <1>4, <1>6 DEF SwitchInv, PendingInv, AnnounceInv

LEMMA SwitchInvStep == SwitchInv /\ [Next]_vars => SwitchInv'
  <1> SUFFICES ASSUME SwitchInv, [Next]_vars PROVE SwitchInv'
    OBVIOUS
  <1>1. ASSUME NEW t \in Threads, Step(t)
        PROVE  SwitchInv'
    BY <1>1, DecideInv, CommitInv, EnterInv, FinishInv, CeaseInv, SpreadInv DEF Step
  <1>2. ASSUME UNCHANGED vars
        PROVE  SwitchInv'
    BY <1>2 DEF vars, SwitchInv, TypeOK, PendingInv, AnnounceInv, HasFrame
  <1> QED BY <1>1, <1>2, CallInv DEF Next, Rest

LEMMA SwitchInvInit == Init => SwitchInv
  <1> SUFFICES ASSUME Init PROVE SwitchInv
    OBVIOUS
  <1>1. PICK on \in [Switches -> BOOLEAN] :
            status = [s \in Switches |->
                [current |-> Position(on[s]), settled |-> Position(on[s]), active |-> on[s],
                 pending |-> FALSE, error |-> "none"]]
    BY DEF Init
  <1>2. \A s \in Switches : Position(on[s]) \in State /\ Position(on[s]) \in Settled
    BY DEF Position, State, Settled
  <1>3. status \in [Switches -> Status] /\ published = status
    BY <1>1, <1>2 DEF Init, Status, Error
  <1>4. TypeOK
    BY <1>3 DEF Init, TypeOK
  <1>5. PendingInv
    BY <1>1 DEF PendingInv
  <1>6. AnnounceInv
    BY <1>3 DEF AnnounceInv, SameStatus, Status
  <1> QED BY <1>4, <1>5, <1>6 DEF SwitchInv

-----------------------------------------------------------------------------
(* Theorems *)

LEMMA SwitchInvAlways == Spec => []SwitchInv
  BY SwitchInvInit, SwitchInvStep, PTL DEF Spec

\* Whatever is requested, fails or is diverted: states, positions and policies are always of their
\* types, so that no resolution, no policy and no phase is missing a case.
THEOREM SwitchTypes == Spec => []TypeOK
  BY SwitchInvAlways, PTL DEF SwitchInv

\* A switch marked pending has somebody in its interceptors, however the threads interleave and
\* the diversions nest.
THEOREM Pendings == Spec => []PendingHasRunner
  <1>1. SwitchInv => PendingHasRunner
    BY DEF SwitchInv, PendingInv, HasFrame, Inside, PendingHasRunner
  <1> QED BY <1>1, SwitchInvAlways, PTL

\* Once no thread is left, whoever listens has last been told what each switch is.
THEOREM Announced == Spec => []AnnouncedAtRest
  <1>1. SwitchInv => AnnouncedAtRest
    <2> SUFFICES ASSUME SwitchInv, Quiescent, NEW s \in Switches
                 PROVE  status[s] = [published[s] EXCEPT !.pending = status[s].pending]
      BY DEF AnnouncedAtRest
    <2>1. SameStatus(status[s], published[s])
      BY DEF SwitchInv, AnnounceInv, HasFrame, Quiescent
    <2>2. status[s] \in Status /\ published[s] \in Status
      BY DEF SwitchInv, TypeOK
    <2> QED BY <2>1, <2>2 DEF SameStatus, Status
  <1> QED BY <1>1, SwitchInvAlways, PTL
=============================================================================
