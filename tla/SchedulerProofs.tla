--------------------------- MODULE SchedulerProofs ---------------------------
(***************************************************************************)
(* The scheduler of periodic tasks: no task sleeps for ever, each keeps    *)
(* its beat and none is called before its time, for any tasks, handles,    *)
(* intervals and timer threads.                                            *)
(*                                                                         *)
(* The invariant follows a task's alarm: who waits for its lock has one,   *)
(* or its lock is free (WakeInv); a registered task has none but that of   *)
(* its slot (AlarmInv); the timer sleeps to the slot that it will release  *)
(* (TimerInv).                                                             *)
(***************************************************************************)
EXTENDS Scheduler, FiniteSetTheorems, WellFoundedInduction, TLAPS

--------------------------------------------------------------------------
(* Integers *)

LEMMA ModType == \A a \in Int, f \in Nat \ {0} : a % f \in 0..(f - 1)
  OBVIOUS

LEMMA DivType == \A a \in Int, f \in Nat \ {0} : a \div f \in Int
  OBVIOUS

LEMMA DivMod == \A a \in Int, f \in Nat \ {0} : a = f * (a \div f) + (a % f)
  OBVIOUS

LEMMA MultipleMod == \A q \in Int, f \in Nat \ {0} : (f * q) % f = 0
  OBVIOUS

LEMMA MaxOfTwo ==
    ASSUME NEW a \in Int, NEW b \in Int
    PROVE  Max({a, b}) \in Int /\ Max({a, b}) >= a /\ Max({a, b}) >= b
<1>1. \E x \in {a, b} : \A y \in {a, b} : x >= y
  <2>1. CASE a >= b
    BY <2>1
  <2>2. CASE b >= a
    BY <2>2
  <2> QED BY <2>1, <2>2
<1> QED BY <1>1 DEF Max

\* A set of integers that is bounded below has a minimum: the natural numbers are well-founded.
LEMMA LeastNat ==
    ASSUME NEW S \in SUBSET Nat, S # {}
    PROVE  \E x \in S : \A y \in S : x <= y
<1> DEFINE Less == {ss \in Nat \X Nat : ss[1] < ss[2]}
<1>1. IsWellFoundedOn(Less, Nat)
  BY NatLessThanWellFounded DEF OpToRel
<1>2. PICK x \in S : \A y \in S : ~ (<<y, x>> \in Less)
  <2> HIDE DEF Less
  <2> QED BY <1>1, WFMin, Zenon
<1>3. \A y \in S : ~ (y < x)
  BY <1>2
<1> QED BY <1>3

LEMMA MinOfBounded ==
    ASSUME NEW S \in SUBSET Int, S # {}, NEW b \in Int, \A x \in S : b <= x
    PROVE  Min(S) \in S /\ \A x \in S : Min(S) <= x
<1> DEFINE T == {x - b : x \in S}
<1>1. T \in SUBSET Nat
  OBVIOUS
<1>2. PICK t \in T : \A u \in T : t <= u
  <2>1. T # {}
    OBVIOUS
  <2> HIDE DEF T
  <2> QED BY <1>1, <2>1, LeastNat
<1>3. PICK x \in S : t = x - b
  OBVIOUS
<1>4. \A y \in S : x - b <= y - b
  BY <1>2, <1>3
<1>5. \E z \in S : \A y \in S : z <= y
  BY <1>4
<1> QED BY <1>5 DEF Min

--------------------------------------------------------------------------
(* The invariant *)

\* There is a first alarm.
BelowInv == \E b \in Int : \A a \in alarms : b <= a[1]

NewInv ==
    \A t \in Tasks : pc[t] = "new" =>
        /\ t \notin unlocked /\ slot[t] = 0
        /\ \A a \in alarms : a[2] # t
        /\ \A h \in Handles : tasks[h] # t

HomeInv == \A h \in Handles : tasks[h] # None => handle[tasks[h]] = h

WakeInv ==
    \A t \in Tasks \ dropped :
        /\ pc[t] \in {"claim", "start", "spawn", "asleep"} =>
               t \in unlocked \/ (Registered(t) /\ <<slot[t], t>> \in alarms)
        /\ pc[t] \in {"call", "requeue"} => t \in unlocked \/ Registered(t)

AlarmInv ==
    \A t \in Tasks : Registered(t) =>
        /\ pc[t] = "died" => slot[t] = 0
        /\ pc[t] # "died" => \A a \in alarms : a[2] = t =>
               a[1] = slot[t] /\ t \notin unlocked /\ pc[t] \notin {"call", "requeue"}
        /\ pc[t] \in {"call", "requeue"} => t \notin unlocked

AtMostOne == \A k, l \in Timers : timer[k].pc # "off" /\ timer[l].pc # "off" => k = l

TimerInv ==
    AtMostOne =>
        /\ 0 <= nextcount /\ starttime <= now
        /\ \A a \in alarms : 0 <= a[1]
        /\ (\A k \in Timers : timer[k].pc = "off") => nextcount = 0
        /\ \A k \in Timers : /\ timer[k].pc = "begin" => nextcount = 0
                             /\ timer[k].pc = "sleep" =>
                                    timer[k].nexttime = starttime + nextcount

TaskInv == BelowInv /\ NewInv /\ HomeInv /\ WakeInv /\ AlarmInv

SchedInv == TypeOK /\ TaskInv /\ TimerInv

LEMMA SchedInitInv == Init => SchedInv
<1> SUFFICES ASSUME Init PROVE SchedInv
  OBVIOUS
<1> USE JobsAssumption
<1>1. TypeOK
  BY DEF Init, TypeOK, Points
<1>2. BelowInv /\ NewInv /\ HomeInv
  BY DEF Init, BelowInv, NewInv, HomeInv
<1>3. WakeInv /\ AlarmInv
  BY DEF Init, WakeInv, AlarmInv, Registered
<1>4. TimerInv
  BY DEF Init, TimerInv
<1> QED BY <1>1, <1>2, <1>3, <1>4 DEF SchedInv, TaskInv

--------------------------------------------------------------------------
(* Slots *)

\* A job's slot is never before the timer's; its interval is not empty.
LEMMA FrequencyType == \A j \in Jobs : Frequency(j) \in Nat \ {0}
<1> SUFFICES ASSUME NEW j \in Jobs PROVE Frequency(j) \in Nat \ {0}
  OBVIOUS
<1>1. j.interval \in Int /\ 1 \in Int
  BY JobsAssumption
<1>2. Frequency(j) \in Int /\ Frequency(j) >= 1
  BY <1>1, MaxOfTwo, Zenon DEF Frequency
<1> QED BY <1>2

LEMMA FirstSlotType ==
    ASSUME TypeOK, NEW j \in Jobs
    PROVE  FirstSlot(j) \in Int /\ (0 <= nextcount => 0 <= FirstSlot(j))
<1> USE JobsAssumption
<1> DEFINE first == nextcount + j.delay
           at == starttime + first
           aligned == ((at - ((at - TZ) % j.interval)) \div Second) * Second
<1>1. first \in Int /\ at \in Int /\ starttime \in Nat
  BY DEF TypeOK
<1>2. CASE j.align
  <2>1. (at - TZ) % j.interval \in Int
    BY <1>1, <1>2, ModType
  <2>2. (at - ((at - TZ) % j.interval)) \div Second \in Int
    BY <1>1, <2>1, DivType
  <2>3. aligned \in Int
    BY <2>2
  <2>4. FirstSlot(j) = Max({0, aligned + j.interval - starttime + 1})
    BY <1>2 DEF FirstSlot, AlignedSlot
  <2> HIDE DEF aligned
  <2>5. aligned + j.interval - starttime + 1 \in Int
    BY <1>1, <2>3
  <2>6. 0 \in Int
    OBVIOUS
  <2>7. FirstSlot(j) \in Int /\ FirstSlot(j) >= 0
    BY <2>4, <2>5, <2>6, MaxOfTwo, Zenon
  <2> QED BY <2>7
<1>3. CASE ~j.align
  BY <1>1, <1>3 DEF FirstSlot, TypeOK
<1> QED BY <1>2, <1>3

\* The next slot is not before the timer's, and keeps the beat.
LEMMA NextSlotBeat ==
    ASSUME NEW s \in Int, NEW f \in Nat \ {0}, nextcount \in Int
    PROVE  /\ NextSlot(s, f) \in Int
           /\ 0 <= nextcount => 0 <= NextSlot(s, f)
           /\ (NextSlot(s, f) - s) % f = 0
<1> DEFINE a == nextcount - 1 - s
           d == a \div f
<1>1. a \in Int /\ d \in Int /\ a % f \in 0..(f - 1)
  BY ModType, DivType
<1>2. a = f * d + (a % f)
  BY DivMod
<1>3. CASE s < nextcount
  <2>1. NextSlot(s, f) = nextcount - 1 + f - (a % f)
    BY <1>3 DEF NextSlot
  <2>2. f * d \in Int /\ f * (d + 1) = f * d + f
    BY <1>1
  <2>3. NextSlot(s, f) - s = a - (a % f) + f
    <3>1. a % f \in Int
      BY <1>1
    <3>2. \A m \in Int : (nextcount - 1 + f - m) - s = (nextcount - 1 - s) - m + f
      OBVIOUS
    <3> QED BY <2>1, <3>1, <3>2
  <2>4. NextSlot(s, f) - s = f * (d + 1)
    <3> HIDE DEF a, d
    <3> QED BY <1>1, <1>2, <2>2, <2>3
  <2>5. NextSlot(s, f) \in Int /\ NextSlot(s, f) >= nextcount
    BY <1>1, <2>1
  <2> QED BY <1>1, <2>4, <2>5, MultipleMod
<1>4. CASE ~(s < nextcount)
  <2>1. NextSlot(s, f) = s
    BY <1>4 DEF NextSlot
  <2>2. s - s = f * 0
    OBVIOUS
  <2>3. (s - s) % f = 0
    BY <2>2, MultipleMod
  <2> QED BY <1>4, <2>1, <2>3
<1> QED BY <1>3, <1>4

--------------------------------------------------------------------------
(* A thread of a task that goes on and leaves the schedule alone *)

LEMMA TaskMoves ==
    ASSUME TypeOK, TaskInv, NEW t \in Tasks, NEW p, Goto(t, p),
           UNCHANGED <<alarms, unlocked, tasks, handle, slot, dropped>>,
           pc[t] # "new", p \notin {"new", "died", "claim"},
           p \in {"start", "spawn", "asleep"} => pc[t] \in {"claim", "start", "spawn"},
           p \in {"call", "requeue"} => pc[t] = "call",
           pc[t] # "died"
    PROVE  TaskInv'
<1>1. \A u \in Tasks : pc'[u] = IF u = t THEN p ELSE pc[u]
  BY DEF TypeOK, Goto
<1>2. \A u \in Tasks : Registered(u)' <=> Registered(u)
  BY DEF Registered
<1>3. BelowInv' /\ HomeInv'
  BY DEF TaskInv, BelowInv, HomeInv
<1>4. NewInv'
  BY <1>1 DEF TaskInv, NewInv
<1>5. WakeInv'
  BY <1>1, <1>2 DEF TaskInv, WakeInv
<1>6. AlarmInv'
  BY <1>1, <1>2 DEF TaskInv, AlarmInv
<1> QED BY <1>3, <1>4, <1>5, <1>6 DEF TaskInv

LEMMA TasksRest ==
    ASSUME TaskInv, UNCHANGED <<alarms, unlocked, tasks, handle, slot, dropped, pc>>
    PROVE  TaskInv'
<1>1. \A u \in Tasks : Registered(u)' <=> Registered(u)
  BY DEF Registered
<1>2. BelowInv' /\ HomeInv' /\ NewInv'
  BY DEF TaskInv, BelowInv, HomeInv, NewInv
<1>3. WakeInv' /\ AlarmInv'
  BY <1>1 DEF TaskInv, WakeInv, AlarmInv
<1> QED BY <1>2, <1>3 DEF TaskInv

LEMMA TimerRests ==
    ASSUME TypeOK, TimerInv, UNCHANGED <<starttime, nextcount, timer>>, now <= now',
           now' \in Int, alarms' \subseteq alarms
    PROVE  TimerInv'
<1>1. AtMostOne' <=> AtMostOne
  BY DEF AtMostOne
<1>2. starttime <= now => starttime <= now'
  BY DEF TypeOK
<1> QED BY <1>1, <1>2 DEF TimerInv

LEMMA AgainPoint ==
    ASSUME NEW t \in Tasks, NEW n, Again(t, n)
    PROVE  \E p \in {"exit", "asleep"} : Goto(t, p)
  BY DEF Again

LEMMA ClaimInv ==
    ASSUME SchedInv, NEW t \in Tasks, Claim(t) PROVE SchedInv'
<1>1. TypeOK'
  BY DEF SchedInv, Claim, TypeOK, Goto, Points, clockVars, callVars
<1>2. TaskInv'
  BY TaskMoves DEF SchedInv, Claim, callVars
<1>3. TimerInv'
  BY TimerRests DEF SchedInv, Claim, clockVars, TypeOK
<1> QED BY <1>1, <1>2, <1>3 DEF SchedInv

LEMMA StartTestInv ==
    ASSUME SchedInv, NEW t \in Tasks, StartTest(t) PROVE SchedInv'
<1>1. PICK p \in {"spawn", "exit", "asleep"} : Goto(t, p)
  BY AgainPoint DEF StartTest
<1>2. TypeOK'
  BY <1>1 DEF SchedInv, StartTest, TypeOK, Goto, Points, clockVars, callVars, taskVars
<1>3. TaskInv'
  BY <1>1, TaskMoves DEF SchedInv, StartTest, callVars, taskVars
<1>4. TimerInv'
  BY TimerRests DEF SchedInv, StartTest, clockVars, TypeOK
<1> QED BY <1>2, <1>3, <1>4 DEF SchedInv

LEMMA SucceedInv ==
    ASSUME SchedInv, NEW t \in Tasks, Succeed(t) PROVE SchedInv'
<1>1. TypeOK'
  BY DEF SchedInv, Succeed, TellAdd, Repeat, TypeOK, Goto, Points, clockVars, callVars, Forever
<1>2. TaskInv'
  BY TaskMoves DEF SchedInv, Succeed, callVars
<1>3. TimerInv'
  BY TimerRests DEF SchedInv, Succeed, clockVars, TypeOK
<1> QED BY <1>1, <1>2, <1>3 DEF SchedInv

LEMMA FailInv ==
    ASSUME SchedInv, NEW t \in Tasks, Fail(t) PROVE SchedInv'
<1>1. PICK p \in {"exit", "requeue"} : Goto(t, p)
  BY DEF Fail
<1>2. TypeOK'
  <2>1. pc' \in [Tasks -> Points]
    BY <1>1 DEF SchedInv, TypeOK, Goto, Points
  <2>2. left' \in [Tasks -> Nat \cup {Forever}]
    BY DEF SchedInv, Fail, TypeOK, Repeat, Forever
  <2>3. failures' \in [Tasks -> Nat] /\ claimed' \in [Tasks -> Tasks \cup {None}]
    BY DEF SchedInv, Fail, TypeOK, TellAdd
  <2>4. events' \in SUBSET Tasks /\ pendingException' \subseteq Handles
    BY DEF SchedInv, Fail, TypeOK, TellAdd
  <2> QED BY <2>1, <2>2, <2>3, <2>4 DEF SchedInv, Fail, TypeOK, clockVars, callVars
<1>3. TaskInv'
  BY <1>1, TaskMoves DEF SchedInv, Fail, callVars
<1>4. TimerInv'
  BY TimerRests DEF SchedInv, Fail, clockVars, TypeOK
<1> QED BY <1>2, <1>3, <1>4 DEF SchedInv

--------------------------------------------------------------------------
(* A thread that starts the timer, wakes, queues again or ends *)

LEMMA StartSpawnInv ==
    ASSUME SchedInv, NEW t \in Tasks, StartSpawn(t) PROVE SchedInv'
<1>1. PICK p \in {"exit", "asleep"} : Goto(t, p)
  BY AgainPoint DEF StartSpawn
<1>2. PICK k \in Timers : /\ timer[k].pc = "off" /\ timerThread' = k
                          /\ timer' = [timer EXCEPT ![k].pc = "begin"]
  BY DEF StartSpawn, Fresh
<1>3. TypeOK'
  BY <1>1, <1>2 DEF SchedInv, StartSpawn, TypeOK, Goto, Points, callVars, taskVars
<1>4. TaskInv'
  BY <1>1, TaskMoves DEF SchedInv, StartSpawn, callVars, taskVars
<1>5. TimerInv'
  <2> SUFFICES ASSUME AtMostOne' PROVE TimerInv'
    BY DEF TimerInv
  <2>1. \A l \in Timers : /\ l = k => timer'[l].pc = "begin"
                          /\ l # k => timer'[l] = timer[l]
    BY <1>2 DEF SchedInv, TypeOK
  <2>2. \A l \in Timers \ {k} : timer[l].pc = "off"
    BY <2>1 DEF AtMostOne
  <2>3. AtMostOne /\ \A l \in Timers : timer[l].pc = "off"
    BY <1>2, <2>2 DEF AtMostOne
  <2>4. 0 <= nextcount /\ nextcount = 0 /\ starttime <= now /\ \A a \in alarms : 0 <= a[1]
    BY <2>3 DEF SchedInv, TimerInv
  <2>5. UNCHANGED <<now, starttime, nextcount, alarms>>
    BY DEF StartSpawn
  <2> QED BY <2>1, <2>2, <2>4, <2>5 DEF TimerInv
<1> QED BY <1>3, <1>4, <1>5 DEF SchedInv

LEMMA WakeStepInv ==
    ASSUME SchedInv, NEW t \in Tasks, Wake(t) PROVE SchedInv'
<1>1. /\ pc[t] = "asleep" /\ t \in unlocked /\ unlocked' = unlocked \ {t}
      /\ UNCHANGED <<alarms, tasks, handle, slot, dropped>>
  BY DEF Wake, taskVars, callVars
<1>2. TypeOK'
  BY DEF SchedInv, Wake, TypeOK, Goto, Points, clockVars, callVars, taskVars
<1>3. \A u \in Tasks : Registered(u)' <=> Registered(u)
  BY <1>1 DEF Registered
<1>4. /\ pc'[t] \in {"call", "exit"} /\ (pc'[t] = "call" => Registered(t))
      /\ \A u \in Tasks \ {t} : pc'[u] = pc[u]
  BY DEF SchedInv, TypeOK, Wake, Goto, Registered
<1>5. BelowInv' /\ HomeInv' /\ NewInv'
  BY <1>1, <1>4 DEF SchedInv, TaskInv, BelowInv, HomeInv, NewInv
<1>6. WakeInv'
  BY <1>1, <1>3, <1>4 DEF SchedInv, TaskInv, WakeInv
<1>7. AlarmInv'
  BY <1>1, <1>3, <1>4 DEF SchedInv, TaskInv, AlarmInv
<1>8. TimerInv'
  BY TimerRests DEF SchedInv, Wake, clockVars, TypeOK
<1> QED BY <1>2, <1>5, <1>6, <1>7, <1>8 DEF SchedInv, TaskInv

LEMMA RequeueInv ==
    ASSUME SchedInv, NEW t \in Tasks, Requeue(t) PROVE SchedInv'
<1> DEFINE next == NextSlot(slot[t], Frequency(job[t]))
<1>1. /\ pc[t] = "requeue" /\ slot' = [slot EXCEPT ![t] = next]
      /\ alarms' = alarms \cup {<<next, t>>}
      /\ UNCHANGED <<unlocked, tasks, handle, dropped, clockVars>>
  BY DEF Requeue, callVars
<1>2. next \in Int /\ (0 <= nextcount => 0 <= next)
  <2>1. slot[t] \in Int /\ nextcount \in Int /\ job[t] \in Jobs
    BY DEF SchedInv, TypeOK
  <2>2. Frequency(job[t]) \in Nat \ {0}
    BY <2>1, FrequencyType
  <2> QED BY <2>1, <2>2, NextSlotBeat
<1> HIDE DEF next
<1>3. /\ \A u \in Tasks : slot'[u] = IF u = t THEN next ELSE slot[u]
      /\ \A a \in alarms' : a \in alarms \/ (a[1] = next /\ a[2] = t)
  BY <1>1 DEF SchedInv, TypeOK
<1>4. PICK p \in {"exit", "asleep"} : Goto(t, p)
  BY AgainPoint DEF Requeue
<1>5. pc'[t] = p /\ \A u \in Tasks \ {t} : pc'[u] = pc[u]
  BY <1>4 DEF SchedInv, TypeOK, Goto
<1>6. TypeOK'
  <2>1. pc' \in [Tasks -> Points] /\ slot' \in [Tasks -> Int]
    BY <1>1, <1>2, <1>4 DEF SchedInv, TypeOK, Goto, Points
  <2>2. alarms' \subseteq Int \X Tasks
    BY <1>1, <1>2 DEF SchedInv, TypeOK
  <2> QED BY <2>1, <2>2 DEF SchedInv, TypeOK, Requeue, clockVars, callVars
<1>7. \A u \in Tasks : Registered(u)' <=> Registered(u)
  BY <1>1 DEF Registered
<1>8. BelowInv'
  <2>1. PICK b \in Int : \A a \in alarms : b <= a[1]
    BY DEF SchedInv, TaskInv, BelowInv
  <2>2. \A a \in alarms : a[1] \in Int
    BY DEF SchedInv, TypeOK
  <2>3. CASE b <= next
    BY <1>3, <2>1, <2>3 DEF BelowInv
  <2>4. CASE next <= b
    <3>1. \A a \in alarms' : next <= a[1]
      BY <1>2, <1>3, <2>1, <2>2, <2>4
    <3> QED BY <1>2, <3>1 DEF BelowInv
  <2> QED BY <1>2, <2>3, <2>4
<1>9. HomeInv' /\ NewInv'
  <2>1. HomeInv'
    BY <1>1 DEF SchedInv, TaskInv, HomeInv
  <2>2. NewInv'
    BY <1>1, <1>3, <1>5 DEF SchedInv, TaskInv, NewInv
  <2> QED BY <2>1, <2>2
<1>10. WakeInv'
  <2>1. <<slot'[t], t>> \in alarms'
    BY <1>1, <1>3
  <2>2. \A u \in Tasks \ {t} : <<slot[u], u>> \in alarms => <<slot'[u], u>> \in alarms'
    BY <1>1, <1>3
  <2> QED BY <1>1, <1>5, <1>7, <2>1, <2>2 DEF SchedInv, TaskInv, WakeInv
<1>11. AlarmInv'
  BY <1>1, <1>3, <1>5, <1>7 DEF SchedInv, TaskInv, AlarmInv
<1>12. TimerInv'
  <2>1. AtMostOne' <=> AtMostOne
    BY <1>1 DEF AtMostOne, clockVars
  <2> QED BY <1>1, <1>2, <1>3, <2>1 DEF SchedInv, TimerInv, clockVars
<1> QED BY <1>6, <1>8, <1>9, <1>10, <1>11, <1>12 DEF SchedInv, TaskInv

LEMMA ExitInv ==
    ASSUME SchedInv, NEW t \in Tasks, Exit(t) PROVE SchedInv'
<1> USE JobsAssumption
<1>1. /\ pc[t] = "exit" /\ slot' = [slot EXCEPT ![t] = 0]
      /\ UNCHANGED <<alarms, unlocked, handle, dropped, clockVars>>
  BY DEF Exit, callVars
<1>2. /\ slot'[t] = 0
      /\ \A u \in Tasks \ {t} : slot'[u] = slot[u]
  BY <1>1 DEF SchedInv, TypeOK
<1>3. /\ pc'[t] = "died" \/ (pc'[t] = "ended" /\ tasks'[handle[t]] # t)
      /\ \A u \in Tasks \ {t} : pc'[u] = pc[u]
  BY DEF Exit, SchedInv, TypeOK, Goto
<1>4. \A h \in Handles : tasks'[h] = tasks[h] \/ (tasks[h] = t /\ tasks'[h] = None)
  BY DEF Exit, SchedInv, TypeOK
<1>5. TypeOK'
  <2>1. pc' \in [Tasks -> Points] /\ slot' \in [Tasks -> Int]
    BY <1>1 DEF SchedInv, TypeOK, Goto, Points, Exit
  <2>2. tasks' \in [Handles -> Tasks \cup {None}]
    BY DEF SchedInv, TypeOK, Exit
  <2>3. left' \in [Tasks -> Nat \cup {Forever}] /\ failures' \in [Tasks -> Nat]
    BY DEF SchedInv, TypeOK, Exit
  <2> QED BY <2>1, <2>2, <2>3 DEF SchedInv, TypeOK, Exit, clockVars, callVars
<1>6. \A u \in Tasks \ {t} : Registered(u)' <=> Registered(u)
  <2> SUFFICES ASSUME NEW u \in Tasks \ {t} PROVE Registered(u)' <=> Registered(u)
    OBVIOUS
  <2>1. handle[u] \in Handles /\ handle'[u] = handle[u]
    BY <1>1 DEF SchedInv, TypeOK
  <2> QED BY <1>4, <2>1 DEF Registered
<1>7. BelowInv' /\ HomeInv' /\ NewInv'
  <2>1. BelowInv'
    BY <1>1 DEF SchedInv, TaskInv, BelowInv
  <2>2. HomeInv'
    BY <1>1, <1>4 DEF SchedInv, TaskInv, HomeInv
  <2>3. NewInv'
    BY <1>1, <1>2, <1>3, <1>4 DEF SchedInv, TaskInv, NewInv
  <2> QED BY <2>1, <2>2, <2>3
<1>8. WakeInv'
  BY <1>1, <1>2, <1>3, <1>6 DEF SchedInv, TaskInv, WakeInv
<1>9. AlarmInv'
  <2>1. Registered(t)' => pc'[t] = "died" /\ slot'[t] = 0
    BY <1>1, <1>2, <1>3 DEF Registered
  <2> QED BY <1>1, <1>2, <1>3, <1>6, <2>1 DEF SchedInv, TaskInv, AlarmInv
<1>10. TimerInv'
  BY <1>1, TimerRests DEF SchedInv, clockVars, TypeOK
<1> QED BY <1>5, <1>7, <1>8, <1>9, <1>10 DEF SchedInv, TaskInv

--------------------------------------------------------------------------
(* The callers and the clock *)

LEMMA ShutdownInv == SchedInv /\ Shutdown => SchedInv'
<1> SUFFICES ASSUME SchedInv, Shutdown PROVE SchedInv'
  OBVIOUS
<1>1. TypeOK'
  BY DEF SchedInv, Shutdown, TypeOK, clockVars, taskVars
<1>2. TaskInv'
  BY TasksRest DEF SchedInv, Shutdown, taskVars
<1>3. TimerInv'
  BY TimerRests DEF SchedInv, Shutdown, clockVars, TypeOK
<1> QED BY <1>1, <1>2, <1>3 DEF SchedInv

LEMMA ShutdownReturnsInv == SchedInv /\ ShutdownReturns => SchedInv'
<1> SUFFICES ASSUME SchedInv, ShutdownReturns PROVE SchedInv'
  OBVIOUS
<1>1. TypeOK'
  BY DEF SchedInv, ShutdownReturns, TypeOK, clockVars, taskVars
<1>2. TaskInv'
  BY TasksRest DEF SchedInv, ShutdownReturns, taskVars
<1>3. TimerInv'
  BY TimerRests DEF SchedInv, ShutdownReturns, clockVars, TypeOK
<1> QED BY <1>1, <1>2, <1>3 DEF SchedInv

LEMMA TickInv == SchedInv /\ Tick => SchedInv'
<1> SUFFICES ASSUME SchedInv, Tick PROVE SchedInv'
  OBVIOUS
<1>1. TypeOK'
  BY DEF SchedInv, Tick, TypeOK, taskVars, callVars
<1>2. TaskInv'
  BY TasksRest DEF SchedInv, Tick, taskVars, callVars
<1>3. now <= now' /\ now' \in Int
  BY DEF SchedInv, Tick, TypeOK
<1>4. TimerInv'
  BY <1>3, TimerRests DEF SchedInv, Tick
<1> QED BY <1>1, <1>2, <1>4 DEF SchedInv

\* What remove() and reschedule() have in common: the task at a handle gives it up.
TakenOut(h, t) ==
    /\ t = tasks[h] /\ t \in Tasks
    /\ tasks' = [tasks EXCEPT ![h] = None]
    /\ alarms' = {a \in alarms : a[2] # t}
    /\ UNCHANGED <<pc, handle, slot, clockVars>>
    /\ unlocked \subseteq unlocked' /\ unlocked' \subseteq unlocked \cup {t}
    /\ dropped \subseteq dropped'
    /\ t \in unlocked' \cup dropped'

LEMMA TakenOutInv ==
    ASSUME TypeOK, TaskInv, NEW h \in Handles, NEW t, TakenOut(h, t)
    PROVE  TaskInv'
<1> USE JobsAssumption
<1>1. /\ t = tasks[h] /\ t \in Tasks /\ pc' = pc /\ handle' = handle /\ slot' = slot
      /\ \A a : a \in alarms' <=> a \in alarms /\ a[2] # t
      /\ \A u \in Tasks \ {t} : u \in unlocked' <=> u \in unlocked
      /\ Tasks \ dropped' \subseteq Tasks \ dropped
      /\ t \in unlocked' \cup dropped'
  BY DEF TakenOut
<1>2. \A g \in Handles : tasks'[g] = IF g = h THEN None ELSE tasks[g]
  BY DEF TakenOut, TypeOK
<1>3. handle[t] = h
  BY <1>1 DEF TaskInv, HomeInv
<1>4. \A u \in Tasks : handle[u] \in Handles
  BY DEF TypeOK
<1>5. ~Registered(t)' /\ \A u \in Tasks \ {t} : Registered(u)' <=> Registered(u)
  BY <1>1, <1>2, <1>3, <1>4 DEF Registered
<1>6. BelowInv' /\ HomeInv'
  BY <1>1, <1>2 DEF TaskInv, BelowInv, HomeInv
<1>7. NewInv'
  BY <1>1, <1>2 DEF TaskInv, NewInv
<1>8. WakeInv'
  <2> SUFFICES ASSUME NEW u \in Tasks \ dropped'
               PROVE  /\ pc'[u] \in {"claim", "start", "spawn", "asleep"} =>
                            u \in unlocked' \/ (Registered(u)' /\ <<slot'[u], u>> \in alarms')
                      /\ pc'[u] \in {"call", "requeue"} => u \in unlocked' \/ Registered(u)'
    BY DEF WakeInv, Registered
  <2>1. CASE u = t
    BY <1>1, <2>1
  <2>2. CASE u # t
    <3>1. u \in Tasks \ dropped /\ <<slot[u], u>>[2] = u
      BY <1>1
    <3>2. <<slot[u], u>> \in alarms => <<slot'[u], u>> \in alarms'
      BY <1>1, <2>2, <3>1
    <3> QED BY <1>1, <1>5, <2>2, <3>1, <3>2 DEF TaskInv, WakeInv
  <2> QED BY <2>1, <2>2
<1>9. AlarmInv'
  BY <1>1, <1>5 DEF TaskInv, AlarmInv
<1> QED BY <1>6, <1>7, <1>8, <1>9 DEF TaskInv

LEMMA RemoveInv ==
    ASSUME SchedInv, NEW h \in Handles, Remove(h) PROVE SchedInv'
<1> DEFINE t == tasks[h]
<1>1. t \in Tasks
  BY DEF SchedInv, TypeOK, Remove
<1>2. TakenOut(h, t)
  BY <1>1 DEF Remove, TakenOut, callVars, taskVars
<1>3. TaskInv'
  BY <1>2, TakenOutInv DEF SchedInv
<1>4. TypeOK'
  BY <1>1, JobsAssumption DEF SchedInv, TypeOK, Remove, clockVars, taskVars
<1>5. TimerInv'
  BY TimerRests DEF SchedInv, TypeOK, Remove, clockVars
<1> QED BY <1>3, <1>4, <1>5 DEF SchedInv

LEMMA RescheduleInv ==
    ASSUME SchedInv, NEW h \in Handles, Reschedule(h) PROVE SchedInv'
<1> DEFINE t == tasks[h]
<1>1. t \in Tasks
  BY DEF SchedInv, TypeOK, Reschedule
<1>2. TakenOut(h, t)
  BY <1>1 DEF Reschedule, TakenOut, taskVars
<1>3. TaskInv'
  BY <1>2, TakenOutInv DEF SchedInv
<1>4. TypeOK'
  BY <1>1, JobsAssumption DEF SchedInv, TypeOK, Reschedule, clockVars, taskVars
<1>5. TimerInv'
  BY TimerRests DEF SchedInv, TypeOK, Reschedule, clockVars
<1> QED BY <1>3, <1>4, <1>5 DEF SchedInv

--------------------------------------------------------------------------
(* A new task *)

LEMMA AddInv ==
    ASSUME SchedInv, NEW t \in Tasks, NEW h \in Handles, NEW j \in Jobs, Add(t, h, j)
    PROVE  SchedInv'
<1> USE JobsAssumption
<1> DEFINE other == tasks[h]
           first == FirstSlot(j)
<1>1. pc[t] = "new"
  BY DEF Add, Fresh
<1>2. /\ t \notin unlocked /\ slot[t] = 0
      /\ \A a \in alarms : a[2] # t
      /\ \A g \in Handles : tasks[g] # t
  BY <1>1 DEF SchedInv, TaskInv, NewInv
<1>3. first \in Int /\ (0 <= nextcount => 0 <= first)
  BY FirstSlotType DEF SchedInv
<1>4. /\ \A g \in Handles : tasks'[g] = IF g = h THEN t ELSE tasks[g]
      /\ \A u \in Tasks : handle'[u] = IF u = t THEN h ELSE handle[u]
      /\ dropped' = dropped /\ UNCHANGED clockVars
  BY DEF SchedInv, TypeOK, Add, Setup
<1>5. \/ /\ other \in unlocked /\ UNCHANGED <<unlocked, slot, alarms>>
         /\ pc'[t] = "died"
      \/ /\ other \notin unlocked /\ pc'[t] = "claim"
         /\ unlocked' = unlocked \cup ({other} \ {None})
         /\ slot'[t] = first /\ \A u \in Tasks \ {t} : slot'[u] = slot[u]
         /\ alarms' = alarms \cup {<<first, t>>}
  BY DEF SchedInv, TypeOK, Add, Setup, Goto
<1>6. \A u \in Tasks \ {t} : pc'[u] = pc[u]
  BY DEF SchedInv, TypeOK, Add, Setup, Goto
<1>7. TypeOK'
  <2>1. pc' \in [Tasks -> Points]
    BY DEF SchedInv, TypeOK, Add, Setup, Goto, Points
  <2>2. slot' \in [Tasks -> Int] /\ alarms' \subseteq Int \X Tasks
    BY <1>3 DEF SchedInv, TypeOK, Add, Setup
  <2>3. unlocked' \subseteq Tasks /\ tasks' \in [Handles -> Tasks \cup {None}]
    BY DEF SchedInv, TypeOK, Add, Setup
  <2>4. /\ job' \in [Tasks -> Jobs] /\ handle' \in [Tasks -> Handles]
        /\ left' \in [Tasks -> Nat \cup {Forever}]
        /\ pendingStart' \in [Handles -> Tasks \cup {None}]
    BY DEF SchedInv, TypeOK, Add
  <2> QED BY <2>1, <2>2, <2>3, <2>4 DEF SchedInv, TypeOK, Add, clockVars
<1>8. \A u \in Tasks : handle[u] \in Handles
  BY DEF SchedInv, TypeOK
<1>9. \A a \in alarms' : a \in alarms \/ (a[1] = first /\ a[2] = t /\ pc'[t] = "claim")
  BY <1>5
<1>10. \A u \in Tasks \ {t} : Registered(u)' <=> Registered(u) /\ u # other
  <2> SUFFICES ASSUME NEW u \in Tasks \ {t}
               PROVE  Registered(u)' <=> Registered(u) /\ u # other
    OBVIOUS
  <2>1. handle'[u] = handle[u] /\ handle[u] \in Handles
    BY <1>4, <1>8
  <2>2. u = other => handle[u] = h
    BY DEF SchedInv, TaskInv, HomeInv
  <2> QED BY <1>4, <2>1, <2>2 DEF Registered
<1> HIDE DEF first
<1>11. BelowInv'
  <2>1. PICK b \in Int : \A a \in alarms : b <= a[1]
    BY DEF SchedInv, TaskInv, BelowInv
  <2>2. \A a \in alarms : a[1] \in Int
    BY DEF SchedInv, TypeOK
  <2>3. CASE b <= first
    BY <1>9, <2>1, <2>3 DEF BelowInv
  <2>4. CASE first <= b
    <3>1. \A a \in alarms' : first <= a[1]
      BY <1>3, <1>9, <2>1, <2>2, <2>4
    <3> QED BY <1>3, <3>1 DEF BelowInv
  <2> QED BY <1>3, <2>3, <2>4
<1>12. HomeInv'
  BY <1>2, <1>4 DEF SchedInv, TypeOK, TaskInv, HomeInv
<1>13. NewInv'
  <2> SUFFICES ASSUME NEW u \in Tasks, pc'[u] = "new"
               PROVE  /\ u \notin unlocked' /\ slot'[u] = 0
                      /\ \A a \in alarms' : a[2] # u
                      /\ \A g \in Handles : tasks'[g] # u
    BY DEF NewInv
  <2>1. u # t /\ pc[u] = "new" /\ slot'[u] = slot[u]
    BY <1>5, <1>6
  <2>2. /\ u \notin unlocked /\ slot[u] = 0 /\ \A a \in alarms : a[2] # u
        /\ \A g \in Handles : tasks[g] # u
    BY <2>1 DEF SchedInv, TaskInv, NewInv
  <2> QED BY <1>4, <1>5, <1>9, <2>1, <2>2
<1>14. WakeInv'
  <2> SUFFICES ASSUME NEW u \in Tasks \ dropped
               PROVE  /\ pc'[u] \in {"claim", "start", "spawn", "asleep"} =>
                            u \in unlocked' \/ (Registered(u)' /\ <<slot'[u], u>> \in alarms')
                      /\ pc'[u] \in {"call", "requeue"} => u \in unlocked' \/ Registered(u)'
    BY <1>4 DEF WakeInv, Registered
  <2>1. CASE u = t
    <3>1. Registered(t)'
      BY <1>4 DEF Registered
    <3> QED BY <1>5, <2>1, <3>1
  <2>2. CASE u # t
    <3>1. u = other => u \in unlocked'
      BY <1>5
    <3>2. unlocked \subseteq unlocked' /\ slot'[u] = slot[u] /\ alarms \subseteq alarms'
      BY <1>5, <2>2
    <3> QED BY <1>6, <1>10, <2>2, <3>1, <3>2 DEF SchedInv, TaskInv, WakeInv
  <2> QED BY <2>1, <2>2
<1>15. AlarmInv'
  <2> SUFFICES ASSUME NEW u \in Tasks, Registered(u)'
               PROVE  /\ pc'[u] = "died" => slot'[u] = 0
                      /\ pc'[u] # "died" => \A a \in alarms' : a[2] = u =>
                             /\ a[1] = slot'[u] /\ u \notin unlocked'
                             /\ pc'[u] \notin {"call", "requeue"}
                      /\ pc'[u] \in {"call", "requeue"} => u \notin unlocked'
    BY DEF AlarmInv, Registered
  <2>1. CASE u = t
    BY <1>2, <1>5, <1>9, <2>1
  <2>2. CASE u # t
    <3>1. Registered(u) /\ u # other
      BY <1>10, <2>2
    <3>2. (u \in unlocked' <=> u \in unlocked) /\ slot'[u] = slot[u] /\ pc'[u] = pc[u]
      BY <1>5, <1>6, <2>2, <3>1
    <3>3. \A a \in alarms' : a[2] = u => a \in alarms
      BY <1>9, <2>2
    <3> QED BY <3>1, <3>2, <3>3 DEF SchedInv, TaskInv, AlarmInv
  <2> QED BY <2>1, <2>2
<1>16. TimerInv'
  <2>1. AtMostOne' <=> AtMostOne
    BY <1>4 DEF AtMostOne, clockVars
  <2> QED BY <1>3, <1>4, <1>9, <2>1 DEF SchedInv, TimerInv, clockVars
<1> QED BY <1>7, <1>11, <1>12, <1>13, <1>14, <1>15, <1>16 DEF SchedInv, TaskInv

--------------------------------------------------------------------------
(* The timer *)

LEMMA TimerBeginInv ==
    ASSUME SchedInv, NEW k \in Timers, TimerBegin(k) PROVE SchedInv'
<1>1. /\ timer[k].pc = "begin" /\ starttime' = now
      /\ timer' = [timer EXCEPT ![k] = [pc |-> "sleep", nexttime |-> now]]
      /\ UNCHANGED <<now, nextcount, alarms>>
  BY DEF TimerBegin, TimerStep
<1>2. TypeOK'
  BY <1>1 DEF SchedInv, TimerBegin, TypeOK, taskVars, callVars
<1>3. TaskInv'
  BY TasksRest DEF SchedInv, TimerBegin, taskVars, callVars
<1>4. TimerInv'
  <2> SUFFICES ASSUME AtMostOne' PROVE TimerInv'
    BY DEF TimerInv
  <2>1. /\ timer'[k] = [pc |-> "sleep", nexttime |-> now]
        /\ \A l \in Timers \ {k} : timer'[l] = timer[l]
    BY <1>1 DEF SchedInv, TypeOK
  <2>2. \A l \in Timers \ {k} : timer'[l].pc = "off"
    BY <2>1 DEF AtMostOne
  <2>3. AtMostOne
    BY <2>1, <2>2 DEF AtMostOne
  <2>4. nextcount = 0 /\ now \in Int /\ \A a \in alarms : 0 <= a[1]
    BY <1>1, <2>3 DEF SchedInv, TypeOK, TimerInv
  <2> QED BY <1>1, <2>1, <2>2, <2>4 DEF TimerInv
<1> QED BY <1>2, <1>3, <1>4 DEF SchedInv

LEMMA TimerEndsInv ==
    ASSUME SchedInv, NEW k \in Timers, TimerEnds(k) PROVE SchedInv'
<1>1. /\ timer[k].pc = "sleep" /\ timer[k].nexttime \in Int
      /\ timer' = [timer EXCEPT ![k] = [pc |-> "ended", nexttime |-> timer[k].nexttime]]
      /\ UNCHANGED <<now, starttime, nextcount, alarms>>
  BY DEF SchedInv, TypeOK, TimerEnds, TimerStep
<1>2. TypeOK'
  BY <1>1 DEF SchedInv, TimerEnds, TypeOK, taskVars, callVars
<1>3. TaskInv'
  BY TasksRest DEF SchedInv, TimerEnds, taskVars, callVars
<1>4. TimerInv'
  <2>1. /\ timer'[k].pc = "ended"
        /\ \A l \in Timers \ {k} : timer'[l] = timer[l]
    BY <1>1 DEF SchedInv, TypeOK
  <2>2. AtMostOne' => AtMostOne
    BY <1>1, <2>1 DEF AtMostOne
  <2> QED BY <1>1, <2>1, <2>2 DEF SchedInv, TimerInv
<1> QED BY <1>2, <1>3, <1>4 DEF SchedInv

\* The time that a sleeping timer waited for has come.
LEMMA RoundTime ==
    ASSUME TypeOK, NEW k \in Timers, TimerRound(k)
    PROVE  /\ timer[k].pc = "sleep" /\ timer[k].nexttime \in Int
           /\ timer[k].nexttime <= now
<1>1. timer[k].nexttime \in Int /\ now \in Int
  BY DEF TypeOK
<1> QED BY <1>1 DEF TimerRound, Asleep

\* The timer's next slot is one of the alarms that remain, or as far as it may sleep.
LEMMA NextCountType ==
    ASSUME TypeOK, BelowInv, NEW R \in SUBSET alarms, NEW start \in Int
    PROVE  NextCount(R, start) \in {a[1] : a \in R} \cup {now + MaxSleep - start}
<1> USE JobsAssumption
<1> DEFINE x == now + MaxSleep - start
           S == {a[1] : a \in R} \cup {x}
<1>1. x \in Int
  BY DEF TypeOK
<1>2. S \in SUBSET Int /\ S # {}
  BY <1>1 DEF TypeOK
<1>3. PICK b \in Int : \A a \in alarms : b <= a[1]
  BY DEF BelowInv
<1>4. \E c \in Int : \A y \in S : c <= y
  <2>1. CASE b <= x
    <3>1. \A y \in S : b <= y
      BY <1>3, <2>1
    <3> QED BY <3>1
  <2>2. CASE x <= b
    <3>1. \A y \in S : x <= y
      <4>1. \A a \in alarms : a[1] \in Int
        BY DEF TypeOK
      <4>2. \A a \in alarms : x <= a[1]
        <5> HIDE DEF x
        <5> QED BY <1>1, <1>3, <2>2, <4>1
      <4> HIDE DEF x
      <4> QED BY <1>1, <4>2
    <3> QED BY <1>1, <3>1
  <2> HIDE DEF x, S
  <2> QED BY <1>1, <1>3, <2>1, <2>2
<1>5. Min(S) \in S
  <2> HIDE DEF S
  <2> QED BY <1>2, <1>4, MinOfBounded
<1> QED BY <1>5 DEF NextCount

LEMMA TimerRoundInv ==
    ASSUME SchedInv, NEW k \in Timers, TimerRound(k) PROVE SchedInv'
<1> USE JobsAssumption
<1> DEFINE late  == now - timer[k].nexttime
           start == IF Abs(late) > TimeshiftLimit THEN starttime + late ELSE starttime
           due   == {a \in alarms : a[1] = nextcount}
           next  == NextCount(alarms \ due, start)
<1>1. /\ unlocked' = unlocked \cup {a[2] : a \in due}
      /\ alarms' = alarms \ due
      /\ starttime' = start /\ nextcount' = next
      /\ timer' = [timer EXCEPT ![k] = [pc |-> "sleep", nexttime |-> start + next]]
      /\ UNCHANGED <<now, running, timerThread, tasks, pc, taskVars, callVars>>
  BY DEF TimerRound, TimerStep
<1>2. timer[k].pc = "sleep" /\ timer[k].nexttime \in Int /\ timer[k].nexttime <= now
  BY RoundTime DEF SchedInv
<1>3. now \in Nat /\ starttime \in Nat /\ nextcount \in Int
  BY DEF SchedInv, TypeOK
<1>4. late \in Nat
  BY <1>2, <1>3
<1>5. start \in Nat /\ (start = starttime \/ start = starttime + late)
  BY <1>3, <1>4
<1>6. next \in {a[1] : a \in alarms'} \cup {now + MaxSleep - start}
  <2> HIDE DEF start, due
  <2>1. alarms \ due \in SUBSET alarms
    OBVIOUS
  <2> QED BY <1>1, <1>5, <2>1, NextCountType DEF SchedInv, TaskInv
<1>7. next \in Int
  <2> HIDE DEF start, next, due
  <2>1. \A a \in alarms' : a[1] \in Int
    BY <1>1 DEF SchedInv, TypeOK
  <2> QED BY <1>3, <1>5, <1>6, <2>1
<1>8. \A a : a \in alarms' <=> a \in alarms /\ a[1] # nextcount
  BY <1>1
<1>9. \A u : u \in unlocked' <=> u \in unlocked \/ \E a \in alarms : a[1] = nextcount /\ a[2] = u
  BY <1>1
<1> HIDE DEF start, due, next
<1>10. TypeOK'
  <2>1. /\ starttime' \in Nat /\ nextcount' \in Int /\ now' \in Nat
        /\ timer' \in [Timers -> [pc : {"off", "begin", "sleep", "ended"}, nexttime : Int]]
    BY <1>1, <1>3, <1>5, <1>7 DEF SchedInv, TypeOK
  <2>2. alarms' \subseteq Int \X Tasks /\ unlocked' \subseteq Tasks
    BY <1>8, <1>9 DEF SchedInv, TypeOK
  <2> QED BY <1>1, <2>1, <2>2 DEF SchedInv, TypeOK, TimerRound, taskVars, callVars
<1>11. \A u \in Tasks : Registered(u)' <=> Registered(u)
  BY <1>1 DEF Registered, taskVars
<1>12. UNCHANGED <<pc, tasks, handle, slot, dropped>>
  BY <1>1 DEF taskVars, callVars
<1>13. BelowInv' /\ HomeInv' /\ NewInv'
  <2>1. BelowInv'
    BY <1>8 DEF SchedInv, TaskInv, BelowInv
  <2>2. HomeInv'
    BY <1>12 DEF SchedInv, TaskInv, HomeInv
  <2>3. NewInv'
    BY <1>8, <1>9, <1>12 DEF SchedInv, TaskInv, NewInv
  <2> QED BY <2>1, <2>2, <2>3
<1>14. WakeInv'
  <2>1. \A u \in Tasks : <<slot[u], u>> \in alarms => <<slot[u], u>> \in alarms' \/ u \in unlocked'
    BY <1>8, <1>9
  <2>2. \A u \in unlocked : u \in unlocked'
    BY <1>9
  <2> QED BY <1>11, <1>12, <2>1, <2>2 DEF SchedInv, TaskInv, WakeInv
<1>15. AlarmInv'
  <2> SUFFICES ASSUME NEW u \in Tasks, Registered(u)
               PROVE  /\ pc[u] = "died" => slot[u] = 0
                      /\ pc[u] # "died" => \A a \in alarms' : a[2] = u =>
                             /\ a[1] = slot[u] /\ u \notin unlocked'
                             /\ pc[u] \notin {"call", "requeue"}
                      /\ pc[u] \in {"call", "requeue"} => u \notin unlocked'
    BY <1>11, <1>12 DEF AlarmInv
  <2> QED BY <1>8, <1>9 DEF SchedInv, TaskInv, AlarmInv
<1>16. TimerInv'
  <2> SUFFICES ASSUME AtMostOne' PROVE TimerInv'
    BY DEF TimerInv
  <2>1. /\ timer'[k] = [pc |-> "sleep", nexttime |-> start + next]
        /\ \A l \in Timers \ {k} : timer'[l] = timer[l]
    BY <1>1 DEF SchedInv, TypeOK
  <2>2. \A l \in Timers \ {k} : timer'[l].pc = "off"
    BY <2>1 DEF AtMostOne
  <2>3. AtMostOne
    BY <2>1, <2>2 DEF AtMostOne
  <2>4. /\ 0 <= nextcount /\ starttime <= now /\ \A a \in alarms : 0 <= a[1]
        /\ timer[k].nexttime = starttime + nextcount
    BY <1>2, <2>3 DEF SchedInv, TimerInv
  <2>5. start <= now
    BY <1>2, <1>3, <1>5, <2>4
  <2>6. 0 <= next
    <3>1. \A a \in alarms' : 0 <= a[1]
      BY <1>8, <2>4
    <3>2. 0 <= now + MaxSleep - start
      BY <1>3, <1>5, <2>5
    <3> QED BY <1>6, <3>1, <3>2
  <2> QED BY <1>1, <1>8, <2>1, <2>2, <2>4, <2>5, <2>6 DEF TimerInv
<1> QED BY <1>10, <1>13, <1>14, <1>15, <1>16 DEF SchedInv, TaskInv

--------------------------------------------------------------------------
(* The theorems *)

LEMMA SchedNextInv == SchedInv /\ [Next]_vars => SchedInv'
<1> SUFFICES ASSUME SchedInv, [Next]_vars PROVE SchedInv'
  OBVIOUS
<1>1. ASSUME NEW t \in Tasks, NEW h \in Handles, NEW j \in Jobs, Add(t, h, j)
      PROVE  SchedInv'
  BY <1>1, AddInv
<1>2. ASSUME NEW t \in Tasks, RunTask(t) PROVE SchedInv'
  BY <1>2, ClaimInv, StartTestInv, StartSpawnInv, WakeStepInv, SucceedInv, FailInv,
     RequeueInv, ExitInv DEF RunTask
<1>3. ASSUME NEW h \in Handles, Remove(h) \/ Reschedule(h) PROVE SchedInv'
  BY <1>3, RemoveInv, RescheduleInv
<1>4. ASSUME NEW k \in Timers, TimerLoop(k) PROVE SchedInv'
  BY <1>4, TimerBeginInv, TimerEndsInv, TimerRoundInv DEF TimerLoop
<1>5. CASE UNCHANGED vars
  <2>1. TypeOK'
    BY <1>5 DEF vars, SchedInv, TypeOK
  <2>2. TaskInv'
    BY <1>5, TasksRest DEF vars, SchedInv
  <2>3. TimerInv'
    BY <1>5 DEF vars, SchedInv, TimerInv, AtMostOne
  <2> QED BY <2>1, <2>2, <2>3 DEF SchedInv
<1> QED BY <1>1, <1>2, <1>3, <1>4, <1>5, ShutdownInv, ShutdownReturnsInv, TickInv DEF Next

\* Every variable keeps its type, the clock's jumps included (_timerloop()).
THEOREM SchedTypes == Spec => []TypeOK
<1>1. SchedInv => TypeOK
  BY DEF SchedInv
<1> QED BY SchedInitInv, SchedNextInv, <1>1, PTL DEF Spec

\* No thread sleeps for ever in lock.acquire(): its alarm is in the schedule or its lock
\* is free, whatever add(), remove() and the timer do meanwhile (_runTask()).
THEOREM Sleepers == Spec => []SleepersWake
<1>1. SchedInv => SleepersWake
  BY DEF SchedInv, TaskInv, WakeInv, SleepersWake
<1> QED BY SchedInitInv, SchedNextInv, <1>1, PTL DEF Spec

\* A task's thread moves on by its own steps.
LEMMA OwnSteps ==
    ASSUME TypeOK, NEW t \in Tasks, NEW u \in Tasks \ {t}, RunTask(u)
    PROVE  pc'[t] = pc[t]
<1>1. PICK p : Goto(u, p)
  BY AgainPoint DEF RunTask, Claim, StartTest, StartSpawn, Wake, Succeed, Fail, Requeue, Exit
<1> QED BY <1>1 DEF TypeOK, Goto

\* A task's slots keep the beat of the first one, however late its thread is: one interval
\* apart (the modulo of _runTask()).
THEOREM Beats == Spec => KeepsItsBeat
<1>1. ASSUME SchedInv, [Next]_vars, NEW t \in Tasks, pc[t] = "requeue", pc'[t] # "requeue"
      PROVE  (slot'[t] - slot[t]) % Frequency(job[t]) = 0
  <2>1. CASE RunTask(t)
    <3>1. Requeue(t)
      BY <1>1, <2>1 DEF RunTask, Claim, StartTest, StartSpawn, Wake, Succeed, Fail, Exit
    <3>2. slot'[t] = NextSlot(slot[t], Frequency(job[t]))
      BY <1>1, <3>1 DEF SchedInv, TypeOK, Requeue
    <3>3. slot[t] \in Int /\ nextcount \in Int /\ job[t] \in Jobs
      BY <1>1 DEF SchedInv, TypeOK
    <3>4. Frequency(job[t]) \in Nat \ {0}
      BY <3>3, FrequencyType
    <3> QED BY <3>2, <3>3, <3>4, NextSlotBeat
  <2>2. CASE \E u \in Tasks \ {t} : RunTask(u)
    BY <1>1, <2>2, OwnSteps DEF SchedInv
  <2>3. CASE \E u \in Tasks, h \in Handles, j \in Jobs : Add(u, h, j)
    <3>1. PICK u \in Tasks, h \in Handles, j \in Jobs : Add(u, h, j)
      BY <2>3
    <3>2. pc[u] = "new"
      BY <3>1 DEF Add, Fresh
    <3> QED BY <1>1, <3>1, <3>2 DEF SchedInv, TypeOK, Add, Setup, Goto
  <2>4. CASE \/ \E h \in Handles : Remove(h) \/ Reschedule(h)
             \/ Shutdown \/ ShutdownReturns \/ Tick
             \/ \E k \in Timers : TimerLoop(k)
             \/ UNCHANGED vars
    BY <1>1, <2>4 DEF Remove, Reschedule, Shutdown, ShutdownReturns, Tick, TimerLoop,
                      TimerBegin, TimerEnds, TimerRound, vars
  <2> QED BY <1>1, <2>1, <2>2, <2>3, <2>4 DEF Next
<1>2. SchedInv /\ [Next]_vars =>
          [\A t \in Tasks : pc[t] = "requeue" /\ pc'[t] # "requeue" =>
              (slot'[t] - slot[t]) % Frequency(job[t]) = 0]_vars
  BY <1>1
<1> QED BY SchedInitInv, SchedNextInv, <1>2, PTL DEF Spec, KeepsItsBeat

LEMMA OneTimerIsOne == TypeOK /\ OneTimer => AtMostOne
<1> SUFFICES ASSUME TypeOK, OneTimer, NEW k \in Timers, NEW l \in Timers,
                    timer[k].pc # "off", timer[l].pc # "off"
             PROVE  k = l
  BY DEF AtMostOne
<1> DEFINE K == {m \in Timers : timer[m].pc # "off"}
<1>1. IsFiniteSet(K)
  BY JobsAssumption, FS_Subset
<1>2. Cardinality(K) = 1
  BY DEF OneTimer
<1>3. \E m : K = {m}
  <2> HIDE DEF K
  <2> QED BY <1>1, <1>2, FS_Singleton
<1> QED BY <1>3

\* With one timer thread, a task's lock is freed when the clock has reached the slot of the
\* task (_timerloop()), clock jumps and late timers included.
THEOREM Early == Spec => NeverEarly
<1>1. ASSUME SchedInv, [Next]_vars, NEW t \in Tasks,
             OneTimer, Registered(t), Registered(t)', t \notin unlocked, t \in unlocked'
      PROVE  now >= starttime + slot[t]
  <2>1. AtMostOne
    BY <1>1, OneTimerIsOne DEF SchedInv
  <2>2. CASE \E k \in Timers : TimerRound(k)
    <3>1. PICK k \in Timers : TimerRound(k)
      BY <2>2
    <3>2. timer[k].pc = "sleep" /\ timer[k].nexttime <= now
      BY <1>1, <3>1, RoundTime DEF SchedInv
    <3>3. timer[k].nexttime = starttime + nextcount /\ starttime <= now
      BY <1>1, <2>1, <3>2 DEF SchedInv, TimerInv
    <3>4. PICK a \in alarms : a[1] = nextcount /\ a[2] = t
      BY <1>1, <3>1 DEF TimerRound
    <3>5. CASE pc[t] = "died"
      <4>1. slot[t] = 0 /\ starttime \in Int /\ now \in Int
        BY <1>1, <3>5 DEF SchedInv, TypeOK, TaskInv, AlarmInv
      <4> QED BY <3>3, <4>1
    <3>6. CASE pc[t] # "died"
      <4>1. slot[t] = nextcount
        BY <1>1, <3>4, <3>6 DEF SchedInv, TaskInv, AlarmInv
      <4>2. starttime \in Int /\ now \in Int /\ nextcount \in Int
        BY <1>1 DEF SchedInv, TypeOK
      <4> QED BY <3>2, <3>3, <4>1, <4>2
    <3> QED BY <3>5, <3>6
  <2>3. CASE \E u \in Tasks, h \in Handles, j \in Jobs : Add(u, h, j)
    <3>1. PICK u \in Tasks, h \in Handles, j \in Jobs : Add(u, h, j)
      BY <2>3
    <3>2. t = tasks[h]
      BY <1>1, <3>1 DEF Add, Setup
    <3>3. handle[t] = h /\ pc[u] = "new" /\ tasks[h] # u
      BY <1>1, <3>1, <3>2, JobsAssumption DEF SchedInv, TaskInv, HomeInv, NewInv, Add, Fresh
    <3>4. tasks'[h] = u /\ handle'[t] = h
      BY <1>1, <3>1, <3>2, <3>3 DEF SchedInv, TypeOK, Add, Setup
    <3> QED BY <1>1, <3>2, <3>3, <3>4 DEF Registered
  <2>4. CASE \E h \in Handles : Remove(h)
    <3>1. PICK h \in Handles : Remove(h)
      BY <2>4
    <3>2. t = tasks[h]
      BY <1>1, <3>1 DEF Remove
    <3>3. handle[t] = h
      BY <1>1, <3>1, <3>2 DEF SchedInv, TaskInv, HomeInv, Remove
    <3>4. tasks'[h] = None /\ handle'[t] = h
      BY <1>1, <3>1, <3>3 DEF SchedInv, TypeOK, Remove, taskVars
    <3> QED BY <1>1, <3>4, JobsAssumption DEF Registered
  <2>5. CASE \/ \E u \in Tasks : RunTask(u)
             \/ \E h \in Handles : Reschedule(h)
             \/ Shutdown \/ ShutdownReturns \/ Tick
             \/ \E k \in Timers : TimerBegin(k) \/ TimerEnds(k)
             \/ UNCHANGED vars
    BY <1>1, <2>5 DEF RunTask, Claim, StartTest, StartSpawn, Wake, Succeed, Fail, Requeue, Exit,
                      Reschedule, Shutdown, ShutdownReturns, Tick, TimerBegin, TimerEnds, vars
  <2> QED BY <1>1, <2>2, <2>3, <2>4, <2>5 DEF Next, TimerLoop
<1>2. SchedInv /\ [Next]_vars =>
          [\A t \in Tasks :
              OneTimer /\ Registered(t) /\ Registered(t)' /\ t \notin unlocked /\ t \in unlocked'
                  => now >= starttime + slot[t]]_vars
  BY <1>1
<1> QED BY SchedInitInv, SchedNextInv, <1>2, PTL DEF Spec, NeverEarly

===============================================================================
