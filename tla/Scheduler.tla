---------------------------- MODULE Scheduler ----------------------------
(***************************************************************************)
(* The scheduler of periodic tasks in Python (core/scheduler.py).          *)
(*                                                                         *)
(* Every task has a thread of its own, which sleeps in lock.acquire() on a *)
(* lock of its own.  A timer thread counts ticks and releases the locks    *)
(* whose slot has come.  What runs under _mutex is one step: add() takes   *)
(* it and lets the NEW thread release it at the end of its set-up.         *)
(* _pendingStart, start() and shutdown() do without it.                    *)
(*                                                                         *)
(* Time is counted in ticks (_tick), speedFactor is 1.                     *)
(***************************************************************************)
EXTENDS Integers, FiniteSets, FiniteSetsExt

CONSTANTS
    Tasks,           \* task threads; one is used for one call of add()
    Handles,         \* names under which tasks are registered
    Timers,          \* timer threads; one is used for one call of _timerloop()
    Jobs,            \* the arguments that add() is called with
    MaxSleep,        \* _maxsleep: the longest sleep of the timer
    TimeshiftLimit,  \* _timeshiftlimit: beyond it the clock is taken to have jumped
    Second,          \* ticks per second, for the int() in alignmentOffset()
    TZ,              \* offset of the time zone
    FirstNow,        \* the time when the program starts
    MaxNow,          \* bound on the clock
    MaxCalls,        \* bound on calls of remove(), reschedule() and shutdown()
    None

Forever == -1        \* count = None

\* A task is aligned to the multiples of an interval that is not empty.
ASSUME JobsAssumption ==
    /\ \A j \in Jobs : /\ j.interval \in Nat /\ j.delay \in Nat /\ j.retries \in Nat
                       /\ j.count \in Nat \cup {Forever}
                       /\ j.align \in BOOLEAN /\ j.waitstart \in BOOLEAN
                       /\ j.align => j.interval > 0
    /\ Jobs # {} /\ Handles # {} /\ None \notin Tasks /\ IsFiniteSet(Timers)
    /\ MaxSleep \in Nat \ {0} /\ TimeshiftLimit \in Nat /\ Second \in Nat \ {0}
    /\ TZ \in Nat /\ FirstNow \in Nat /\ MaxNow \in Nat

VARIABLES
    now,              \* time.time()
    starttime,        \* _starttime
    nextcount,        \* _nextcount
    running,          \* _running
    timerThread,      \* _timerThread
    timer,            \* the timer threads: program point and nexttime
    alarms,           \* _locks: <<slot, task>> for every lock in a list
    unlocked,         \* tasks whose lock is free
    tasks,            \* _tasks: handle to task
    pendingStart,     \* _pendingStart: handle to the task whose add() waits for it
    pendingException, \* _pendingException: handles with an exception
    pc, job, handle, slot, left, failures, claimed,  \* locals of _runTask()
    events,           \* tasks whose start event is set
    removed,          \* tasks that remove() unregistered, and whose thread it joins
    stopper,          \* the timer that shutdown() waits for
    calls,            \* calls made so far
    dropped,          \* tasks that reschedule() took out of the schedule (history)
    stopped           \* shutdown() has been called (history)

vars == <<now, starttime, nextcount, running, timerThread, timer, alarms,
          unlocked, tasks, pendingStart, pendingException, pc, job, handle, slot, left,
          failures, claimed, events, removed, stopper, calls, dropped, stopped>>
taskVars == <<job, handle, slot, left, failures, claimed>>
clockVars == <<now, starttime, nextcount, timer>>
callVars == <<removed, stopper, calls, dropped, stopped>>

Points == {"new", "claim", "start", "spawn", "asleep", "call", "requeue",
           "exit", "ended", "died"}

TypeOK ==
    /\ {now, starttime} \subseteq Nat /\ nextcount \in Int
    /\ running \in BOOLEAN
    /\ timerThread \in Timers \cup {None} /\ stopper \in Timers \cup {None}
    /\ timer \in [Timers -> [pc : {"off", "begin", "sleep", "ended"}, nexttime : Int]]
    /\ alarms \subseteq Int \X Tasks
    /\ {unlocked, events, removed} \subseteq SUBSET Tasks
    /\ tasks \in [Handles -> Tasks \cup {None}]
    /\ pendingStart \in [Handles -> Tasks \cup {None}]
    /\ pendingException \subseteq Handles
    /\ pc \in [Tasks -> Points]
    /\ job \in [Tasks -> Jobs] /\ handle \in [Tasks -> Handles]
    /\ slot \in [Tasks -> Int] /\ left \in [Tasks -> Nat \cup {Forever}]
    /\ failures \in [Tasks -> Nat] /\ claimed \in [Tasks -> Tasks \cup {None}]

Init ==
    /\ now = FirstNow /\ starttime = 0 /\ nextcount = 0
    /\ running = TRUE /\ timerThread = None /\ stopper = None
    /\ timer = [k \in Timers |-> [pc |-> "off", nexttime |-> 0]]
    /\ alarms = {} /\ unlocked = {} /\ events = {} /\ removed = {}
    /\ tasks = [h \in Handles |-> None] /\ pendingStart = [h \in Handles |-> None]
    /\ pendingException = {}
    /\ pc = [t \in Tasks |-> "new"]
    /\ job = [t \in Tasks |-> CHOOSE j \in Jobs : TRUE]
    /\ handle = [t \in Tasks |-> CHOOSE h \in Handles : TRUE]
    /\ slot = [t \in Tasks |-> 0] /\ left = [t \in Tasks |-> 0]
    /\ failures = [t \in Tasks |-> 0] /\ claimed = [t \in Tasks |-> None]
    /\ calls = 0 /\ dropped = {} /\ stopped = FALSE

Goto(t, p) == pc' = [pc EXCEPT ![t] = p]
Frequency(j) == Max({1, j.interval})

--------------------------------------------------------------------------
(* The caller's side *)

\* One thread that was not started yet is as good as another.
Fresh(S) == IF S = {} THEN {} ELSE {CHOOSE x \in S : TRUE}

\* alignmentOffset() and what _runTask() makes of it: the first slot of an aligned task.
AlignedSlot(first, interval) ==
    LET at      == starttime + first
        aligned == ((at - ((at - TZ) % interval)) \div Second) * Second
    IN  Max({0, aligned + interval - starttime + 1})

FirstSlot(j) ==
    LET first == nextcount + j.delay
    IN  IF j.align THEN AlignedSlot(first, j.interval) ELSE first

\* The head of _runTask(), under the mutex: the task takes the place of the one that has
\* its handle.  To release a lock that is free already is an error (RuntimeError): the
\* new thread dies, registered and without an alarm.
Setup(t, h, j) ==
    LET other == tasks[h]
        first == FirstSlot(j)
    IN
    /\ tasks' = [tasks EXCEPT ![h] = t]
    /\ \/ /\ other \in unlocked
          /\ Goto(t, "died")
          /\ UNCHANGED <<unlocked, slot, alarms>>
       \/ /\ other \notin unlocked
          /\ unlocked' = unlocked \cup ({other} \ {None})
          /\ slot' = [slot EXCEPT ![t] = first]
          /\ alarms' = alarms \cup {<<first, t>>}
          /\ Goto(t, "claim")

\* add(): takes the mutex for the new thread, registers the event to wait for, and lets
\* the thread do its set-up.  With waitstart it returns when t is in events, and raises
\* what is in pendingException for its handle.
Add(t, h, j) ==
    /\ t \in Fresh({u \in Tasks : pc[u] = "new"})
    /\ job' = [job EXCEPT ![t] = j] /\ handle' = [handle EXCEPT ![t] = h]
    /\ left' = [left EXCEPT ![t] = j.count]
    /\ pendingStart' = IF j.waitstart THEN [pendingStart EXCEPT ![h] = t] ELSE pendingStart
    /\ Setup(t, h, j)
    /\ UNCHANGED <<clockVars, running, timerThread, pendingException, failures, claimed, events,
                   removed, stopper, calls, dropped, stopped>>

\* Fault: the removed task's thread is not woken.
RemoveAsleep(h) ==
    LET t == tasks[h] IN
    /\ t # None /\ calls < MaxCalls
    /\ tasks' = [tasks EXCEPT ![h] = None]
    /\ alarms' = {a \in alarms : a[2] # t}
    /\ removed' = removed \cup {t}
    /\ calls' = calls + 1
    /\ UNCHANGED <<clockVars, running, timerThread, unlocked, pendingStart, pendingException, pc,
                   taskVars, events, stopper, dropped, stopped>>

\* remove(): unregisters the task, clears its alarm and wakes its thread. 
\* It returns at once, or with "wait" when that thread is gone.
Remove(h) ==
    LET t == tasks[h] IN
    /\ t # None /\ calls < MaxCalls
    /\ tasks' = [tasks EXCEPT ![h] = None]
    /\ alarms' = {a \in alarms : a[2] # t}
    /\ unlocked' = unlocked \cup {t}
    /\ removed' = removed \cup {t}
    /\ calls' = calls + 1
    /\ UNCHANGED <<clockVars, running, timerThread, pendingStart, pendingException, pc,
                   taskVars, events, stopper, dropped, stopped>>

\* reschedule(): takes the task out, and fails at the undefined name _nextcount of
\* _setalarm() before it gets a new alarm.
Reschedule(h) ==
    LET t == tasks[h] IN
    /\ t # None /\ calls < MaxCalls
    /\ tasks' = [tasks EXCEPT ![h] = None]
    /\ alarms' = {a \in alarms : a[2] # t}
    /\ dropped' = dropped \cup {t}
    /\ calls' = calls + 1
    /\ UNCHANGED <<clockVars, running, timerThread, unlocked, pendingStart,
                   pendingException, pc, taskVars, events, removed, stopper, stopped>>

\* shutdown(): joins the timer thread it finds, without the mutex.
Shutdown ==
    /\ stopper = None /\ calls < MaxCalls
    /\ running' = FALSE /\ stopped' = TRUE
    /\ stopper' = timerThread
    /\ calls' = calls + 1
    /\ UNCHANGED <<clockVars, timerThread, alarms, unlocked, tasks, pendingStart,
                   pendingException, pc, taskVars, events, removed, dropped>>

ShutdownReturns ==
    /\ stopper # None /\ timer[stopper].pc = "ended"
    /\ stopper' = None /\ timerThread' = None
    /\ UNCHANGED <<clockVars, running, alarms, unlocked, tasks, pendingStart,
                   pendingException, pc, taskVars, events, removed, calls, dropped, stopped>>

--------------------------------------------------------------------------
(* The thread of a task: _runTask() *)

\* Without the mutex: whoever comes first gets the event registered for the handle.
Claim(t) ==
    /\ pc[t] = "claim"
    /\ claimed' = [claimed EXCEPT ![t] = pendingStart[handle[t]]]
    /\ pendingStart' = [pendingStart EXCEPT ![handle[t]] = None]
    /\ Goto(t, "start")
    /\ UNCHANGED <<clockVars, running, timerThread, alarms, unlocked, tasks,
                   pendingException, job, handle, slot, left, failures, events, callVars>>

\* The head of the while loop.
Again(t, repeats) == Goto(t, IF repeats = 0 THEN "exit" ELSE "asleep")

\* start(): the test and the assignment are two steps, without the mutex.
StartTest(t) ==
    /\ pc[t] = "start"
    /\ running' = TRUE
    /\ IF timerThread = None THEN Goto(t, "spawn") ELSE Again(t, left[t])
    /\ UNCHANGED <<clockVars, timerThread, alarms, unlocked, tasks, pendingStart,
                   pendingException, taskVars, events, callVars>>

StartSpawn(t) ==
    /\ pc[t] = "spawn"
    /\ \E k \in Fresh({l \in Timers : timer[l].pc = "off"}) :
          /\ timer' = [timer EXCEPT ![k].pc = "begin"]
          /\ timerThread' = k
    /\ Again(t, left[t])
    /\ UNCHANGED <<now, starttime, nextcount, running, alarms, unlocked, tasks, pendingStart,
                   pendingException, taskVars, events, callVars>>

\* lock.acquire() returns; a task that lost its place leaves the loop.
Wake(t) ==
    /\ pc[t] = "asleep" /\ t \in unlocked
    /\ unlocked' = unlocked \ {t}
    /\ Goto(t, IF tasks[handle[t]] = t THEN "call" ELSE "exit")
    /\ UNCHANGED <<clockVars, running, timerThread, alarms, tasks, pendingStart,
                   pendingException, taskVars, events, callVars>>

\* The first call that ends tells the add() that waits.
TellAdd(t) ==
    /\ events' = events \cup ({claimed[t]} \ {None})
    /\ claimed' = [claimed EXCEPT ![t] = None]

Repeat(t) == left' = [left EXCEPT ![t] = IF @ > 0 THEN @ - 1 ELSE @]

Succeed(t) ==
    /\ pc[t] = "call"
    /\ failures' = [failures EXCEPT ![t] = 0]
    /\ TellAdd(t) /\ Repeat(t) /\ Goto(t, "requeue")
    /\ UNCHANGED <<clockVars, running, timerThread, alarms, unlocked, tasks, pendingStart,
                   pendingException, job, handle, slot, callVars>>

Fail(t) ==
    /\ pc[t] = "call"
    /\ failures' = [failures EXCEPT ![t] = @ + 1]
    /\ TellAdd(t)
    /\ \/ /\ failures[t] + 1 > job[t].retries
          /\ pendingException' = IF claimed[t] # None THEN pendingException \cup {handle[t]}
                                                      ELSE pendingException
          /\ Goto(t, "exit")
          /\ UNCHANGED left
       \/ /\ failures[t] + 1 <= job[t].retries
          /\ Repeat(t) /\ Goto(t, "requeue")
          /\ UNCHANGED pendingException
    /\ UNCHANGED <<clockVars, running, timerThread, alarms, unlocked, tasks, pendingStart,
                   job, handle, slot, callVars>>

\* Fault: a late task takes up a beat of its own.
NextSlotFromNow(s, f) == IF s < nextcount THEN nextcount - 1 + f ELSE s

\* The next slot: one interval on, or the next of the task's own beat that is not over.
NextSlot(s, f) ==
    IF s < nextcount THEN nextcount - 1 + f - ((nextcount - 1 - s) % f) ELSE s

Requeue(t) ==
    LET next == NextSlot(slot[t], Frequency(job[t])) IN
    /\ pc[t] = "requeue"
    /\ slot' = [slot EXCEPT ![t] = next]
    /\ alarms' = alarms \cup {<<next, t>>}
    /\ Again(t, left[t])
    /\ UNCHANGED <<clockVars, running, timerThread, unlocked, tasks, pendingStart,
                   pendingException, job, handle, left, failures, claimed, events, callVars>>

\* An event has no release(): a thread that still has one dies here, and add() waits on.
\* (The locals are gone with the thread.)
Exit(t) ==
    /\ pc[t] = "exit"
    /\ \/ /\ claimed[t] # None
          /\ Goto(t, "died") /\ UNCHANGED tasks
       \/ /\ claimed[t] = None
          /\ tasks' = [tasks EXCEPT ![handle[t]] = IF @ = t THEN None ELSE @]
          /\ Goto(t, "ended")
    /\ slot' = [slot EXCEPT ![t] = 0] /\ left' = [left EXCEPT ![t] = 0]
    /\ failures' = [failures EXCEPT ![t] = 0]
    /\ UNCHANGED <<clockVars, running, timerThread, alarms, unlocked, pendingStart,
                   pendingException, job, handle, claimed, events, callVars>>

--------------------------------------------------------------------------
(* The timer thread: _timerloop() *)

TimerStep(k, p, time) == timer' = [timer EXCEPT ![k] = [pc |-> p, nexttime |-> time]]

TimerBegin(k) ==
    /\ timer[k].pc = "begin"
    /\ starttime' = now
    /\ TimerStep(k, "sleep", now)
    /\ UNCHANGED <<now, nextcount, running, timerThread, alarms, unlocked, tasks,
                   pendingStart, pendingException, pc, taskVars, events, callVars>>

Abs(n) == IF n < 0 THEN -n ELSE n

\* Fault: the timer sleeps past the earliest alarm.
NextCountSlept(remaining, start) == now + MaxSleep - start

\* _nextcount: the earliest slot that remains, or as far as the timer may sleep.
NextCount(remaining, start) == Min({a[1] : a \in remaining} \cup {now + MaxSleep - start})

\* Fault: the timer wakes one tick early.
AsleepShort(k) == timer[k].pc = "sleep" /\ now < timer[k].nexttime - 1

\* time.sleep() is over: releases the locks of the current slot and goes to the next one.
\* (The test of _running and the round under the mutex are one step here: a shutdown()
\* between them only makes the round the last one.)
Asleep(k) == timer[k].pc = "sleep" /\ now < timer[k].nexttime

TimerEnds(k) ==
    /\ timer[k].pc = "sleep" /\ ~Asleep(k) /\ ~running
    /\ TimerStep(k, "ended", timer[k].nexttime)
    /\ UNCHANGED <<now, starttime, nextcount, running, timerThread, alarms, unlocked, tasks,
                   pendingStart, pendingException, pc, taskVars, events, callVars>>

TimerRound(k) ==
    LET late  == now - timer[k].nexttime
        start == IF Abs(late) > TimeshiftLimit THEN starttime + late ELSE starttime
        due   == {a \in alarms : a[1] = nextcount}
        next  == NextCount(alarms \ due, start)
    IN
    /\ timer[k].pc = "sleep" /\ ~Asleep(k) /\ running
    /\ unlocked' = unlocked \cup {a[2] : a \in due}
    /\ alarms' = alarms \ due
    /\ starttime' = start
    /\ nextcount' = next
    /\ TimerStep(k, "sleep", start + next)
    /\ UNCHANGED <<now, running, timerThread, tasks, pendingStart, pendingException, pc,
                   taskVars, events, callVars>>

\* The clock.
Tick ==
    /\ now < MaxNow
    /\ now' = now + 1
    /\ UNCHANGED <<starttime, nextcount, timer, running, timerThread, alarms, unlocked,
                   tasks, pendingStart, pendingException, pc, taskVars, events, callVars>>

--------------------------------------------------------------------------
RunTask(t) == Claim(t) \/ StartTest(t) \/ StartSpawn(t) \/ Wake(t)
                 \/ Succeed(t) \/ Fail(t) \/ Requeue(t) \/ Exit(t)
TimerLoop(k) == TimerBegin(k) \/ TimerEnds(k) \/ TimerRound(k)

Next ==
    \/ \E t \in Tasks, h \in Handles, j \in Jobs : Add(t, h, j)
    \/ \E t \in Tasks : RunTask(t)
    \/ \E h \in Handles : Remove(h) \/ Reschedule(h)
    \/ Shutdown \/ ShutdownReturns
    \/ \E k \in Timers : TimerLoop(k)
    \/ Tick

\* Threads that can run do run, callbacks return, the clock goes on.
Spec ==
    /\ Init /\ [][Next]_vars
    /\ \A t \in Tasks : WF_vars(RunTask(t))
    /\ \A k \in Timers : WF_vars(TimerLoop(k))
    /\ WF_vars(Tick) /\ WF_vars(ShutdownReturns)

--------------------------------------------------------------------------
(* Properties *)

Registered(t) == tasks[handle[t]] = t
OneTimer == Cardinality({k \in Timers : timer[k].pc # "off"}) = 1

\* A thread that sleeps in lock.acquire() will be woken: the alarm of a registered task
\* is in the schedule or its lock is free, and the lock of one that lost its place to
\* remove() or to another add() is free, so that its thread ends (_runTask(), remove()).
SleepersWake ==
    \A t \in Tasks \ dropped :
        pc[t] = "asleep" => \/ t \in unlocked
                            \/ Registered(t) /\ <<slot[t], t>> \in alarms

\* However late a task's thread is, and whatever its calls took, its slots keep the beat
\* of the first one, one interval apart (the modulo of _runTask()).
KeepsItsBeat ==
    [][\A t \in Tasks :
          pc[t] = "requeue" /\ pc'[t] # "requeue" =>
              (slot'[t] - slot[t]) % Frequency(job[t]) = 0]_vars

\* A task is never called before its time: the timer frees its lock when the clock has
\* reached the slot (_timerloop(); with one timer thread, see TimerRound).
NeverEarly ==
    [][\A t \in Tasks :
          OneTimer /\ Registered(t) /\ Registered(t)' /\ t \notin unlocked /\ t \in unlocked'
              => now >= starttime + slot[t]]_vars

\* A task whose time has come does not sleep on, however many tasks share the schedule
\* (_timerloop() takes the earliest slot, and catches up with those it missed).
Overdue(t) ==
    /\ OneTimer /\ ~stopped /\ Registered(t) /\ t \notin dropped
    /\ pc[t] = "asleep" /\ t \notin unlocked /\ starttime + slot[t] <= now

DueTasksRun == \A t \in Tasks : Overdue(t) ~> ~Overdue(t)

\* remove() with wait comes back: the thread that it joins sees that it was removed,
\* wherever it was ("Wait for schedule thread to complete before returning").
RemoveEnds == \A t \in Tasks : t \in removed ~> pc[t] \in {"ended", "died"}

==========================================================================
