\* Two tasks share a handle; a late timer, and a call of remove(), reschedule() or shutdown().
SPECIFICATION Spec
CONSTANTS
    Tasks = {t1, t2}
    Handles = {h1}
    Timers = {k1, k2}
    Jobs <- MCJobs
    MaxSleep = 2
    TimeshiftLimit = 1
    Second = 2
    TZ = 1
    FirstNow = 1
    MaxNow = 3
    MaxCalls = 1
    None = None
INVARIANT SleepersWake
PROPERTIES KeepsItsBeat NeverEarly DueTasksRun RemoveEnds
CHECK_DEADLOCK FALSE
