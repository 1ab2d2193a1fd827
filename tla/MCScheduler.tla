---------------------------- MODULE MCScheduler ----------------------------
(* Two kinds of task: one that repeats for ever, aligned or delayed, and one *)
(* that is called a few times, may fail once and is waited for.              *)
EXTENDS Scheduler

Job(interval, count, retries, align, delay, waitstart) ==
    [interval |-> interval, count |-> count, retries |-> retries, align |-> align,
     delay |-> delay, waitstart |-> waitstart]

MCJobs == { Job(2, Forever, 0, TRUE, 0, FALSE), Job(1, 1, 1, FALSE, 1, TRUE) }
=============================================================================
