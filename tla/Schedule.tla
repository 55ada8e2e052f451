------------------------------ MODULE Schedule ------------------------------
(***************************************************************************)
(* The controller's schedule (CMD_SCHEDULE_CLASS): one ordered work list   *)
(* per measure of time.  A "time" below is a function from Lists to        *)
(* numbers, the five current values that the C++ methods take as           *)
(* arguments.                                                              *)
(***************************************************************************)
EXTENDS WorkList

CONSTANT UINT64_MAX     \* the "no event" time, above every time that is reached

EmptySchedule == [l \in Lists |-> << >>]

(***************************************************************************)
(* Schedule: a periodic item first gets its next action time, a multiple   *)
(* of its period.  The nanosecond case leaves out the extra 1 of the       *)
(* others.                                                                 *)
(***************************************************************************)
NextDueBack(trigger, current, period) ==      \* faulty variant: wrong sign
    ((current + 1 - period) \div period) * period

NextDueSameForAll(trigger, current, period) ==   \* faulty variant
    ((current + 1 + period) \div period) * period

NextDue(trigger, current, period) ==
    IF trigger = "NANOSECOND_PERIOD"
    THEN ((current + period) \div period) * period
    ELSE ((current + 1 + period) \div period) * period

Timed(item, time) ==
    IF Periodic(item.trigger)
    THEN [item EXCEPT !.actionTime =
             NextDue(item.trigger, time[ListOf(item.trigger)], item.period)]
    ELSE item

Scheduled(sched, item, time) ==
    [sched EXCEPT ![ListOf(item.trigger)] =
        InsertOrdered(@, Timed(item, time))]

(***************************************************************************)
(* ReadyEvent looks at the head of each list, in this order.  The cycle    *)
(* and nanosecond lists want the head's time to be the current time; the   *)
(* others want it to have come.                                            *)
(***************************************************************************)
ReadyOrder == << "cycle", "nanosecond", "inst", "macroInst", "packet" >>

Exact == {"cycle", "nanosecond"}

ReadyNowForgotten(sched, l, time) ==   \* faulty variant: NOW is not special
    /\ sched[l] # << >>
    /\ \/ l \in Exact /\ Head(sched[l]).actionTime = time[l]
       \/ l \notin Exact /\ Head(sched[l]).actionTime <= time[l]

ReadyTooLate(sched, l, time) ==   \* faulty variant: < for <=
    /\ sched[l] # << >>
    /\ LET head == Head(sched[l]) IN
       \/ head.trigger = "NOW"
       \/ l \in Exact /\ head.actionTime = time[l]
       \/ l \notin Exact /\ head.actionTime < time[l]

Ready(sched, l, time) ==
    /\ sched[l] # << >>
    /\ LET head == Head(sched[l]) IN
       \/ head.trigger = "NOW"
       \/ l \in Exact /\ head.actionTime = time[l]
       \/ l \notin Exact /\ head.actionTime <= time[l]

(* The VERIFYX that follows each test: a head that is not ready must lie   *)
(* in the future.                                                          *)
Overrun(sched, l, time) ==
    /\ sched[l] # << >>
    /\ ~Ready(sched, l, time)
    /\ Head(sched[l]).actionTime < time[l]

(* The first list, in the order of the tests, whose head stops the search: *)
(* it is ready, or the program aborts on it.                               *)
StopsSearch(sched, time, k) ==
    LET l == ReadyOrder[k] IN Ready(sched, l, time) \/ Overrun(sched, l, time)

FirstStop(sched, time, k) ==
    /\ StopsSearch(sched, time, k)
    /\ \A j \in 1..(k - 1) : ~StopsSearch(sched, time, j)

(* CycleForNextEvent and its four siblings.                                *)
NextEvent(sched, l, time) ==
    IF sched[l] = << >>
    THEN UINT64_MAX
    ELSE IF Head(sched[l]).trigger = "NOW"
         THEN time[l]
         ELSE Head(sched[l]).actionTime
=============================================================================
