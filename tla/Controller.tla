----------------------------- MODULE Controller -----------------------------
(***************************************************************************)
(* The classic controller: main(), CMD_Init, CMD_SchedulerLoop, the CMD_   *)
(* functions, the actions of the work items and the progress reports to    *)
(* the workbench.  All of it runs on one thread; the difficulty lies in    *)
(* the callbacks.  While the chip is clocked, the feeder and the chip call *)
(* CMD_ functions; while the workbench evaluates BatchProgress, so does    *)
(* the workbench; and skipping a thread runs the feeder in the middle of   *)
(* the processing of an event.  What they add has to be noticed without    *)
(* the loop ever asking, by way of SYS_Break.                              *)
(***************************************************************************)
EXTENDS PerfModel, Commands

CONSTANTS
    StartupCommands,  \* what the command line and the workbench's AwbInit ask
    WbCommands,       \* what the workbench may ask in BatchProgress
    FeederCommands,   \* what the feeder may tell while it initializes or skips
    ChipCommands,     \* what the feeder and the chip may ask during a clock
    STOP_THREAD,      \* the parameter of that name: exit when a thread ends
    MaxCommands,      \* bound: commands issued in one run
    MaxTime           \* bound: the cycle and nanosecond the runs stop at

ASSUME StopThreadAssumption == STOP_THREAD \in BOOLEAN
ASSUME BoundsAssumption     == MaxCommands \in Nat /\ MaxTime \in Nat

CommandShape == [name: Names, arg: Args, trigger: Triggers, n: Nat]

(* A period of 0 would divide by zero; the callers pass at least 1.  What  *)
(* a clearing progress command clears is one of the lists.                 *)
ASSUME CommandsAssumption ==
    \A c \in StartupCommands \cup WbCommands \cup FeederCommands \cup ChipCommands :
        /\ c \in CommandShape
        /\ Periodic(c.trigger) => c.n > 0
        /\ c.name = "CLEARPROGRESS" => c.arg \in Lists

(* The feeder and the chip only ever ask for things to happen now.         *)
ASSUME CallbacksAssumption ==
    \A c \in FeederCommands \cup ChipCommands : c.trigger = "NOW"

VARIABLES
    pc,              \* where main() and CMD_SchedulerLoop are
    ctrlWorkList,    \* items not yet scheduled
    schedule,        \* items waiting for their time
    now,             \* currentCycle, currentNanosecond, ... of this iteration
    pmStopped,
    pmExiting,
    pendingProgress, \* reports gathered for the workbench
    switches,        \* traceOn, statsOn, eventsOn, stripsOn, profileOn
    issued           \* history: the number of commands issued

ctrlVars == << ctrlWorkList, schedule, now, pmStopped, pmExiting,
               pendingProgress, switches, issued >>
vars == << pc, ctrlVars, sysVars >>

Places == {"main", "activate", "loop", "drain", "ready", "inform", "batch",
           "decide", "execute", "clock", "exited", "failed", "aborted",
           "crashed"}

Reports ==
    [type: Args \cup {"start", "stop", "threadbegin", "threadend",
                      "threadblock", "threadunblock"},
     arg: Args]

TypeOK ==
    /\ SysTypeOK
    /\ pc \in Places
    /\ ctrlWorkList \in Seq(WorkItems)
    /\ schedule \in [Lists -> Seq(WorkItems)]
    /\ now \in [Lists -> Nat]
    /\ pmStopped \in BOOLEAN
    /\ pmExiting \in BOOLEAN
    /\ pendingProgress \in Seq(Reports)
    /\ switches \in [Switches -> BOOLEAN]
    /\ issued \in Nat

Init ==
    /\ SysInit
    /\ pc = "main"
    /\ ctrlWorkList = << >>
    /\ schedule = EmptySchedule
    /\ now = [l \in Lists |-> 0]
    /\ pmStopped = TRUE
    /\ pmExiting = FALSE
    /\ pendingProgress = << >>
    /\ switches = [s \in Switches |-> FALSE]
    /\ issued = 0

-----------------------------------------------------------------------------
(***************************************************************************)
(* Issuing commands.                                                       *)
(***************************************************************************)

(* The work item that a command's constructor builds.                      *)
ItemOf(c) ==
    [id         |-> issued + 1,
     name       |-> c.name,
     arg        |-> c.arg,
     trigger    |-> c.trigger,
     actionTime |-> CASE c.trigger = "NOW"    -> 0
                      [] Periodic(c.trigger)  -> c.n
                      [] OTHER                -> clock[ListOf(c.trigger)] + c.n,
     period     |-> c.n]

Enlist(c) ==
    /\ issued < MaxCommands
    /\ issued' = issued + 1
    /\ ctrlWorkList' = Add(ctrlWorkList, ItemOf(c))

(* Every CMD_ function adds its item and breaks the performance model;     *)
(* CMD_Start clears pmStopped by itself as well.                           *)
IssueBreaksOnlyClock(c) ==   \* faulty variant: no break outside SYS_Execute
    /\ Enlist(c)
    /\ sysBreak' = (sysBreak \/ pc = "clock")
    /\ pmStopped' = IF c.name = "START" THEN FALSE ELSE pmStopped

Issue(c) ==
    /\ Enlist(c)
    /\ SYS_Break
    /\ pmStopped' = IF c.name = "START" THEN FALSE ELSE pmStopped

-----------------------------------------------------------------------------
(***************************************************************************)
(* main(): before the scheduler loop.                                      *)
(***************************************************************************)

(* The feeder's Init announces its threads while there is no system yet    *)
(* that CMD_ThreadBegin could break.                                       *)
FeederInit(c) ==
    /\ pc = "main"
    /\ c.name = "THDBEGIN"
    /\ Enlist(c)
    /\ UNCHANGED << pc, schedule, now, pmStopped, pmExiting, pendingProgress,
                    switches, sysVars >>

CMD_Init(success) ==
    /\ pc = "main"
    /\ pc' = IF success THEN "activate" ELSE "failed"
    /\ UNCHANGED << ctrlVars, sysVars >>

(* ParseEvents and AWB_Activate.                                           *)
Startup(c) ==
    /\ pc = "activate"
    /\ Issue(c)
    /\ UNCHANGED << pc, schedule, now, pmExiting, pendingProgress, switches,
                    clock, stopAt, markerHit >>

(* ParseEvents does not understand the command line: usage, and the end.   *)
Usage ==
    /\ pc = "activate"
    /\ pc' = "failed"
    /\ UNCHANGED << ctrlVars, sysVars >>

Activated ==
    /\ pc = "activate"
    /\ pc' = "loop"
    /\ UNCHANGED << ctrlVars, sysVars >>

-----------------------------------------------------------------------------
(***************************************************************************)
(* CMD_SchedulerLoop: sample the time, move new work to the schedule.      *)
(***************************************************************************)
Sample ==
    /\ pc = "loop"
    /\ ~pmExiting
    /\ now' = clock
    /\ pc' = "drain"
    /\ UNCHANGED << ctrlWorkList, schedule, pmStopped, pmExiting,
                    pendingProgress, switches, issued, sysVars >>

DrainItem ==
    /\ pc = "drain"
    /\ ctrlWorkList # << >>
    /\ Head(ctrlWorkList).name # "CLEARPROGRESS"
    /\ schedule' = Scheduled(schedule, Head(ctrlWorkList), now)
    /\ ctrlWorkList' = Tail(ctrlWorkList)
    /\ UNCHANGED << pc, now, pmStopped, pmExiting, pendingProgress, switches,
                    issued, sysVars >>

(* CMD_PROGRESS_CLASS::Schedule does what a clearing item asks instead of  *)
(* scheduling the item.                                                    *)
DrainClearing ==
    /\ pc = "drain"
    /\ ctrlWorkList # << >>
    /\ Head(ctrlWorkList).name = "CLEARPROGRESS"
    /\ LET l == Head(ctrlWorkList).arg IN
       \/ /\ ProgressAt(schedule[l]) # {}
          /\ schedule' = [schedule EXCEPT ![l] = WithoutFirstProgress(@)]
          /\ UNCHANGED ctrlWorkList
       \/ /\ ProgressAt(schedule[l]) = {}
          /\ ctrlWorkList' = Tail(ctrlWorkList)
          /\ UNCHANGED schedule
    /\ UNCHANGED << pc, now, pmStopped, pmExiting, pendingProgress, switches,
                    issued, sysVars >>

ClearBreak ==
    /\ pc = "drain"
    /\ ctrlWorkList = << >>
    /\ SYS_ClearBreak
    /\ pc' = "ready"
    /\ UNCHANGED << ctrlVars, clock, stopAt, markerHit >>

-----------------------------------------------------------------------------
(***************************************************************************)
(* CMD_SchedulerLoop: perform what is ready.                               *)
(***************************************************************************)

(* The progress report that an item's CmdAction adds, if any.              *)
ReportType(item) ==
    CASE item.name = "START"      -> "start"
      [] item.name = "STOP"       -> "stop"
      [] item.name = "PROGRESS"   -> item.arg
      [] item.name = "THDBEGIN"   -> "threadbegin"
      [] item.name = "THDEND"     -> "threadend"
      [] item.name = "THDBLOCK"   -> "threadblock"
      [] item.name = "THDUNBLOCK" -> "threadunblock"
      [] OTHER                    -> "none"

AWB_Progress(item) ==
    pendingProgress' =
        IF ReportType(item) = "none"
        THEN pendingProgress
        ELSE Append(pendingProgress,
                    [type |-> ReportType(item), arg |-> item.arg])

(* Skipping a thread calls the feeder, which may have something to tell    *)
(* about its threads (bound: one command to a skip).                       *)
PmAction(item) ==
    /\ switches' = IF item.name \in Switches
                   THEN [switches EXCEPT ![item.name] = (item.arg = "on")]
                   ELSE switches
    /\ \/ UNCHANGED << ctrlWorkList, issued, sysBreak >>
       \/ /\ item.name = "THDSKIP"
          /\ \E c \in FeederCommands : Enlist(c) /\ SYS_Break

CmdAction(item) ==
    /\ pmStopped' = CASE item.name = "START" -> FALSE
                      [] item.name = "STOP"  -> TRUE
                      [] OTHER               -> pmStopped
    /\ pmExiting' = (pmExiting \/ item.name = "EXIT")
    /\ AWB_Progress(item)

(* THDSKIP's PmAction dereferences its thread.                             *)
Dereferences(item) == item.name = "THDSKIP" /\ item.arg = NULL

(* One turn of the loop over ready events: the item leaves its list, both  *)
(* its actions are run, and a periodic item goes back to the schedule.     *)
ProcessEvent(l) ==
    LET item == Head(schedule[l])
        rest == [schedule EXCEPT ![l] = Tail(@)]
    IN  /\ Ready(schedule, l, now)
        /\ ~Dereferences(item)
        /\ PmAction(item)
        /\ CmdAction(item)
        /\ schedule' = IF Periodic(item.trigger)
                       THEN Scheduled(rest, item, now)
                       ELSE rest
        /\ UNCHANGED << pc, now, clock, stopAt, markerHit >>

(* A failed VERIFYX aborts the program, a NULL thread crashes it.          *)
Dies(l) ==
    /\ \/ /\ Overrun(schedule, l, now)
          /\ pc' = "aborted"
       \/ /\ Ready(schedule, l, now)
          /\ Dereferences(Head(schedule[l]))
          /\ pc' = "crashed"
    /\ UNCHANGED << ctrlVars, sysVars >>

ReadyEvent ==
    /\ pc = "ready"
    /\ \E k \in 1..Len(ReadyOrder) :
          /\ FirstStop(schedule, now, k)
          /\ ProcessEvent(ReadyOrder[k]) \/ Dies(ReadyOrder[k])

NoEventReady ==
    /\ pc = "ready"
    /\ \A k \in 1..Len(ReadyOrder) : ~StopsSearch(schedule, now, k)
    /\ pc' = "inform"
    /\ UNCHANGED << ctrlVars, sysVars >>

-----------------------------------------------------------------------------
(***************************************************************************)
(* AWB_InformProgress: the workbench is called only when there is          *)
(* something to report; whatever it asks while it runs, the reports are    *)
(* dropped when it returns.                                                *)
(***************************************************************************)
AWB_InformProgress ==
    /\ pc = "inform"
    /\ pc' = IF pendingProgress = << >> THEN "decide" ELSE "batch"
    /\ UNCHANGED << ctrlVars, sysVars >>

BatchProgress(c) ==
    /\ pc = "batch"
    /\ Issue(c)
    /\ UNCHANGED << pc, schedule, now, pmExiting, pendingProgress, switches,
                    clock, stopAt, markerHit >>

BatchDoneClearsBreak ==   \* faulty variant: SYS_ClearBreak comes too late
    /\ pc = "batch"
    /\ pendingProgress' = << >>
    /\ SYS_ClearBreak
    /\ pc' = "decide"
    /\ UNCHANGED << ctrlWorkList, schedule, now, pmStopped, pmExiting,
                    switches, issued, clock, stopAt, markerHit >>

BatchDone ==
    /\ pc = "batch"
    /\ pendingProgress' = << >>
    /\ pc' = "decide"
    /\ UNCHANGED << ctrlWorkList, schedule, now, pmStopped, pmExiting,
                    switches, issued, sysVars >>

-----------------------------------------------------------------------------
(***************************************************************************)
(* Executing the performance model until the next event.                   *)
(***************************************************************************)
Bounds == [l \in Lists |-> NextEvent(schedule, l, now)]

DecideWaits ==   \* faulty variant: a stopped loop waits where it is
    /\ pc = "decide"
    /\ ~pmStopped
    /\ IF pmExiting
       THEN /\ pc' = "loop"
            /\ UNCHANGED << stopAt, markerHit >>
       ELSE /\ pc' = "execute"
            /\ SYS_ExecuteEnter(Bounds)
    /\ UNCHANGED << ctrlVars, clock, sysBreak >>

Decide ==
    /\ pc = "decide"
    /\ IF pmStopped \/ pmExiting
       THEN /\ pc' = "loop"
            /\ UNCHANGED << stopAt, markerHit >>
       ELSE /\ pc' = "execute"
            /\ SYS_ExecuteEnter(Bounds)
    /\ UNCHANGED << ctrlVars, clock, sysBreak >>

BeginClock ==
    /\ pc = "execute"
    /\ Running
    /\ \A l \in Exact : clock[l] < MaxTime
    /\ pc' = "clock"
    /\ UNCHANGED << ctrlVars, sysVars >>

(* The feeder tells of a thread, or a module asks for something, while the *)
(* chip is being clocked.                                                  *)
DuringClock(c) ==
    /\ pc = "clock"
    /\ Issue(c)
    /\ UNCHANGED << pc, schedule, now, pmExiting, pendingProgress, switches,
                    clock, stopAt, markerHit >>

(* The exit that follows the end of a thread is put on the work list       *)
(* without breaking the performance model.                                 *)
CheckExitConditions ==
    /\ pc = "clock"
    /\ STOP_THREAD
    /\ Enlist(CMD_Exit("NOW", 0))
    /\ UNCHANGED << pc, schedule, now, pmStopped, pmExiting, pendingProgress,
                    switches, sysVars >>

EndClock(d) ==
    /\ pc = "clock"
    /\ Advance(d)
    /\ markerHit' => issued < MaxCommands    \* leave room for its stop
    /\ pc' = "execute"
    /\ UNCHANGED << ctrlVars, sysBreak, stopAt >>

(* SYS_Execute returns; if a marker was hit, it asks for a stop first.     *)
ExecuteDone ==
    /\ pc = "execute"
    /\ ~Running
    /\ IF markerHit
       THEN Issue(CMD_Stop("NOW", 0))
       ELSE UNCHANGED << ctrlWorkList, issued, sysBreak, pmStopped >>
    /\ pc' = "loop"
    /\ UNCHANGED << schedule, now, pmExiting, pendingProgress, switches,
                    clock, stopAt, markerHit >>

ExitUnlessStopped ==   \* faulty variant: a stopped model does not exit
    /\ pc = "loop"
    /\ pmExiting
    /\ ~pmStopped
    /\ pc' = "exited"
    /\ ctrlWorkList' = << >>
    /\ schedule' = EmptySchedule
    /\ pendingProgress' = << >>
    /\ UNCHANGED << now, pmStopped, pmExiting, switches, issued, sysVars >>

(* The loop ends; AWB_Exit reports the exit, and everything is deleted.    *)
Exit ==
    /\ pc = "loop"
    /\ pmExiting
    /\ pc' = "exited"
    /\ ctrlWorkList' = << >>
    /\ schedule' = EmptySchedule
    /\ pendingProgress' = << >>
    /\ UNCHANGED << now, pmStopped, pmExiting, switches, issued, sysVars >>

-----------------------------------------------------------------------------
Loop ==
    \/ Activated \/ Sample \/ DrainItem \/ DrainClearing \/ ClearBreak
    \/ ReadyEvent \/ NoEventReady
    \/ AWB_InformProgress \/ BatchDone
    \/ Decide \/ BeginClock \/ ExecuteDone \/ Exit
    \/ \E d \in ClockSteps : EndClock(d)

Calls ==
    \/ \E c \in FeederCommands : FeederInit(c)
    \/ \E success \in BOOLEAN : CMD_Init(success)
    \/ \E c \in StartupCommands : Startup(c)
    \/ Usage
    \/ \E c \in WbCommands : BatchProgress(c)
    \/ \E c \in ChipCommands : DuringClock(c)
    \/ CheckExitConditions

Next == Loop \/ Calls

Spec == Init /\ [][Next]_vars

(***************************************************************************)
(* The controller is one thread that never blocks: the loop takes its next *)
(* step, and the workbench and the chip return from every call.  Nothing   *)
(* makes anybody issue a command.                                          *)
(***************************************************************************)
Fairness == WF_vars(Loop)

FairSpec == Spec /\ Fairness
=============================================================================
