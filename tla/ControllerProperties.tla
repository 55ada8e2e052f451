------------------------ MODULE ControllerProperties ------------------------
(***************************************************************************)
(* What makes the controller correct.                                      *)
(***************************************************************************)
EXTENDS Controller

Pending == ToSet(ctrlWorkList)

Waiting == UNION {ToSet(schedule[l]) : l \in Lists}

(* No lost command: the loop of SYS_Execute never asks whether there is    *)
(* new work, so whenever it is about to test its condition with items on   *)
(* the controller's work list, the break flag is up.  SYS_ClearBreak is    *)
(* called after the work list was drained and before events are performed  *)
(* and the workbench is informed; moving it would lose a wake-up.          *)
BreakCoversPending ==
    pc = "execute" /\ ctrlWorkList # << >> => sysBreak

(* The same where a thread's end may ask for an exit: that exit is the     *)
(* only thing that can wait behind the performance model's back.           *)
BreakCoversCommands ==
    pc = "execute" /\ (\E i \in Pending : i.name # "EXIT") => sysBreak

(* Each list of the schedule is ordered by time, as ReadyEvent, which      *)
(* reads heads only, relies on; of the items for one time that are not     *)
(* periodic, the one issued first is first.                                *)
Ordered == \A l \in Lists : InOrder(schedule[l])

(* No VERIFYX of ReadyEvent finds a head whose time has passed.            *)
NoAbort == pc # "aborted"

(* It depends on the system: a clock must not step over a cycle or a       *)
(* nanosecond, and must test the bounds of what it advances.               *)
OneByOne ==
    \A d \in ClockSteps : \A l \in Exact :
        d[l] = 0 \/ (d[l] = 1 /\ l \in Honoured)

(* The assertion before SYS_Execute: none of the five bounds is the time   *)
(* the loop sampled, nor does any lie behind it, so that the performance   *)
(* model has something to do.  (The assertion itself asks only that each   *)
(* bound differs from the sampled time.)                                   *)
BoundsAhead ==
    pc = "decide" => \A l \in Lists : Bounds[l] > now[l]

(* A periodic nanosecond command is always due within its period, at a     *)
(* multiple of it, as control.h says of ACTION_NANOSECOND_PERIOD.          *)
OnTheBeat(l) ==
    \A i \in ToSet(schedule[l]) :
        Periodic(i.trigger) =>
            /\ i.actionTime <= clock[l] + i.period
            /\ i.actionTime % i.period = 0

NanosecondPeriodKept == OnTheBeat("nanosecond")

(* The controller keeps the promise of CommandService.                     *)
Service == INSTANCE CommandService
    WITH time     <- clock,
         midCycle <- (pc = "clock"),
         inbox    <- Pending,
         agenda   <- Waiting,
         stopped  <- pmStopped,
         ending   <- pmExiting,
         Steps    <- ClockSteps,
         Prompt   <- Honoured

KeepsPromise == Service!CSpec

(* Every item asked for "now" leaves the controller's hands: it is         *)
(* performed, cleared, or discarded at the end, even when the model is     *)
(* stopped.                                                                *)
NowOutstanding(n) ==
    \E i \in Pending \cup Waiting : i.id = n /\ i.trigger = "NOW"

NowIsPerformed ==
    \A n \in 1..MaxCommands :
        pc # "main" /\ NowOutstanding(n)
            ~> ~NowOutstanding(n) \/ pc = "failed"

(* A model that was started makes progress: SYS_Execute cannot be entered  *)
(* again and again without the chip being clocked, unless the model is     *)
(* stopped or the simulation ends.                                         *)
StartedModelRuns ==
    \A t \in 0..(MaxTime - 1) :
        pc = "loop" /\ ~pmStopped /\ clock["cycle"] = t
            ~> clock["cycle"] > t \/ pmStopped \/ pmExiting

(* An exit asked for "now" ends the program, also while it is stopped.     *)
ExitEnds ==
    (pc = "loop" /\ \E i \in Pending \cup Waiting :
                       i.name = "EXIT" /\ i.trigger = "NOW")
        ~> pc = "exited"
=============================================================================
