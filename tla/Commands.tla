------------------------------ MODULE Commands ------------------------------
(***************************************************************************)
(* The command interface of the controller: what the CMD_ functions called *)
(* by the workbench, the feeder, the chip and main() put on the            *)
(* controller's work list.  A command is what its caller passes: the kind  *)
(* of work item, its payload, its trigger and the "n" that goes with it.   *)
(*                                                                         *)
(* The callers in the repository (AwbRun, AwbSkip, AwbNewSkip of the       *)
(* workbench) compute the n of a ONCE trigger as the current time plus an  *)
(* amount; here n is that amount.                                          *)
(***************************************************************************)
Command(name, arg, trigger, n) ==
    [name |-> name, arg |-> arg, trigger |-> trigger, n |-> n]

CMD_Start            == Command("START", "none", "NOW", 0)
CMD_Stop(trigger, n) == Command("STOP", "none", trigger, n)
CMD_Exit(trigger, n) == Command("EXIT", "none", trigger, n)

(* "type" names a measure of time to be shown, or the list of schedule     *)
(* that a clearing type clears (AWBPROG_CLEARCYCLE and its siblings).      *)
CMD_Progress(type, trigger, n) == Command("PROGRESS", type, trigger, n)
CMD_ClearProgress(list)        == Command("CLEARPROGRESS", list, "NOW", 0)

(* Statistics output has no effect on the controller.                      *)
CMD_EmitStats(trigger, n)  == Command("EMITSTATS", "none", trigger, n)
CMD_ResetStats(trigger, n) == Command("RESETSTATS", "none", trigger, n)

(* Switches that instrument the run.                                       *)
CMD_Debug(on, trigger, n)      == Command("DEBUG", on, trigger, n)
CMD_Trace(trigger, n)          == Command("TRACE", "on", trigger, n)
CMD_Stats(on, trigger, n)      == Command("STATS", on, trigger, n)
CMD_Events(on, trigger, n)     == Command("EVENTS", on, trigger, n)
CMD_Stripchart(on, trigger, n) == Command("STRIPCHART", on, trigger, n)
CMD_Profile(on, trigger, n)    == Command("PROFILE", on, trigger, n)

Switches == {"DEBUG", "TRACE", "STATS", "EVENTS", "STRIPCHART", "PROFILE"}

(* What the feeder tells of its threads; always for now.                   *)
CMD_ThreadBegin(thread)   == Command("THDBEGIN", thread, "NOW", 0)
CMD_ThreadEnd(thread)     == Command("THDEND", thread, "NOW", 0)
CMD_ThreadBlock(thread)   == Command("THDBLOCK", thread, "NOW", 0)
CMD_ThreadUnblock(thread) == Command("THDUNBLOCK", thread, "NOW", 0)

(* What the workbench asks of threads; the NULL thread stands for all.     *)
CMD_SkipThread(thread, trigger, n) ==
    Command("THDSKIP", thread, trigger, n)
CMD_ScheduleThread(thread, trigger, n) ==
    Command("THDSCHED", thread, trigger, n)
CMD_UnscheduleThread(thread, trigger, n) ==
    Command("THDUNSCHED", thread, trigger, n)
=============================================================================
