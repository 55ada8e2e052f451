---------------------------- MODULE MCController ----------------------------
(***************************************************************************)
(* Instances of the controller for TLC.                                    *)
(***************************************************************************)
EXTENDS ControllerProperties

Step(cycle, ns, inst, macro, pkt) ==
    [l \in Lists |-> CASE l = "cycle"      -> cycle
                       [] l = "nanosecond" -> ns
                       [] l = "inst"       -> inst
                       [] l = "macroInst"  -> macro
                       [] l = "packet"     -> pkt]

(* ASIM_COMMON_SYSTEM: one cycle at a time, no nanoseconds; two committed  *)
(* instructions (one macro instruction) and a packet, or nothing at all.   *)
CommonSteps    == {Step(1, 0, 0, 0, 0), Step(1, 0, 2, 1, 1)}
CommonHonoured == {"cycle", "inst", "macroInst"}

(* One thing of each kind that the command line or AwbInit may ask.        *)
MixedStartup ==
    {CMD_Start, CMD_Stop("CYCLE_ONCE", 0),
     CMD_Progress("cycle", "CYCLE_PERIOD", 2)}

MixedWb ==
    {CMD_Start, CMD_Stop("CYCLE_ONCE", 1), CMD_Exit("NOW", 0),
     CMD_ClearProgress("cycle"), CMD_Progress("inst", "INST_PERIOD", 1),
     CMD_Stop("MACROINST_ONCE", 1), CMD_Stats("on", "PACKET_ONCE", 1),
     CMD_SkipThread("t1", "CYCLE_ONCE", 0)}

MixedFeeder == {CMD_ThreadBegin("t1")}

MixedChip == {CMD_ThreadEnd("t1"), CMD_Stop("NOW", 0)}

(* For liveness: a script that starts, stops and ends the model, and a     *)
(* periodic report that keeps waking the workbench.                        *)
LiveStartup == {CMD_Start, CMD_Stop("CYCLE_ONCE", 1)}

LiveWb ==
    {CMD_Start, CMD_Exit("NOW", 0), CMD_Progress("cycle", "CYCLE_PERIOD", 1),
     CMD_ClearProgress("cycle")}

LiveChip == {CMD_ThreadEnd("t1"), CMD_Stop("NOW", 0)}

(* The clockserver system: a clock of another domain may leave the         *)
(* reference cycle where it is.  It counts nanoseconds, here one at a time *)
(* or none.                                                                *)
ServerSteps    == {Step(0, 1, 0, 0, 0), Step(1, 0, 1, 0, 0), Step(1, 1, 0, 0, 0)}
ServerHonoured == CommonHonoured \cup {"nanosecond"}

ServerStartup == {CMD_Start, CMD_Exit("NANOSECOND_ONCE", 2)}

ServerWb ==
    {CMD_Progress("nanosecond", "NANOSECOND_PERIOD", 1),
     CMD_Progress("nanosecond", "NANOSECOND_PERIOD", 2),
     CMD_ClearProgress("nanosecond"),
     CMD_EmitStats("CYCLE_ONCE", 1), CMD_ResetStats("INST_ONCE", 1),
     CMD_Stop("NANOSECOND_ONCE", 1)}

(* A base frequency of 500 MHz: two nanoseconds to a clock.                *)
SlowSteps == {Step(1, 2, 0, 0, 0)}

(* "-n 3", or AwbRun nanosecond 3.                                         *)
SlowStartup == {CMD_Start, CMD_Exit("NANOSECOND_ONCE", 3)}

NoCommands == {}
=============================================================================
