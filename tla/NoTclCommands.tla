---------------------------- MODULE NoTclCommands -----------------------------
(***************************************************************************)
(* The workbench commands of the workbench without Tcl (awb-notcl.cpp):    *)
(* functions with parameters of their types instead of words.  A mistake   *)
(* ends the process (myexit).                                              *)
(***************************************************************************)
EXTENDS PmProcess

PmStateDescToPtr(desc) ==
    IF desc \in Range(StateDescs) THEN CHOOSE s \in DOMAIN StateDescs : StateDescs[s] = desc
    ELSE NullPtr

PmThreadDescToPtr(desc) == IF desc \in DOMAIN ThreadOf THEN ThreadOf[desc] ELSE NullPtr

MyExit(p) == Dies(p, "exit")

PmStateDump(p, file) ==
    Calling(p, [s \in AllStates(p) |-> << "Update", s >>]
            \o << << "PrintModuleStats", file >>, << "DumpAllFeederStats", file >> >>)

(* Of "all" the states or of one; the flag goes out both times.            *)
OfStates(p, desc, Do(_)) ==
    CASE desc = "all" -> Do(AllStates(p))
      [] PmStateDescToPtr(desc) = NullPtr -> MyExit(p)
      [] OTHER -> Do({PmStateDescToPtr(desc)})

PmStateSuspend(p, desc) ==
    OfStates(p, desc, LAMBDA which : [p EXCEPT !.statsOn = FALSE, !.suspended = @ \cup which])

PmStateUnsuspend(p, desc) ==
    OfStates(p, desc, LAMBDA which : [p EXCEPT !.statsOn = FALSE, !.suspended = @ \ which])

(* PmStatePath, PmStateName, PmStateDesc.                                  *)
PmStateTold(p, option, desc) ==
    IF PmStateDescToPtr(desc) = NullPtr THEN MyExit(p)
    ELSE Reply(p, << << option, PmStateDescToPtr(desc) >> >>)

PmStateFind(p, name) ==
    LET named == {s \in AllStates(p) : SameNoCase(p.states[s].name, name)} IN
    Reply(p, IF named = {} THEN << >>
             ELSE << << "STATE__", CHOOSE s \in named : \A t \in named : s <= t >> >>)

-----------------------------------------------------------------------------
(* CheckEvents before each of them.                                        *)
PmEventOn(p) ==
    IF ~ p.runWithEventsOn THEN MyExit(p)
    ELSE Calling([p EXCEPT !.eventsOn = TRUE, !.firstTurnedOn = FALSE],
              << << "TurnOn" >> >>
              \o (IF p.firstTurnedOn THEN << << "StartActivity", "first cycle" >> >>
                                     ELSE << >>))

PmEventOff(p) ==
    IF ~ p.runWithEventsOn THEN MyExit(p)
    ELSE Calling([p EXCEPT !.eventsOn = FALSE], << << "TurnOff" >> >>)

PmEventFilename(p, file) ==
    IF ~ p.runWithEventsOn THEN MyExit(p) ELSE Calling(p, << << "ChangeFileName", file >> >>)

PmStrip(p, onoff) == [p EXCEPT !.stripsOn = onoff = "on"]
PmTrace(p, onoff) == [p EXCEPT !.traceOn = onoff = "on"]

-----------------------------------------------------------------------------
(* The feeder is asked with the arguments that the subcommand uses.        *)
MarkerCall(p, desc, markerID, request, used) ==
    Calling(p, << << "Marker", request, PmThreadDescToPtr(desc), markerID, used >> >>)

PmMarkerSet(p, desc, markerID, subcmd, args) ==
    CASE PmThreadDescToPtr(desc) = NullPtr -> MyExit(p)
      [] subcmd = "pc"   -> MarkerCall(p, desc, markerID, "SET_PC", SubSeq(args, 1, 1))
      [] subcmd = "inst" -> MarkerCall(p, desc, markerID, "SET_INST", SubSeq(args, 1, 2))
      [] OTHER -> MyExit(p)

PmMarkerClear(p, desc, markerID, subcmd, args) ==
    CASE PmThreadDescToPtr(desc) = NullPtr -> MyExit(p)
      [] subcmd = "pc"  -> MarkerCall(p, desc, markerID, "CLEAR_PC", SubSeq(args, 1, 1))
      [] subcmd = "all" -> MarkerCall(p, desc, markerID, "CLEAR_ALL", << >>)
      [] OTHER -> MyExit(p)

-----------------------------------------------------------------------------
PmScheduleStart(p) == Calling(p, << << "CMD_Start" >> >>)

(* PmScheduleStopNow, -Nanosecond, -Cycle, -Inst, -MacroInst.              *)
StopTriggers ==
    [now |-> "NOW", nanosecond |-> "NANOSECOND_ONCE", cycle |-> "CYCLE_ONCE",
     inst |-> "INST_ONCE", macroinst |-> "MACROINST_ONCE"]

PmScheduleStop(p, what, time) ==
    Calling(p, << << "CMD_Stop", StopTriggers[what], IF what = "now" THEN 0 ELSE time >> >>)

PmScheduleExitNow(p) == Calling(p, << << "CMD_Exit", "NOW", 0 >> >>)

action_map ==
    [now |-> "NOW", cycle_once |-> "CYCLE_ONCE", cycle_period |-> "CYCLE_PERIOD",
     nanosecond_once |-> "NANOSECOND_ONCE", nanosecond_period |-> "NANOSECOND_PERIOD",
     inst_once |-> "INST_ONCE", inst_period |-> "INST_PERIOD",
     macroinst_once |-> "MACROINST_ONCE", macroinst_period |-> "MACROINST_PERIOD",
     packet_once |-> "PACKET_ONCE"]

CallAt(p, call, trigger, time) ==
    IF trigger \notin DOMAIN action_map THEN MyExit(p)
    ELSE Calling(p, << call \o << action_map[trigger], time >> >>)

PmScheduleThread(p, desc, trigger, time) ==
    IF PmThreadDescToPtr(desc) = NullPtr THEN MyExit(p)
    ELSE CallAt(p, << "CMD_ScheduleThread", PmThreadDescToPtr(desc) >>, trigger, time)

PmUnscheduleThread(p, desc, trigger, time) ==
    IF PmThreadDescToPtr(desc) = NullPtr THEN MyExit(p)
    ELSE CallAt(p, << "CMD_UnscheduleThread", PmThreadDescToPtr(desc) >>, trigger, time)

(* Skipping "all" is given up with the remark that the original had a bug. *)
PmScheduleSkipThread(p, desc, insts, markerID, trigger, time) ==
    IF desc = "all" \/ PmThreadDescToPtr(desc) = NullPtr THEN MyExit(p)
    ELSE CallAt(p, << "CMD_SkipThread", PmThreadDescToPtr(desc), insts, markerID >>,
                trigger, time)

-----------------------------------------------------------------------------
(* PmCycle, PmCommitted and their like: a number of the system, or of a    *)
(* cpu.                                                                    *)
PmAsk(p, question, cpu) == Reply(p, << << question, cpu >> >>)
PmCommittedWatchMarker(p, markerID) == Calling(p, << << "commitWatchMarker", markerID >> >>)
PmDrain(p, which) == Calling(p, << << which >> >>)   \* PmBeginDrain, PmEndDrain
=============================================================================
