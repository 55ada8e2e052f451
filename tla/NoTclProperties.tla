-------------------------- MODULE NoTclProperties ---------------------------
(***************************************************************************)
(* What makes the workbench without Tcl correct.                           *)
(***************************************************************************)
EXTENDS NoTclWorkbench

(* The regular ends: main() returns, or the exit of stats dumponexit.       *)
EndedRegularly == pc \in {"exited", "exit0"}

(* The program gave up over the argument of a thread's (un)block report.   *)
GaveUpOnBlock ==
    pc = "exit1" /\ pendingProgress # << >> /\ LeavesArgument(Report)

(* A script whose every run is to last, and where nothing follows an       *)
(* AwbExit.  The workbench is at a loss with any other: a run of no length *)
(* has ended before its model was started, and what is behind the AwbExit  *)
(* is still there when the time remembered has come.                       *)
Orderly ==
    \A k \in DOMAIN script :
        /\ script[k].cmd = "run" /\ script[k].arg # "marker" => script[k].n > 0
        /\ script[k].cmd = "exit" => k = Len(script)

(* An AwbRun of cycles is never overrun: while the chip is clocked, the    *)
(* time remembered by do_run lies ahead, although the stop itself is an    *)
(* item that has to find its way through the work list and the schedule.   *)
(* And the next AwbRun starts where the last one ended, although           *)
(* CheckBmCmds works off the script on any stop, before it looks at the    *)
(* time remembered.                                                        *)
RunNotOverrun ==
    Orderly /\ pc = "clock" /\ bmStopType = "cycle" => clock["cycle"] < bmStopTime

NextRunInTime ==
    Orderly /\ bmStopTime' # bmStopTime /\ bmStopType = "cycle"
        => clock["cycle"] = bmStopTime

RunsInOrder == []RunNotOverrun /\ [][NextRunInTime]_allVars

(* What ProcessBmCmds reads after it has taken a line off the list is no   *)
(* longer there: it must never have a line to take.                        *)
NoUseAfterPop == Orderly /\ InBatch("commands") => tokens = << >>

(* A script of lines that are carried out, each with reports that          *)
(* BatchProgress knows.                                                    *)
Accepted ==
    /\ Orderly
    /\ \A l \in ToSet(script) :
          \/ l.cmd \in {"run", "exit", "blank", "stats", "sample"}
          \/ l.cmd = "progress" /\ l.arg = "cycle"

(* "if no threads left, exit" (ThreadEnd): the program ends regularly      *)
(* after the last thread has, also when the script has been worked off or  *)
(* its run goes on for ever.  The end of the thread has to be reported,    *)
(* and counted.  active_threads is never initialized:                      *)
(* LastThreadExits speaks of the programs where it happens to start at 0,  *)
(* NoThreadsLeftExits of every program, as the comment in ThreadEnd does.  *)
LastHasEnded == alive = {} /\ \E i \in ToSet(ctrlWorkList) : i.name = "THDEND"

NoThreadsLeftExits ==
    Accepted => (LastHasEnded ~> (EndedRegularly \/ GaveUpOnBlock))

LastThreadExits == activeThreads = 0 => NoThreadsLeftExits

(* A script of AwbRun cycle lines that ends with AwbExit ends the program  *)
(* regularly, whatever active_threads starts at, unless a thread blocks or *)
(* unblocks on the way.  That takes every stop to be reported, every       *)
(* report to advance the script, and every start to set the model going    *)
(* again.                                                                  *)
OfCycles ==
    /\ Accepted
    /\ script # << >> /\ Last(script).cmd = "exit"
    /\ \A l \in ToSet(script) : l.cmd = "run" => l.arg = "cycle"

ScriptEnds == OfCycles => <>(EndedRegularly \/ GaveUpOnBlock)
=============================================================================
