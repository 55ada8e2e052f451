--------------------------- MODULE NoTclWorkbench ---------------------------
(***************************************************************************)
(* The workbench without Tcl (COMMAND_PARSER_CLASS) and the functions of   *)
(* awb-notcl that it calls, on top of the controller: a script of awbcmds  *)
(* lines is worked off, run by run, each time the controller reports that  *)
(* the model stopped.  Everything the workbench asks becomes a work item,  *)
(* so a line only has an effect on a later turn of the scheduler loop,     *)
(* while the workbench goes by the time it remembers.                      *)
(*                                                                         *)
(* This replaces the free choice of commands in Controller: its constants  *)
(* StartupCommands and WbCommands are not used here.                       *)
(***************************************************************************)
EXTENDS Controller

CONSTANTS
    Scripts,   \* the awbcmds files, sequences of lines
    Uid,       \* TUid() of each thread
    Garbage    \* what the uninitialized active_threads may be

ASSUME UidAssumption == Uid \in [Threads -> Nat]

(* A line that do_run does not understand is of the kind "invalid".        *)
RunTypes == {"cycle", "inst", "marker"}
Lines    == [cmd: STRING, arg: STRING, n: Nat]

ASSUME ScriptsAssumption ==
    \A s \in Scripts :
        /\ s \in Seq(Lines)
        /\ \A k \in DOMAIN s : s[k].cmd = "run" => s[k].arg \in RunTypes

VARIABLES
    wb,             \* where BatchProgress is, see Routines
    tokens,         \* input_tokens: the lines not yet worked off
    bmStopType,     \* bm_stop_type, bm_stop_time: the end of the last AwbRun
    bmStopTime,
    threads,        \* the vector of threads that began
    activeThreads,  \* active_threads, an unsigned int
    dumpOnExit,     \* dumponexitfile is set
    markers,        \* SYS_CommittedMarkers
    watching,       \* SYS_CommitWatchMarker is not -1
    alive,          \* history: the threads that the feeder says are there
    script          \* history: the awbcmds file

wbVars == << wb, tokens, bmStopType, bmStopTime, threads, activeThreads,
             dumpOnExit, markers, watching >>
allVars == << vars, wbVars, alive, script >>

Routines == {"reports", "file", "check", "commands"}
ThreadStates == {"running", "idle", "terminated"}
UINT32 == 16   \* bound: the modulus of an unsigned int

WbInit ==
    /\ Init
    /\ wb = "reports"
    /\ script \in Scripts
    /\ tokens = script
    /\ bmStopType = ""
    /\ bmStopTime = 0
    /\ threads = << >>
    /\ activeThreads \in Garbage
    /\ dumpOnExit = FALSE
    /\ markers = 0
    /\ watching = FALSE
    /\ alive = {}

-----------------------------------------------------------------------------
(***************************************************************************)
(* Several CMD_ calls in a row; nothing runs between them.                 *)
(***************************************************************************)
IssueAll(cmds) ==
    /\ issued + Len(cmds) <= MaxCommands
    /\ issued' = issued + Len(cmds)
    /\ ctrlWorkList' = ctrlWorkList \o
           [k \in 1..Len(cmds) |-> [ItemOf(cmds[k]) EXCEPT !.id = issued + k]]
    /\ sysBreak' = (sysBreak \/ cmds # << >>)
    /\ pmStopped' = (pmStopped /\ \A c \in ToSet(cmds) : c.name # "START")

IssueNothing == UNCHANGED << issued, ctrlWorkList, sysBreak, pmStopped >>

(* What no routine of the workbench touches.                               *)
Untouched ==
    UNCHANGED << schedule, now, pmExiting, clock, stopAt, markerHit, markers >>

(* AWB_Activate reads the script; the model stops at cycle 0 to report it. *)
AWB_Activate ==
    /\ pc = "activate"
    /\ IssueAll(<< CMD_Stop("CYCLE_ONCE", 0), CMD_Start >>)
    /\ pc' = "loop"
    /\ UNCHANGED << wbVars, switches, pendingProgress >>
    /\ Untouched

-----------------------------------------------------------------------------
(***************************************************************************)
(* Threads.  FindThread takes a uid for an index into the vector.          *)
(***************************************************************************)
Known(uid) == uid + 1 \in DOMAIN threads
Thd(uid)   == threads[uid + 1]

InState(s) == SelectSeq(threads, LAMBDA t : t.state = s)

Became(from, to) ==
    [k \in DOMAIN threads |->
        IF threads[k].state = from THEN [threads[k] EXCEPT !.state = to]
                                   ELSE threads[k]]

-----------------------------------------------------------------------------
(***************************************************************************)
(* One line of the script.  A line is a record with the fields cmd, arg    *)
(* and n; n of a "run" is the amount.                                     *)
(***************************************************************************)

(* do_run: the stop, the watch for a marker, the time remembered.          *)
DoRunKeepsTime(line) ==   \* faulty variant: forgets to remember the time
    /\ bmStopType' = line.arg
    /\ UNCHANGED << bmStopTime, watching >>
    /\ line.arg = "cycle"
    /\ IssueAll(<< CMD_Stop("CYCLE_ONCE", line.n), CMD_Start >>)

DoRun(line) ==
    /\ bmStopType' = line.arg
    /\ IF line.arg = "marker"
       THEN /\ bmStopTime' = markers + 1
            /\ watching' = TRUE
            /\ IssueAll(<< CMD_Start >>)
       ELSE LET at == clock[line.arg] + line.n IN
            /\ bmStopTime' = at
            /\ UNCHANGED watching
            /\ IssueAll(<< CMD_Stop(IF line.arg = "cycle" THEN "CYCLE_ONCE"
                                                          ELSE "INST_ONCE",
                                    at - clock[line.arg]),
                           CMD_Start >>)

(* do_skip of one thread: out, skip, in again, a cycle apart.              *)
DoSkip(uid) ==
    /\ Known(uid)
    /\ threads' = [threads EXCEPT ![uid + 1].state = "running"]
    /\ LET t == Thd(uid).thread IN
       IssueAll(<< CMD_UnscheduleThread(t, "CYCLE_ONCE", 0),
                   CMD_SkipThread(t, "CYCLE_ONCE", 1),
                   CMD_ScheduleThread(t, "CYCLE_ONCE", 2) >>)

(* PmScheduleProgress: the second "if" of its chain sends "inst" and       *)
(* "nanosecond" to the error at its end.                                   *)
ProgressTypes == {"macroInst", "cycle"}

ScheduleProgress(line) ==
    IssueAll(<< IF line.n = 0   \* "clear"
                THEN CMD_ClearProgress(line.arg)
                ELSE CMD_Progress(line.arg,
                                  IF line.arg = "cycle" THEN "CYCLE_PERIOD"
                                                        ELSE "MACROINST_PERIOD",
                                  line.n) >>)

(* Lines that end in exit(1): what is not understood or not implemented,   *)
(* any AwbMarker (the test of its length is always true), a skip of all    *)
(* threads, an event switch in a build without events.                     *)
Rejected(line) ==
    \/ line.cmd \in {"invalid", "marker", "skipuntil", "protect", "events"}
    \/ line.cmd = "skip" /\ line.arg = "all"
    \/ line.cmd = "progress" /\ line.arg \notin ProgressTypes

(* A skip of a thread that did not begin dereferences NULL.                *)
Crashing(line) ==
    line.cmd = "skip" /\ line.arg # "all" /\ ~Known(line.n)

(* PmStateUnsuspend leaves statsOn off as PmStateSuspend does.             *)
DoStats(line) ==
    /\ IssueNothing
    /\ switches' = IF line.arg \in {"on", "off"}
                   THEN [switches EXCEPT !["STATS"] = FALSE] ELSE switches
    /\ dumpOnExit' = (dumpOnExit \/ line.arg = "dumponexit")

Dispatch(line) ==
    \/ /\ line.cmd = "run"
       /\ DoRun(line)
       /\ UNCHANGED << pc, threads, dumpOnExit, switches >>
    \/ /\ line.cmd = "exit"
       /\ IssueAll(<< CMD_Exit("NOW", 0), CMD_Start >>)
       /\ UNCHANGED << pc, bmStopType, bmStopTime, watching, threads,
                       dumpOnExit, switches >>
    \/ /\ line.cmd = "progress" /\ ~Rejected(line)
       /\ ScheduleProgress(line)
       /\ UNCHANGED << pc, bmStopType, bmStopTime, watching, threads,
                       dumpOnExit, switches >>
    \/ /\ line.cmd = "skip" /\ line.arg # "all"
       /\ DoSkip(line.n)
       /\ UNCHANGED << pc, bmStopType, bmStopTime, watching, dumpOnExit,
                       switches >>
    \/ /\ line.cmd = "stats"
       /\ DoStats(line)
       /\ UNCHANGED << pc, bmStopType, bmStopTime, watching, threads >>
    \/ /\ line.cmd = "sample"   \* works out its numbers, and is not finished
       /\ IssueNothing
       /\ UNCHANGED << pc, bmStopType, bmStopTime, watching, threads,
                       dumpOnExit, switches >>
    \/ /\ Rejected(line) \/ Crashing(line)
       /\ pc' = IF Rejected(line) THEN "exit1" ELSE "crashed"
       /\ IssueNothing
       /\ UNCHANGED << bmStopType, bmStopTime, watching, threads, dumpOnExit,
                       switches >>

EndsBatch(line) == line.cmd \in {"run", "exit"}
-----------------------------------------------------------------------------
(***************************************************************************)
(* BatchProgress: the reports, one at a time; the list is a copy.          *)
(***************************************************************************)
InBatch(routine) == pc = "batch" /\ wb = routine

Report == Head(pendingProgress)

Drop == pendingProgress' = Tail(pendingProgress)

KeepScript == UNCHANGED << tokens, bmStopType, bmStopTime, watching, dumpOnExit >>

ReportStopIgnored ==   \* faulty variant: the stop is only shown
    /\ InBatch("reports") /\ pendingProgress # << >> /\ Report.type = "stop"
    /\ Drop
    /\ IssueNothing /\ Untouched /\ KeepScript
    /\ UNCHANGED << pc, wb, switches, threads, activeThreads >>

ReportStop ==
    /\ InBatch("reports") /\ pendingProgress # << >> /\ Report.type = "stop"
    /\ wb' = "file"
    /\ Drop
    /\ IssueNothing /\ Untouched /\ KeepScript
    /\ UNCHANGED << pc, switches, threads, activeThreads >>

ReportShownAdvances ==   \* faulty variant: any report works off the script
    /\ InBatch("reports") /\ pendingProgress # << >>
    /\ Report.type \in {"cycle", "inst", "start"}
    /\ wb' = "file"
    /\ Drop
    /\ IssueNothing /\ Untouched /\ KeepScript
    /\ UNCHANGED << pc, switches, threads, activeThreads >>

ReportShown ==
    /\ InBatch("reports") /\ pendingProgress # << >>
    /\ Report.type \in {"cycle", "inst", "start"}
    /\ Drop
    /\ IssueNothing /\ Untouched /\ KeepScript
    /\ UNCHANGED << pc, wb, switches, threads, activeThreads >>

(* ThreadBegin: the thread is scheduled at once, by way of its uid.        *)
ReportThreadBegin ==
    /\ InBatch("reports") /\ pendingProgress # << >> /\ Report.type = "threadbegin"
    /\ activeThreads' = (activeThreads + 1) % UINT32
    /\ LET uid   == Uid[Report.arg]
           begun == Append(threads, [thread |-> Report.arg, state |-> "idle"])
       IN  IF uid + 1 \in DOMAIN begun
           THEN /\ threads' = [begun EXCEPT ![uid + 1].state = "running"]
                /\ IssueAll(<< CMD_ScheduleThread(begun[uid + 1].thread, "NOW", 0) >>)
                /\ UNCHANGED pc
           ELSE /\ threads' = begun
                /\ IssueNothing
                /\ pc' = "crashed"
    /\ Drop
    /\ Untouched /\ KeepScript
    /\ UNCHANGED << wb, switches >>

(* ThreadEnd: UnscheduleThread leaves the thread idle, not terminated;     *)
(* the last one ends the run.                                              *)
ReportThreadEndKeepsCount ==   \* faulty variant: the count does not go down
    /\ InBatch("reports") /\ pendingProgress # << >> /\ Report.type = "threadend"
    /\ Known(Uid[Report.arg])
    /\ threads' = [threads EXCEPT ![Uid[Report.arg] + 1].state = "idle"]
    /\ IssueAll(<< CMD_UnscheduleThread(Report.arg, "NOW", 0) >>)
    /\ Drop
    /\ Untouched /\ KeepScript
    /\ UNCHANGED << pc, wb, switches, activeThreads >>

ReportThreadEnd ==
    /\ InBatch("reports") /\ pendingProgress # << >> /\ Report.type = "threadend"
    /\ LET uid  == Uid[Report.arg]
           left == (activeThreads - 1) % UINT32
       IN  IF Known(uid)
           THEN /\ threads' = [threads EXCEPT ![uid + 1].state = "idle"]
                /\ activeThreads' = left
                /\ IssueAll(<< CMD_UnscheduleThread(Thd(uid).thread, "NOW", 0) >>
                            \o IF left = 0
                               THEN << CMD_Exit("NOW", 0), CMD_Start >>
                               ELSE << >>)
                /\ UNCHANGED pc
           ELSE /\ pc' = "crashed"
                /\ IssueNothing
                /\ UNCHANGED << threads, activeThreads >>
    /\ Drop
    /\ Untouched /\ KeepScript
    /\ UNCHANGED << wb, switches >>

(* AWB_Progress enlists a report and its argument one behind the other.    *)
(* BatchProgress takes no argument off the list for a thread that blocks   *)
(* or unblocks: its next turn reads the argument as a report.  That and a  *)
(* report that it does not know end the program.                           *)
LeavesArgument(report) == report.type \in {"threadblock", "threadunblock"}

ReportUnknown ==
    /\ InBatch("reports") /\ pendingProgress # << >>
    /\ \/ Report.type \in {"macroInst", "nanosecond", "packet"}
       \/ LeavesArgument(Report)
    /\ pc' = "exit1"
    /\ IssueNothing /\ Untouched /\ KeepScript
    /\ UNCHANGED << wb, pendingProgress, switches, threads, activeThreads >>

ReportsDone ==
    /\ InBatch("reports") /\ pendingProgress = << >>
    /\ pc' = "decide"
    /\ IssueNothing /\ Untouched /\ KeepScript
    /\ UNCHANGED << wb, pendingProgress, switches, threads, activeThreads >>
-----------------------------------------------------------------------------
(***************************************************************************)
(* CheckBmCmds, on a stop.  It first works off the script up to the next   *)
(* run or exit, whatever stopped the model (process_file), and then asks   *)
(* whether the time remembered has come (ProcessBmCmds).                   *)
(***************************************************************************)
ProcessFile ==
    /\ InBatch("file") /\ tokens # << >>
    /\ tokens' = Tail(tokens)
    /\ LET line == Head(tokens) IN
       \/ /\ line.cmd # "blank"
          /\ Dispatch(line)
          /\ wb' = IF EndsBatch(line) THEN "check" ELSE "file"
       \/ /\ line.cmd = "blank"
          /\ IssueNothing
          /\ UNCHANGED << pc, wb, bmStopType, bmStopTime, watching, threads,
                          dumpOnExit, switches >>
    /\ Untouched
    /\ UNCHANGED << pendingProgress, activeThreads >>

FileDone ==
    /\ InBatch("file") /\ tokens = << >>
    /\ wb' = "check"
    /\ IssueNothing /\ Untouched /\ KeepScript
    /\ UNCHANGED << pc, pendingProgress, switches, threads, activeThreads >>

TimeHasCome ==
    CASE bmStopType = "cycle"  -> clock["cycle"] = bmStopTime
      [] bmStopType = "inst"   -> clock["inst"] >= bmStopTime
      [] bmStopType = "marker" -> markers >= bmStopTime
      [] OTHER                 -> TRUE

CheckBmCmds ==
    /\ InBatch("check")
    /\ wb' = IF TimeHasCome THEN "commands" ELSE "reports"
    /\ IssueNothing /\ Untouched /\ KeepScript
    /\ UNCHANGED << pc, pendingProgress, switches, threads, activeThreads >>

(* ProcessBmCmds takes the line off the list before it reads it: what it   *)
(* reads may still be the line, may be no command, or is out of bounds.    *)
ProcessBmCmds ==
    /\ InBatch("commands") /\ tokens # << >>
    /\ tokens' = Tail(tokens)
    /\ LET line == Head(tokens) IN
       \/ /\ line.cmd # "blank"
          /\ Dispatch(line)
          /\ wb' = IF EndsBatch(line) THEN "reports" ELSE "commands"
       \/ /\ pc' \in {"exit1", "crashed"}
          /\ IssueNothing
          /\ UNCHANGED << wb, bmStopType, bmStopTime, watching, threads,
                          dumpOnExit, switches >>
    /\ Untouched
    /\ UNCHANGED << pendingProgress, activeThreads >>

(* At the end of a script without any run, the model is started and        *)
(* stopped again.                                                          *)
BmCmdsDone ==
    /\ InBatch("commands") /\ tokens = << >>
    /\ wb' = "reports"
    /\ IF bmStopType = ""
       THEN IssueAll(<< CMD_Start, CMD_Stop("NOW", 0) >>)
       ELSE IssueNothing
    /\ Untouched /\ KeepScript
    /\ UNCHANGED << pc, pendingProgress, switches, threads, activeThreads >>
-----------------------------------------------------------------------------
(***************************************************************************)
(* The controller's own steps.  A clock may commit a watched marker, which *)
(* ends SYS_Execute and the watch.                                         *)
(***************************************************************************)
WatchedClock(d) ==
    /\ EndClock(d)
    /\ markerHit' => watching
    /\ markers' = IF markerHit' THEN markers + 1 ELSE markers
    /\ UNCHANGED << wb, tokens, bmStopType, bmStopTime, threads, activeThreads,
                    dumpOnExit, watching >>

WatchedExecuteDone ==
    /\ ExecuteDone
    /\ watching' = (watching /\ ~markerHit)
    /\ UNCHANGED << wb, tokens, bmStopType, bmStopTime, threads, activeThreads,
                    dumpOnExit, markers >>

(* AWB_Exit's report: with dumponexit the workbench calls exit(0) itself.  *)
WbExit ==
    /\ pc = "loop" /\ pmExiting /\ dumpOnExit
    /\ pc' = "exit0"
    /\ UNCHANGED << ctrlVars, sysVars, wbVars >>

ControllerStep ==
    /\ \/ Sample \/ DrainItem \/ DrainClearing \/ ClearBreak
       \/ ReadyEvent \/ NoEventReady \/ AWB_InformProgress
       \/ Decide \/ BeginClock
       \/ ~dumpOnExit /\ Exit
    /\ UNCHANGED wbVars

WbLoop ==
    \/ AWB_Activate
    \/ ReportStop \/ ReportShown \/ ReportThreadBegin \/ ReportThreadEnd
    \/ ReportUnknown \/ ReportsDone
    \/ ProcessFile \/ FileDone \/ CheckBmCmds \/ ProcessBmCmds \/ BmCmdsDone
    \/ WbExit
    \/ ControllerStep
    \/ \E d \in ClockSteps : WatchedClock(d)
    \/ WatchedExecuteDone

(* Each thread begins once, before the system exists, and while the chip   *)
(* is clocked it may say that it ends, which it does once (bound: nothing  *)
(* else is told twice in one clock).                                       *)
Told(c) == \E i \in ToSet(ctrlWorkList) : i.name = c.name /\ i.arg = c.arg

WbCalls ==
    /\ \/ \E c \in FeederCommands :
             /\ FeederInit(c) /\ c.arg \notin alive
             /\ alive' = alive \cup {c.arg}
       \/ \E c \in ChipCommands :
             /\ DuringClock(c) /\ c.arg \in alive /\ ~Told(c)
             /\ alive' = IF c.name = "THDEND" THEN alive \ {c.arg} ELSE alive
    /\ UNCHANGED << wbVars, script >>

(* Everything runs on main()'s thread, which never blocks; the feeder and  *)
(* the chip return from their calls.                                       *)
WbStep ==
    /\ WbLoop \/ (CMD_Init(TRUE) /\ UNCHANGED wbVars)
    /\ UNCHANGED << alive, script >>

WbSpec == WbInit /\ [][WbStep \/ WbCalls]_allVars /\ WF_allVars(WbStep)
=============================================================================
