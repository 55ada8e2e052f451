------------------------------ MODULE MCNoTcl -------------------------------
(***************************************************************************)
(* Instances of the workbench without Tcl for TLC.                         *)
(***************************************************************************)
EXTENDS NoTclProperties

Step(cycle, inst, macro) ==
    [l \in Lists |-> CASE l = "cycle"     -> cycle
                       [] l = "inst"      -> inst
                       [] l = "macroInst" -> macro
                       [] OTHER           -> 0]

CommonSteps    == {Step(1, 0, 0), Step(1, 2, 1)}
CommonHonoured == {"cycle", "inst", "macroInst"}

Line(cmd, arg, n) == [cmd |-> cmd, arg |-> arg, n |-> n]
Run(n)  == Line("run", "cycle", n)
AwbExit == Line("exit", "", 0)
Blank   == Line("blank", "", 0)

NoCommands == {}
MaxRun     == 3

ThreadCommands == {CMD_ThreadBegin("t1")}
EndCommands    == {CMD_ThreadEnd("t1"), CMD_ThreadBlock("t1")}
OneUid         == [t \in Threads |-> 0]

(* Scripts that run to their end.                                          *)
CycleScripts ==
    {<< Run(1), Run(2), AwbExit >>,
     << Line("progress", "cycle", 2), Run(2), Blank,
        Line("progress", "cycle", 0), Run(1), AwbExit >>,
     << Line("stats", "on", 0), Line("sample", "", 0), Run(1),
        Line("stats", "dumponexit", 0), Run(2), AwbExit >>}

(* One line of each kind, the ones that are rejected included, and runs    *)
(* that may not end: by instructions, for a marker, of no length.          *)
MixedScripts ==
    {<< l, Run(1) >> : l \in
        {Line("invalid", "", 0), Line("skip", "all", 0), Line("skip", "one", 1),
         Line("progress", "macroInst", 1), Line("run", "inst", 1),
         Line("run", "marker", 0), Run(0)}}
    \cup {<< >>, << Run(0), Line("stats", "off", 0), AwbExit >>,
          << Run(1), AwbExit, Run(1) >>,
          << Run(1), Line("skip", "one", 0), AwbExit >>}

AllScripts == CycleScripts \cup MixedScripts

(* What active_threads may be at first: right, too many, one too few.      *)
AnyMemory == {0, 5, UINT32 - 1}

LastingScripts == {<< Line("run", "inst", 1) >>, << Run(2) >>}
=============================================================================
