------------------------------ MODULE MCTools -------------------------------
(***************************************************************************)
(* What the command line tools and the library do with files, for TLC:     *)
(* module files and their database, benchmark files, ini files and calls   *)
(* of amc; the commands that a performance model takes, and its command    *)
(* line.  They share nothing, so that each is checked while the others     *)
(* rest: the state graph is their sum and not their product.               *)
(***************************************************************************)
EXTENDS MCModules, Benchmark, IniFile, Amc, MCModels, MCPm, MCArgs

(* Benchmarks whose commands have braces and the region in them, deeper    *)
(* and as far left as a command may stand; "{}" alone too, at both places. *)
CtrlLine == {CfgLine(0, << "AwbRun" >>), CfgLine(0, << "if", "{" >>),
             CfgLine(2, << "set", "%R" >>), CfgLine(0, << "}" >>),
             CfgLine(0, << "{", "}", "x" >>),
             CfgLine(0, << "{", "}" >>), CfgLine(2, << "{", "}" >>)}

Bm(setup, gen, ctrl) ==
    [name |-> << "bm", "%R" >>, info |-> << "info" >>, feeder |-> << "feeder" >>,
     setup |-> setup, genflags |-> gen, feedflags |-> << >>, sysflags |-> << "-s" >>,
     ctrl |-> ctrl]

AllBenchmarks ==
    {Bm(<< "setup", "BENCHMARKDIR" >>, << "-g", "--regions", "5", "--queryregions" >>, c)
        : c \in UNION {[1..n -> CtrlLine] : n \in 0..2}}
    \cup {Bm(<< "setup" >>, g, << CfgLine(0, << "AwbRun" >>) >>)
        : g \in {<< >>, << "-g" >>, << "--regions" >>, << "--regions", "-g" >>}}

AllRequests ==
    [kind : {"file", "script"}, region : {"", "_r5"}] \cup {[kind |-> "directory", region |-> ""]}

(* Ini files of up to three lines, with and without an include; one that   *)
(* includes itself and one whose include is not there.                     *)
GroupLine(n)   == IniLine("group", n, "")
ItemLineOf(n)  == IniLine("item", n, "1")
IncludeLine(f) == IniLine("include", f, "")

IniLines == {GroupLine("g"), GroupLine("h"), ItemLineOf("a"), ItemLineOf("b"),
             IncludeLine("sub"), IniLine("other", "", "")}

AllIniDisks ==
    {("main" :> m) @@ ("sub" :> << GroupLine("h"), IniLine("item", "a", "3") >>)
        : m \in UNION {[1..n -> IniLines] : n \in 0..3}}
    \cup {"main" :> << GroupLine("g"), IncludeLine("main") >>,
          "main" :> << IncludeLine("gone") >>}

AllPuts == {[group |-> "g", item |-> "a", value |-> "2"],
            [group |-> "h", item |-> "b", value |-> "2"]}

(* Sequences of amc's commands, with relative directories or none.         *)
Args(model, benchmark, b, e, r, cmds) ==
    [model |-> model, benchmark |-> benchmark, buildDir |-> b, exe |-> e,
     runDir |-> r, cmds |-> cmds]

CmdLists == {<< "configure", "build", "setup", "run" >>, << "nuke", "configure", "build" >>,
             << "setup", "setup", "run" >>, << "run" >>,
             << "build", "nuke", "setup", "run" >>, << "help" >>}

AllCommandLines ==
    {Args("m", "b", b, e, r, c) :
        b \in {NoPath, Rel("d")}, e \in {NoPath, Rel("x")}, r \in {NoPath, Rel("r")},
        c \in CmdLists}
    \cup {Args("bad", "bad", NoPath, NoPath, NoPath, << c >>) : c \in {"build", "run"}}

-----------------------------------------------------------------------------
NoBm == Bm(<< >>, << >>, << >>)

BenchmarkRests ==
    /\ bm = NoBm /\ request = [kind |-> "directory", region |-> ""]
    /\ cfg = << >> /\ whole = FALSE /\ line = 0 /\ buf = << >> /\ items = << >>
    /\ cmdsIndent = -1 /\ commands = << >> /\ section = "items" /\ outcome = "rest"

IniRests ==
    /\ inis = << >> /\ object = NoObject /\ put = NoPut /\ copying = "no" /\ inAt = 0
    /\ outLines = << >> /\ itemWritten = FALSE /\ puts = 0

AmcRests ==
    /\ calls = MaxCalls /\ amc = NoProcess /\ doing = "shell" /\ cwd = Home
    /\ trees = << >> /\ exes = {} /\ runs = << >> /\ complained = FALSE

ModulesRest == FileRests /\ DbRests

ModelsRest ==
    /\ apms = << >> /\ step = "overflow" /\ frames = << >> /\ ret = Pending
    /\ nodes = << >> /\ root = Null
    /\ BuilderInit

PmRests ==
    /\ copy = "Tcl" /\ pm = NewProcess(CommandList, FALSE)
    /\ search = TRUE /\ toAsk = << >> /\ shown = AllStates(pm)

ArgsRest ==
    /\ program = "minimal" /\ builtWith = {} /\ typed = << >>
    /\ reading = << [words |-> << >>, at |-> 1] >>
    /\ cfgStack = << >> /\ whose = "awb" /\ stage = "rest"
    /\ given = [o \in Owners |-> << >>] /\ room = [o \in Owners |-> 1]
    /\ issued = << >> /\ said = << >>

FilesRest == BenchmarkRests /\ IniRests /\ AmcRests

ToolsInit ==
    \/ ModulesInit /\ ModelsRest /\ FilesRest /\ PmRests /\ ArgsRest
    \/ Init /\ ModulesRest /\ FilesRest /\ PmRests /\ ArgsRest
    \/ BenchmarkInit /\ ModulesRest /\ ModelsRest /\ IniRests /\ AmcRests /\ PmRests /\ ArgsRest
    \/ IniInit /\ ModulesRest /\ ModelsRest /\ BenchmarkRests /\ AmcRests /\ PmRests /\ ArgsRest
    \/ AmcInit /\ ModulesRest /\ ModelsRest /\ BenchmarkRests /\ IniRests /\ PmRests /\ ArgsRest
    \/ PmInit /\ ModulesRest /\ ModelsRest /\ FilesRest /\ ArgsRest
    \/ ArgsInit /\ ModulesRest /\ ModelsRest /\ FilesRest /\ PmRests

filesVars == << moduleVars, bmVars, iniVars, amcVars >>

ToolsNext ==
    \/ ModulesNext /\ UNCHANGED << allVars, bmVars, iniVars, amcVars, pmVars, argVars >>
    \/ Next /\ UNCHANGED << filesVars, pmVars, argVars >>
    \/ BenchmarkNext /\ UNCHANGED << allVars, moduleVars, iniVars, amcVars, pmVars, argVars >>
    \/ IniNext /\ UNCHANGED << allVars, moduleVars, bmVars, amcVars, pmVars, argVars >>
    \/ AmcNext /\ UNCHANGED << allVars, moduleVars, bmVars, iniVars, pmVars, argVars >>
    \/ PmNext /\ UNCHANGED << allVars, filesVars, argVars >>
    \/ ArgsNext /\ UNCHANGED << allVars, filesVars, pmVars >>

toolsVars == << allVars, filesVars, pmVars, argVars >>

ToolsSpec ==
    /\ ToolsInit /\ [][ToolsNext]_toolsVars
    /\ WF_toolsVars(ParseStep /\ UNCHANGED << builderVars, filesVars, pmVars, argVars >>)

(* Reading module files, looking for a default module and reading a        *)
(* benchmark: what stands in a file is what is known of it, and a default  *)
(* is never a guess (Module::Parse, ModuleDB::FindDefaultModule, the       *)
(* benchmark's cfg file).                                                  *)
FoundAsWritten == ParsedAsWritten /\ DefaultIsUnique /\ BenchmarkReadBack

(* Building a model writes only in its own tree: neither the sources nor a *)
(* makefile of another directory; and what a Makefile names is its own     *)
(* (ModelBuilder::CreateMakefiles).                                        *)
OwnFilesOnly == SourcesUntouched /\ MakefilesOwn
=============================================================================
