--------------------------------- MODULE Amc ---------------------------------
(***************************************************************************)
(* The command line tool amc: nuke, configure and build a model, set up    *)
(* and run a benchmark on it (AMC, ModelBuilder::RunMake, BenchmarkRunner).*)
(* It is called again and again on the same disk, with different options,  *)
(* and may be killed in the middle of a setup.                             *)
(*                                                                         *)
(* make, strip, the setup script and the run script are external: they     *)
(* succeed or fail.  A setup script that succeeds has written a run script *)
(* into the directory it was given.                                        *)
(***************************************************************************)
EXTENDS Integers, Sequences, SequencesExt

CONSTANTS
    CommandLines,  \* what amc is called with
    MaxCalls       \* bound: how often

ASSUME CallsAssumption == MaxCalls \in Nat
ASSUME CommandLinesAssumption == \A args \in CommandLines : args.cmds \in Seq(STRING)

VARIABLES
    calls,     \* history: how often amc was called
    amc,       \* the AMC object, see NoProcess; amc.cmds is [] at the shell
    doing,     \* "shell", "command" or "rewrite", between script and rewriting
    cwd,       \* the working directory
    trees,     \* build directories: what is in them
    exes,      \* the executables there are
    runs,      \* run directories: the run script, see NoScript
    complained \* history: the last setup of this call has failed

amcVars == << calls, amc, doing, cwd, trees, exes, runs, complained >>

Home     == "home"      \* where amc is called
SetupDir == "scripts"   \* where the setup script of the benchmark is
RunDir   == "run"       \* where the run script is

(* A path is what it is relative to, "/" or ".", and a name.               *)
Abs(name) == << "/", name >>
Rel(name) == << ".", name >>
NoPath    == << >>

(* Where a path leads, seen from dir; absolute names of things below Home  *)
(* carry its name.                                                         *)
Resolve(path, dir) == IF path[1] = "." THEN << dir, path[2] >> ELSE << Home, path[2] >>
Join(path, name)   == << path[1], path[2] \o "/" \o name >>

NoTree   == [makefile |-> FALSE, complete |-> FALSE]
NoScript == [there |-> FALSE, whole |-> FALSE, models |-> << >>, args |-> 0]
Fresh    == [there |-> TRUE, whole |-> TRUE, models |-> << >>, args |-> 0]

Get(f, x, default) == IF x \in DOMAIN f THEN f[x] ELSE default
Set(f, x, value) == [y \in DOMAIN f \cup {x} |-> IF y = x THEN value ELSE f[y]]

(* A command line: model and benchmark are a name, which parses or not; a  *)
(* directory or an executable may be given; the commands follow.           *)
NoProcess ==
    [model |-> FALSE, builder |-> NoPath, benchmark |-> FALSE,
     runner |-> << NoPath, NoPath >>, args |-> << >>, cmds |-> << >>,
     buildDir |-> NoPath, exe |-> NoPath, runDir |-> NoPath]

AmcInit ==
    /\ calls = 0 /\ amc = NoProcess /\ doing = "shell" /\ cwd = Home
    /\ trees = << >> /\ exes = {} /\ runs = << >> /\ complained = FALSE

(* Relative names are made absolute before anything changes directory.     *)
GivenRelative(path) == path   \* faulty variant: the name as it was given

Given(path) == IF path = NoPath THEN NoPath ELSE Abs(path[2])

ProcessCommandLine(args) ==
    /\ doing = "shell" /\ calls < MaxCalls
    /\ calls' = calls + 1
    /\ amc' = [NoProcess EXCEPT
                  !.args = args, !.cmds = args.cmds,
                  !.buildDir = Given(args.buildDir), !.exe = Given(args.exe),
                  !.runDir = Given(args.runDir)]
    /\ doing' = "command" /\ cwd' = Home /\ complained' = FALSE
    /\ UNCHANGED << trees, exes, runs >>

Quit ==
    /\ amc' = NoProcess
    /\ doing' = "shell"

(* The AMC object after a command.                                         *)
Done(a) == amc' = [a EXCEPT !.cmds = Tail(@)]

Cmd(name) ==
    /\ doing = "command"
    /\ amc.cmds # << >>
    /\ Head(amc.cmds) = name

AllDone ==
    /\ doing = "command" /\ amc.cmds = << >>
    /\ Quit
    /\ UNCHANGED << calls, cwd, trees, exes, runs, complained >>

Unknown ==
    /\ doing = "command" /\ amc.cmds # << >>
    /\ Head(amc.cmds) \notin {"nuke", "configure", "build", "setup", "run"}
    /\ Quit
    /\ UNCHANGED << calls, cwd, trees, exes, runs, complained >>

-----------------------------------------------------------------------------
(* SetupModel and SetupModelBuilder, once: the build directory and the     *)
(* executable of older versions are put in where none is given.            *)
TranslateBuildDir(a) ==
    IF a.buildDir = NoPath THEN Abs("build/" \o a.args.model \o "/pm") ELSE a.buildDir

DefaultExe(a) == Join(TranslateBuildDir(a), a.args.model)

WithModel(a) ==
    IF a.model THEN a
    ELSE [a EXCEPT !.model = TRUE, !.buildDir = TranslateBuildDir(a),
                   !.exe = IF @ = NoPath THEN DefaultExe(a) ELSE @]

WithBuilder(a) ==
    IF a.builder # NoPath THEN a
    ELSE [WithModel(a) EXCEPT !.builder = WithModel(a).buildDir]

ModelParses == amc.model \/ amc.args.model \notin {"", "bad"}

NoModel ==
    /\ doing = "command" /\ amc.cmds # << >>
    /\ Head(amc.cmds) \in {"nuke", "configure", "build"}
    /\ ~ModelParses
    /\ Quit
    /\ UNCHANGED << calls, cwd, trees, exes, runs, complained >>

BuildDir == Resolve(WithBuilder(amc).builder, cwd)
Tree     == Get(trees, BuildDir, NoTree)

(* Nuking and configuring may fail half way; that is only said.            *)
Nuke ==
    /\ Cmd("nuke") /\ ModelParses
    /\ \E left \in {NoTree, [Tree EXCEPT !.complete = FALSE]} :
          trees' = Set(trees, BuildDir, left)
    /\ exes' \in {exes, exes \ {Resolve(DefaultExe(WithBuilder(amc)), cwd)}}
    /\ Done(WithBuilder(amc))
    /\ UNCHANGED << calls, doing, cwd, runs, complained >>

Configure ==
    /\ Cmd("configure") /\ ModelParses
    /\ \/ trees' = Set(trees, BuildDir, [makefile |-> TRUE, complete |-> TRUE])
       \/ \E m \in {Tree.makefile, TRUE} :
             trees' = Set(trees, BuildDir, [makefile |-> m, complete |-> FALSE])
    /\ Done(WithBuilder(amc))
    /\ UNCHANGED << calls, doing, cwd, exes, runs, complained >>

(* RunMake, then strip into the executable when that is another file.      *)
Build ==
    /\ Cmd("build") /\ ModelParses
    /\ LET a     == WithBuilder(amc)
           built == Resolve(DefaultExe(a), cwd)
       IN  \/ /\ Tree.makefile
              /\ exes' = exes \cup {built, Resolve(a.exe, cwd)}
              /\ Done(a)
              /\ UNCHANGED doing
           \/ /\ exes' = exes \/ (Tree.makefile /\ exes' = exes \cup {built})
              /\ Quit
    /\ UNCHANGED << calls, cwd, trees, runs, complained >>

-----------------------------------------------------------------------------
(* SetupBenchmark and SetupBenchmarkRunner; the model need not be there.   *)
WithRunner(a) ==
    LET exe == IF a.exe = NoPath THEN DefaultExe(a) ELSE a.exe
        dir == IF a.runDir = NoPath
               THEN Abs("build/" \o a.args.model \o "/bm/" \o a.args.benchmark)
               ELSE a.runDir
    IN  IF a.runner # << NoPath, NoPath >> THEN a
        ELSE [a EXCEPT !.benchmark = TRUE, !.exe = exe, !.runDir = dir,
                       !.runner = << dir, exe >>]

BenchmarkParses == amc.benchmark \/ amc.args.benchmark \notin {"", "bad"}

NoBenchmark ==
    /\ doing = "command" /\ amc.cmds # << >>
    /\ Head(amc.cmds) \in {"setup", "run"}
    /\ ~BenchmarkParses
    /\ Quit
    /\ UNCHANGED << calls, cwd, trees, exes, runs, complained >>

BenchmarkDir(a) == a.runner[1]

(* The setup script runs in its own directory.  It fails, whatever it has  *)
(* written, or writes a run script; or amc finds no room in the            *)
(* environment and stays there, as it does when it cannot go back.         *)
Failing(dir) == {runs, Set(runs, dir, NoScript), Set(runs, dir, Fresh)}

SetupScriptUnchecked ==   \* faulty variant: what the script returns is ignored
    /\ Cmd("setup") /\ BenchmarkParses
    /\ runs' \in {runs, Set(runs, Resolve(BenchmarkDir(WithRunner(amc)), SetupDir), Fresh)}
    /\ amc' = WithRunner(amc)
    /\ doing' = "rewrite"
    /\ UNCHANGED << calls, cwd, trees, exes, complained >>

SetupScript ==
    /\ Cmd("setup") /\ BenchmarkParses
    /\ LET a == WithRunner(amc) IN
       \/ /\ runs' = Set(runs, Resolve(BenchmarkDir(a), SetupDir), Fresh)
          /\ amc' = a
          /\ doing' = "rewrite"
          /\ UNCHANGED << cwd, complained >>
       \/ /\ runs' \in Failing(Resolve(BenchmarkDir(a), SetupDir))
          /\ cwd' \in {cwd, SetupDir}
          /\ complained' = TRUE
          /\ Done(a)
          /\ UNCHANGED doing
    /\ UNCHANGED << calls, trees, exes >>

RunScript == Get(runs, Resolve(BenchmarkDir(amc), cwd), NoScript)

(* The run script is read, and written again with the settings behind its  *)
(* first line and the arguments of the call behind the general flags.      *)
Rewritten(script, exe) ==
    [script EXCEPT !.models = << exe >> \o @, !.args = @ + 1, !.whole = TRUE]

RewriteRun ==
    /\ doing = "rewrite" /\ RunScript.there
    /\ runs' = Set(runs, Resolve(BenchmarkDir(amc), cwd),
                   Rewritten(RunScript, Resolve(amc.runner[2], cwd)))
    /\ complained' = FALSE
    /\ doing' = "command"
    /\ Done(amc)
    /\ UNCHANGED << calls, cwd, trees, exes >>

(* The setup script has done its work, but amc cannot go back to where it  *)
(* was, or cannot open the run script to read or to write it.              *)
RewriteFails ==
    /\ doing = "rewrite"
    /\ cwd' \in {cwd, SetupDir}
    /\ complained' = TRUE
    /\ doing' = "command"
    /\ Done(amc)
    /\ UNCHANGED << calls, trees, exes, runs >>

(* ... or is killed before that, or while the script is written.           *)
Killed ==
    /\ doing = "rewrite"
    /\ runs' \in {runs, Set(runs, Resolve(BenchmarkDir(amc), cwd),
                            [RunScript EXCEPT !.whole = FALSE])}
    /\ Quit
    /\ UNCHANGED << calls, cwd, trees, exes, complained >>

(* The run script runs in its directory; amc may not come back from there. *)
Run ==
    /\ Cmd("run") /\ BenchmarkParses
    /\ cwd' \in {cwd, RunDir}
    /\ Done(WithRunner(amc))
    /\ UNCHANGED << calls, doing, trees, exes, runs, complained >>

AmcNext ==
    \/ \E args \in CommandLines : ProcessCommandLine(args)
    \/ AllDone \/ Unknown \/ NoModel \/ NoBenchmark
    \/ Nuke \/ Configure \/ Build \/ SetupScript \/ RewriteRun \/ RewriteFails
    \/ Killed \/ Run

AmcSpec == AmcInit /\ [][AmcNext]_amcVars

-----------------------------------------------------------------------------
Asked(a, path, default) == IF path = NoPath THEN default ELSE << Home, path[2] >>
RunDirOf(a) ==
    Asked(a, a.args.runDir,
          << Home, "build/" \o a.args.model \o "/bm/" \o a.args.benchmark >>)
ExeOf(a) ==
    IF a.args.exe # NoPath THEN << Home, a.args.exe[2] >>
    ELSE Join(Asked(a, a.args.buildDir, << Home, "build/" \o a.args.model \o "/pm" >>),
              a.args.model)

(* After a setup that amc does not call failed, the run script of the      *)
(* directory that was asked for is complete, has the settings once, and    *)
(* names the executable that "build" would make: whatever commands came    *)
(* first and failed or not, wherever the process stands, and whatever an   *)
(* earlier call or setup has left there.                                   *)
SetupIsWhole ==
    [][doing = "rewrite" /\ amc' # NoProcess /\ ~complained' =>
          Get(runs', RunDirOf(amc), NoScript) =
              [there |-> TRUE, whole |-> TRUE, models |-> << ExeOf(amc) >>, args |-> 1]
      ]_amcVars

(* What a run uses is what the last setup of the same call has set up,     *)
(* unless amc has said that it failed.                                     *)
SetupBefore(a) == \E k \in 1..(Len(a.args.cmds) - Len(a.cmds)) : a.args.cmds[k] = "setup"

RunUsesSetup ==
    doing = "command" /\ amc.cmds # << >> /\ Head(amc.cmds) = "run"
        /\ SetupBefore(amc) /\ ~complained
    => LET script == Get(runs, Resolve(BenchmarkDir(amc), cwd), NoScript)
       IN  script.whole /\ script.models = << ExeOf(amc) >>

(* A benchmark is never run by a call whose build has failed: behind a     *)
(* build in the same call there is an executable.                          *)
BuiltBefore(a) == \E k \in 1..(Len(a.args.cmds) - Len(a.cmds)) :
                     /\ a.args.cmds[k] = "build"
                     /\ \A j \in (k + 1)..(Len(a.args.cmds) - Len(a.cmds)) :
                           a.args.cmds[j] # "nuke"

RunHasExe ==
    doing = "command" /\ amc.cmds # << >> /\ Head(amc.cmds) = "run" /\ BuiltBefore(amc)
        => ExeOf(amc) \in exes

(* A run has what it needs from the commands before it, in whatever order  *)
(* and number they were given.                                             *)
RunIsPrepared == RunUsesSetup /\ RunHasExe
=============================================================================
