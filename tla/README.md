# A verification of AWB

AWB (Architect's Workbench) builds and runs performance models of processors.
A model is a program assembled from modules: a *controller* with `main()`, a
*workbench* that scripts the run, one or more *feeders* that supply
instructions, and a *system* that holds the clocked chip.  The rest of the
repository are the tools that describe, build, store and run such models:
libawb with the command line tool `amc`, the windows `awb`, `apm-edit` and
`apm-find-replace`, and the Perl library that commits packages to a shared
repository.

This directory holds TLA+ modules for these parts.  The largest share is about
the place where correctness is hardest to see, the scheduling of commands in
the classic controller: what it promises (`CommandService`), how it does it
(`Controller` and the modules below it), that the second implements the first
on small instances, and theorems that hold for every instance.  The others are
a module or a few per component, each with the properties that a test of that
component would hardly reach.

Paths below are relative to `src/`; `classic/` is `modules/controller/classic/`,
`qt3/` is `tools/awb_qt3/`, `Asim/` is `libperl/Asim/lib/Asim/`.

## 1. Inventory

| part | state it keeps | operations | modelled in |
|---|---|---|---|
| classic controller (`classic/control.cpp`, `control.h`, `main.cpp`) | controller work list, schedule, `pmStopped`, `pmExiting`, switches | `CMD_Init`, the `CMD_` functions, `CMD_SchedulerLoop`, the items' actions | `Controller`, `Commands`, `CommandService` |
| schedule and work lists (`classic/schedule.cpp`) | five ordered lists | `Schedule`, `ReadyEvent`, `XForNextEvent`, `ClearXProgress`, `Add`, `InsertOrdered` | `Schedule`, `WorkList` |
| system modules (`modules/system/`) | `sysBreak`, clocks, committed counts, marker watch | `SYS_Execute`, `SYS_Break`, `SYS_ClearBreak` | `PerfModel` (the interface) |
| command line (`classic/args.cpp`, `modules/controller/minimal/`) | three argument vectors, a stack of file names | `PartitionArgs`, `ParseConfigFile`, `ParseVariables`, `ParseEvents` | `Args` |
| workbench without Tcl (`workbench/no-tcl/wb-notcl.cpp`, `classic/awb-notcl.cpp`) | lines of the script, remembered end of run, threads | `ProcessBmCmds`, `do_run`, `do_skip`, ..., `CheckBmCmds` | `NoTclWorkbench` |
| workbench commands (`classic/awb.cpp`, `awb_taratiTclBeamer.cpp`, `awb-notcl.cpp`) | state list with suspension, events, strips, trace, markers | `PmState`, `PmEvent`, `PmStrip`, `PmTrace`, `PmMarker`, `PmSymbol`, `PmSchedule`, `PmControl` | `PmProcess`, `TclCommands`, `RemoteCommands`, `NoTclCommands`, `PmCommands` |
| tarati (`modules/tarati/`, `awb_taratiTclBeamer.cpp`) | connections, attention flag, semaphore, notification channel | `Work`, `inform`, signal handlers, `TclTalk` | `Tarati` |
| module files and database (`lib/libawb/module.cpp`, `modparam.cpp`) | a module's fields; a multimap of modules | `Module::Parse`, `CollectModules`, `FindDefaultModule` | `ModuleFile`, `ModuleDB` |
| models (`lib/libawb/model.cpp`) | tree of module instances | `Model::Parse`, `ParseModuleInstance` | `ModelTree` |
| model builder (`lib/libawb/model_builder.cpp`) | build tree, makefiles, what is collected for them | `CreateBuildTree`, `NukeBuildTree` | `ModelBuilder` |
| benchmarks and amc (`benchmark.cpp`, `benchmark_runner.cpp`, `tools/awb/amc/`) | directories of a model, run scripts | `Benchmark::Parse`; nuke, configure, build, setup, run | `Benchmark`, `Amc` |
| ini files (`inifile.cpp`) | groups and items, the file | `Parse`, `Set`, `Put` | `IniFile` |
| awb window (`qt3/awb2/`) | selected model and benchmark, parameters, packages, run windows | the slots of the window and of `RunLog` | `AwbDialog` |
| apm-edit (`qt3/apm-edit/`) | model, tree, selection, modified flag | the slots | `ApmEdit` |
| apm-find-replace (`qt3/apm-find-replace/`) | models in memory, list, log | the slots | `FindReplace` |
| commit (`Asim/Package/Commit.pm`, `Lock.pm`, `Xaction.pm`) | locks at the server, undo and commit logs, CSNs | `commit` with its stages, `lock`, `unlock`, signals | `Commit` |
| the rest: section 7 | | | not modelled |

How the parts of a running model interact:

```
 main() ── PartitionArgs ── CMD_Init ── ParseEvents ── AWB_Activate ── CMD_SchedulerLoop
                                             │              │                 │
                                      CMD_ functions   CMD_ functions         │ sample times
                                             └──────┬───────┘                 │ drain work list ── Schedule
                                                    ▼                         │ SYS_ClearBreak
                                         ctrlWorkList, SYS_Break              │ ReadyEvent: CmdAction, PmAction ── Skip ── feeder ─┐
                                                    ▲                         │ AWB_InformProgress ── workbench ───────────────────┤ CMD_
                                                    │                         │ SYS_Execute ── Clock ── feeder, chip ──────────────┤ functions
                                                    └─────────────────────────┴────────────────────────────────────────────────────┘
```

The workbench at the other end of `AWB_InformProgress` is one of three: a Tcl
interpreter in the process, a Tcl shell that is a client of the process
(tarati), or a script parser (no-tcl).  `amc` reads models (`ModelTree`, from
`ModuleFile`s) and lays out their build directories (`ModelBuilder`), sets up
and runs benchmarks (`Benchmark`); `awb` calls `amc` and `awb-shell` as
processes; `apm-edit` and `apm-find-replace` write the models that `amc` reads.
These meet only through files, and are checked apart.

What is hard, and what makes each part correct:

* *Controller.*  One thread, but at three places of its loop other parts call
  `CMD_` functions, and `SYS_Execute` looks at the break flag only.  Correct:
  no command is lost, reordered or performed at a wrong time; a started model
  advances; an exit ends the program.
* *Workbench without Tcl.*  It asks for a stop and remembers when, while the
  effect comes on a later turn of the loop.  Correct: each run stops where it
  was to stop, the next begins there, the script ends.
* *Tarati.*  Signals between any two steps, nobody polls, clients die.
  Correct: nothing that arrived is slept over; every report is worked off.
* *Workbench commands.*  The same commands written three times, over one list
  of states with one flag per state.  Correct: what is asked for is shown; a
  script means the same whichever copy runs it.
* *libawb and amc.*  Files from people, recursion over them, objects reused
  across calls, kills between two writes.  Correct: what was written is read;
  a tree has a module where one is wanted; sources are never written to; a run
  runs what was set up last.
* *Windows.*  Handlers that nest or call each other, two copies of one thing (a
  tree and a model; a list and a log).  Correct: what is shown is what a button
  acts on; what is modified is known to be.
* *Commit.*  Several users, a lock server with lost messages, interrupts,
  commands that fail half way.  Correct: one user at a time commits a package,
  no lock is forgotten, serial numbers fit what they stand for.

`PROJECT.json` lists the hazards found while reading, each at its line.

## 2. Modules

### Controller

| module | models | remarks |
|---|---|---|
| `WorkList` | items and lists of `control.h` | a list is a sequence; `NotLater`, `InsertOrdered`, `Add` |
| `Schedule` | `schedule.cpp` | a time is a function from the five lists to numbers |
| `PerfModel` | the `SYS_` interface | constants say which bounds a system honours and how its clocks advance |
| `Commands` | the `CMD_` functions | a command is what its caller passes |
| `Controller` | `main()`, the loop, the items' actions, progress reports | variables below |
| `CommandService` | what the controller promises | abstract specification |
| `ControllerProperties` | properties, the refinement | `Service == INSTANCE CommandService WITH ...` |
| `NoTclWorkbench`, `NoTclProperties` | the workbench without Tcl | on top of `Controller`, in place of its free choice of commands |
| `Args` | the command line | what it issues are `StartupCommands` of `Controller` |

State of `Controller` and the code it stands for:

| variable | code |
|---|---|
| `pc` | the place reached in `main()` and `CMD_SchedulerLoop`; "execute" is the test of the loop in `SYS_Execute`, "clock" its body, "batch" the evaluation of `BatchProgress` |
| `ctrlWorkList` | `ctrlWorkList` |
| `schedule` | the five lists of `schedule` |
| `now` | `currentCycle`, `currentNanosecond`, ... of the iteration |
| `pmStopped`, `pmExiting` | the flags of that name |
| `pendingProgress` | the string of that name, a sequence of reports here |
| `switches` | traceOn, statsOn, eventsOn, stripsOn, profileOn, and the debug flag |
| `issued` | none: counts commands and gives items their `id`, which no action reads |
| `clock`, `sysBreak`, `stopAt`, `markerHit` | the system's counters, break flag, the arguments of `SYS_Execute`, and whether the watched marker was committed |

Actions: `CMD_Init`, `FeederInit`, `Startup`, `Usage`, `Activated` are `main()`; `Sample`,
`DrainItem`, `DrainClearing`, `ClearBreak`, `ReadyEvent`, `NoEventReady`,
`AWB_InformProgress`, `BatchDone`, `Decide`, `Exit` are the statements of the
loop in their order; `BeginClock`, `EndClock`, `ExecuteDone` are `SYS_Execute`;
`BatchProgress(c)` and `DuringClock(c)` are one `CMD_` call each, from the
workbench and from the feeder or the chip; `CheckExitConditions` is the
function of that name.  `ReadyEvent` is one turn of the loop over ready events
with both actions of the item and the rescheduling of a periodic one; a skip
may run the feeder in it.  A failed `VERIFYX` leads to `pc = "aborted"`, a NULL
thread to "crashed", a failed initialization or a usage error to "failed".

`CommandService` forgets the lists, flags and loop: there is an *inbox* of
issued commands and an *agenda* of accepted ones.  Commands are accepted in the
order of issue, performed when due, in order of time and then of issue; a
periodic one is armed again for a later multiple of its period; a clearing
command removes the progress commands accepted before it; no cycle begins while
the simulation is stopped or ending, while the inbox holds anything, or while
an accepted command is due on a measure of time the system watches; the clock
does not step over the time of a command that wants an exact one.  The
refinement mapping reads the inbox off the work list, the agenda off the five
lists, and "a cycle is under way" off `pc`.

Left abstract: what a report or a statistics dump looks like, what an
instruction is, thread tables of feeder and system (the hooks have no effect on
the controller's state), the values of switches beyond on and off, warm-up.
`n` of a one-shot command is relative to the current time, as all callers in the
repository compute it; the command line counts from 0, which is then the same.

`NoTclWorkbench` adds the script, the line it is at, the remembered end of the
run, the active threads and what a reference to a popped line points to.  A
line acts through the same work items as everybody's commands.  It is composed
with `control.cpp`: `control-notcl.cpp`, the controller that was made for it,
does not compile at this commit (section 6).

`Args` has one action per class of words: a change of owner, a configuration
file (pushed on `reading` as a call, so that its words are worked off before
the rest of the line), `-repeat`, an option that takes effect at once, a word
that is kept; then one command per flag.  A word is a sequence of the parts
told apart.  The reference definition, `Divided(WholeLine)`, inlines the files
and divides the whole line in one pass; `ArgsAsTyped` compares.

### Workbenches

`PmProcess` is what a command sees and changes: the states with their
suspension and the flag that says so, events, strips, trace.  The three copies
(`TclCommands`, `RemoteCommands`, `NoTclCommands`) are operators from a process
and the words of a command to the process after it and the answer; `PmCommands`
is a user who asks for states, component by component, or gives commands, and
compares the copies.  `Differs` lists the commands on which they are known to
differ; section 6 says how.

`Tarati` follows the server thread statement by statement through `Work`,
`AWB_InformProgress` and `processRequests`, with signal handlers as actions
enabled between any two of its steps, and the clients' `TclTalk` at the other
end of sockets that deliver a header and a body one at a time.

### Library, tools, windows

`ModuleFile` reads a file line by line; `ModuleDB` collects a tree of them and
chooses defaults; `ModelTree` makes the recursion of `ParseModuleInstance`
explicit as a stack of frames with the value returned in `ret`; `ModelBuilder`
takes its steps in the order of `CreateBuildTree` with the members that survive
a call.  `Benchmark` is both the writer's grammar and the reader's loop;
`IniFile` writes line by line and may be killed between lines; `Amc` runs
sequences of commands in several calls on one disk and may be killed.

`AwbDialog` has the stack of handlers that wait for their command in `waits`;
`ApmEdit` has the steps that a handler still has to do in `todo`, as handlers
call each other through the selection; `FindReplace` keeps models, list and log
apart as the code does.

### Commit

`Commit` models CVS packages: users with a program counter each, locks at the
server, the requests in flight, working copies, the repository, the
transaction's log.  Loops over all packages pick them in any order.  `cvs
commit` is external and atomic.  A lost request and a lost answer look the same
to the client; the retries of `wget` are a lost answer; the server unlocks
whoever asks.  `left` and `astray` are history variables that say why a lock may
be left or a package differ.

Some definitions are preceded by a *faulty variant*, marked so: what the
definition would be after a plausible mistake.  They are used by no
specification; putting one in the place of the definition shows which property
notices that mistake (`PROJECT.json`, "mutants").

## 3. Runs

`CHECK_DEADLOCK FALSE` is set where a run does end: the program exits, fails, or
reaches a bound.  `MCCommit` and `FindInterrupt` check deadlock: users go on for
ever.

Parts that share nothing are checked in one run, each while the others rest in
one state of theirs: the state graph is the sum of theirs and not the product
(`MCTools`, `MCGui`, `MCModules`).  Initial states where one moves are those of
its own `Init`; a part at rest has no step.

| run | module | states | shows |
|---|---|---|---|
| `commands` | `MCController` | 856 thousand | single chip system: commands of every kind from all four callers in every order; the refinement `KeepsPromise` |
| `server` | `MCController` | 169 thousand | clockserver system: cycles and nanoseconds that advance separately |
| `live` | `MCController` | 23 thousand | progress of the loop, with `STOP_THREAD` |
| `script` | `MCNoTcl` | 28 thousand | the workbench without Tcl: scripts of every kind of line |
| `remote` | `MCTarati` | 1.1 million | a server and two clients over sockets and signals |
| `commit` | `MCCommit` | 2.1 million | two users, two packages, one fault anywhere |
| `tools` | `MCTools` | 237 thousand | library, `amc`, workbench commands, command line |
| `gui` | `MCGui` | 1.3 million | the three windows |
| `nanosecond`, `last_thread`, `open_cancelled`, `interrupt` | `Find....cfg` | | findings 1 to 4 |

### Bounds

*Controller.*  One skip of a thread makes the feeder issue at most one command;
`MaxCommands` (4 or 5) caps the commands issued in one run, `MaxTime` (3) the
cycle and nanosecond reached; `UINT64_MAX` is 1000, which no time reaches.
Five commands are enough for three that wait on one list with one that clears
them and one that arrives in a callback; three cycles are enough for a period
of 2 to be armed twice and for both parities of the rounding.  All
interleavings of callers are explored within the bounds.  When the clock
reaches `MaxTime`, `BeginClock` is disabled and the run stops there; the
liveness properties are stated so that this cannot satisfy or break them.
Scripts (`MCNoTcl`) have up to six lines and run to cycle 4; active
threads are counted from 0, which is right, from more and from one less.

*Command line.*  Lines of two groups of words, each an option of some class
with what belongs to it, with and without a file between them that names files
in directories of its own; options cut off at the end of the line and of a
file; every flag of `ParseEvents`, twice; models built without trace and
without events.  An option that is the last word of a file is not followed on
the line by what could be its value.

*Workbench commands.*  Paths of one to three components over two names in both
cases, all pairs of states and a list of three for repeated modules; words
right and wrong in every place of a command.  Commands are performed one after
another where they change flags, all others are tried in every state reached.

*tarati.*  One command per script, `MaxReports` 3, `MaxDeaths` 1; `MaxSema` 1
bounds the signals that arrive while the server is in further rounds of
`select`.  The set-up calls of a client are one request; only an answer with
arguments is written in two parts.  Two initial situations: two clients before
the first report, and a second one after the first, for the last report.

*Commit.*  `MaxFaults` 1; with 2 the run has 13.4 million states and passes
as well.  `MaxVersions` 2 lets one user publish and the other be out of date.

*Library and tools.*  Module files of up to five lines of every kind; trees of
three files of which one is odd (does not parse, has another extension, lies
below CVS); models with a submodel, a recursion, a module of the wrong type, a
`.pack` file in a leaf and in an inner module, a module that stands in two places;
two configurations in a row, so that what a builder keeps would show; all
benchmarks with up to two command lines with braces, a line that is only `{}` at
two indentations among them, cut off after every line;
ini files of up to three lines, with an include, one that includes itself and
one whose include is gone; `amc` called twice with sequences of up to four
commands, with relative directories or none; a setup fails at each of its error
returns, and may or may not come back to the directory of the call.  A disk that
fills up while a run script is written, which the code does not notice, is left
out: it is a write like another that is cut off, but one that is reported as whole.

*Windows.*  `MaxClicks` 3 commands of `awb` (with all orders of their ends,
kills and closings), from one of the workspaces, without `$AWB_MODEL` and with
each model in it; `MaxEdits` 4 in `apm-edit`, `MaxFrClicks` 6 in
`apm-find-replace`, also from a window where a model is already open or
selected.  In `apm-edit` the scores are such that Auto build inserts a module with
a requirement of its own, walks into it and inserts another below it, while a
type with two equally good alternatives stops it.  A search of `apm-find-replace`
lists any set of models, those that have the type to be replaced with those that
lack it.

### Fairness

* Controller and workbench without Tcl: `WF_vars(Loop)`.  The controller is one
  thread that never blocks; clocking the chip and the script return.  No caller
  is required to issue anything.
* tarati: the server thread goes on when it does not sleep, signal handlers run,
  the network delivers, clients go on with what they do, and work that can be
  done infinitely often is done (`SF` of `WorkDone`: signals cannot keep a round
  of `Work` from ending for ever).  With a model that is stopped and nothing to
  report, nobody calls `Work`, and a client that asks then waits.
* Windows: a command that was started ends, and the event loop of the innermost
  wait, or the handler that runs, goes on; no click is required.  Boxes are
  answered.
* `ParseStep`: reading goes on.

### Findings

1. **A nanosecond that is stepped over aborts the run** (`nanosecond`).
   `schedule.cpp:118` requires an item not yet due to lie in the future; with a
   base period of more than one nanosecond the exact time may never be seen.
2. **The end of the last thread may not end the run** (`last_thread`).
   `active_threads` (`wb-notcl.h:179`) is never initialized; unless it happens to
   be 0 at the start, it is not 0 when no threads are left (`wb-notcl.cpp:851`).
3. **A model loses its modified flag without being saved** (`open_cancelled`).
   `apm-edit` clears the flag after the answer No, before another model was
   opened; if that is cancelled or fails, the next exit loses the edits.
4. **An interrupt is not kept away from the commit stage** (`interrupt`).
   `Signal.pm:31` sets an entry of a hash that nothing reads.
## 4. What the properties mean

* `BreakCoversPending`, `BreakCoversCommands`: whenever `SYS_Execute` is about
  to test its condition and there is new work, the break flag is up; with
  `STOP_THREAD`, an exit after a thread's end is the exception.
* `Ordered`: each list is ordered by time, one-shot items for one time by
  issue.  `ReadyEvent` looks at heads only and relies on it.
* `NoAbort`: no `VERIFYX` of `ReadyEvent` fails.
* `BoundsAhead`: every bound given to `SYS_Execute` is later than the sampled
  time, so the assertion before it holds and the model has something to do.
* `NanosecondPeriodKept`: a periodic nanosecond item is never armed further
  ahead than its period, and for a multiple of it.
* `KeepsPromise`: the refinement of `CommandService`.
* `NowIsPerformed`, `StartedModelRuns`, `ExitEnds`: see `ControllerProperties`.
* `RunsInOrder`, `ScriptEnds`, `LastThreadExits`, `NoUseAfterPop`: a run stops
  at its end and the next begins there; a script of runs ends the program, be it
  with an error because a thread blocked or unblocked (section 6); so does the
  end of the last thread, when the count started at 0 (`NoThreadsLeftExits` says
  it of every start and is finding 2); a line that was popped is not read again
  as something else.  Both safety properties are for scripts that are `Orderly`: a run of
  length 0 is over before its model starts, so that the next line is popped and
  read, and so is what follows an AwbExit.
* `ArgsAsTyped`: the command line is divided as if the files stood in it.
* `StatesFound`: a user who descends component by component finds every state
  that is there.  `SaidAsSuspended`: statistics are not said to be on while
  everything is suspended, nor off while nothing is.  `SameMeaning`: the copies agree except where
  `Differs` says so.
* `AttentionCovers`: what arrived at a socket is seen before the server sleeps.
  `AllProcessed`: reports are worked off in order, each once.  `InformEnds`:
  the simulation goes on after a report, unless its client is gone.
* `FoundAsWritten`, `TreeOfWanted`, `ParamsDefined`, `OwnFilesOnly`: what a
  file says is what is known of it (of a benchmark with a command line `{}`: it is
  refused, or it has only the commands in front of that line); a model's tree has
  no module where another type is wanted, none in two places and no circle; each
  header has the parameters of its module, and `param.cpp` defines the dynamic
  ones, by name and as often as there are instances that have one of that name
  (more than one is an error that only the compiler tells); modules below one with
  a `.pack` file are left out, as the builder leaves them; only the model's own
  tree is written, and what its Makefile names is there, but for a source behind
  more links than are followed (section 6).
* `RunIsPrepared`, `SetupIsWhole`: a run runs what the last setup prepared,
  also after a kill; what a setup leaves that was not called failed is whole.  `PutIsKept`: a rewritten ini file loses nothing.
  `ParsingEnds`: the recursion over required modules
  and submodels ends, or runs out of the bound where it really has none.
* `ShownIsThere`, `TypedIsRun`: buttons of `awb` act on what is shown, and a run
  gets the parameters that were typed for its model.  The exception is a model
  that `init` took from `$AWB_MODEL` and that was not chosen in the window since
  (`fromEnv`): it is not shown, and what is shown and typed is of another.
  `TreeIsModel`, `UnmodifiedIsSaved`, `AutoBuildTriesAll`: tree and model of
  `apm-edit` agree; what is not modified is on disk (except after finding 3);
  Auto build leaves no best alternative untried, also below what it inserted
  (except when a handler was called on an item that is gone).  `SavesWhatChanged`: Save
  writes what was changed, and only that.  `WindowsComeToRest`: nested and
  recursive handlers end, except where an insertion that was refused is asked
  for again by the same handler (`refused`).
* `SoleCommitter`, `LockAccounted`, `CsnFits`: see `CommitProperties`; `astray`
  marks the ways out of a commit for which nobody runs the log.

## 5. Proofs

Theorems about the controller hold for every set of commands, every set of
clock steps and every bound, from the assumptions stated where the constants
are declared: commands are well formed, periods are positive (the code would
divide by zero), and the feeder and the chip ask for things to happen now only
(no caller in the repository does otherwise; an exact time asked for in the
middle of a clock could be over before the loop schedules it).  Theorems about
the commit hold for all sets of users and packages and any number of faults;
those about tarati for all sets of clients and any number of reports and deaths.

Those about the windows hold with and without `$AWB_MODEL` and for every outcome of
a search; those about `amc` with failures at every return of a setup.

Some theorems have a hypothesis of their own.  `OneByOne` says that a system
steps through cycles and nanoseconds one by one and honours their bounds, as the
single chip system of the repository does; without it `NoAbort` is false
(finding 1), and a program that aborts keeps no promise.  `~STOP_THREAD` leaves
out the build where a thread's end asks for an exit past the break flag, an
exception `BreakCoversPending` states.  `NeverIsNever` says that no clock has
reached `UINT64_MAX`, which the code uses for "no event".  `OnlyThreads` says that
the feeder and the chip tell of the beginning, the end, the blocking and the
unblocking of threads and ask for nothing else, as in the run `MCScript`; a
module that calls `CMD_Stop` or `CMD_Start` on its own cuts a script's run short.

| theorem | module | states |
|---|---|---|
| `TypeCorrect` | `ControllerProofs` | `Spec => []TypeOK` |
| `NoLostCommand` | `ControllerProofs` | `Spec => []BreakCoversCommands` |
| `NoLostWork` | `ControllerProofs` | `Spec => [](~STOP_THREAD => BreakCoversPending)` |
| `AlwaysOrdered` | `ControllerProofs` | `Spec => []Ordered` |
| `NeverAborts` | `ControllerProofs` | `Spec => [](OneByOne => NoAbort)` |
| `BoundsLieAhead` | `ControllerProofs` | `Spec => [](NeverIsNever => BoundsAhead)` |
| `BeatIsKept` | `ServiceProofs` | `Spec => []NanosecondPeriodKept` |
| `PromiseIsKept` | `ServiceProofs` | `Spec => KeepsPromise`, from `OneByOne` and `~STOP_THREAD` |
| `ScriptLosesNoWork` | `NoTclProofs` | `WbSpec => []BreakCoversPending` |
| `ScriptNeverAborts` | `NoTclProofs` | `WbSpec => [](OneByOne => NoAbort)` |
| `NoUseAfterPopHolds` | `NoTclProofs` | `WbSpec => []NoUseAfterPop` |
| `RunsInOrderHolds` | `NoTclProofs` | `WbSpec => (OneByOne /\ OnlyThreads => RunsInOrder)` |
| `LocksHold` | `CommitProofs` | `CommitSpec => []Locks` |
| `SoleCommitterHolds` | `CommitProofs` | `CommitSpec => []SoleCommitter` |
| `LockAccountedHolds` | `CommitProofs` | `CommitSpec => []LockAccounted` |
| `CsnFitsHolds` | `CommitProofs` | `CommitSpec => []CsnFits` |
| `NoWorkOverlooked` | `TaratiProofs` | `TaratiInitWith(starts, made) /\ [][TaratiNext]_taratiVars => []AttentionCovers`, for all `starts` and `made` |
| `AttentionCoversHolds` | `TaratiProofs` | `TaratiSpec => []AttentionCovers` |
| `EveryReportProcessed` | `TaratiProofs` | `TaratiInitWith(starts, made) /\ [][TaratiNext]_taratiVars => []AllProcessed`, for all `starts` and all `made` below `MaxReports` |
| `AllProcessedHolds` | `TaratiProofs` | `TaratiSpec => []AllProcessed` |
| `AwbShowsWhatIs` | `GuiProofs` | `AwbSpec => []ShownIsThere` |
| `AwbRunsWhatWasTyped` | `GuiProofs` | `AwbSpec => TypedIsRun` |
| `ModelIsSaved` | `GuiProofs` | `ApmSpec => []UnmodifiedIsSaved` |
| `FindReplaceSaves` | `GuiProofs` | `FrSpec => SavesWhatChanged` |
| `RunIsPreparedHolds` | `ToolProofs` | `AmcSpec => []RunIsPrepared` |
| `SetupIsWholeHolds` | `ToolProofs` | `AmcSpec => SetupIsWhole` |
| `TreeOfWantedHolds` | `ToolProofs` | `Spec => []TreeOfWanted` (`Spec` of `ModelBuilder`) |

`ScheduleProofs` holds the lemmas about the operators of `WorkList` and
`Schedule`; `ControllerProofs` rests on it, `ServiceProofs` and `NoTclProofs` on
that.  `CommitProofs`, `TaratiProofs`, `GuiProofs` and `ToolProofs` stand by
themselves.

The arguments:

* *Types.*  `WorkItems` is closed under arming (`NextDue` of natural numbers is
  one) and lists are closed under insertion and removal
  (`InsertOrderedProperties`, `RemoveAtProperties`).  That `CHOOSE` in
  `NotLater` and `FirstProgress` has something to choose is proved from
  `LeastNumber`, a nonempty set of natural numbers has a least element, itself
  obtained from the well-foundedness of strict inclusion of finite sets.
* *No lost command.*  `BreakCoversCommands` speaks of one place; `BreakInv`
  says the same of every place from "ready" to "clock", which is inductive:
  `ClearBreak` establishes it because the work list is empty there, every call
  raises the flag, and nothing in between lowers it.
* *Order.*  `Ordered` alone is not inductive: inserting behind equals keeps
  issue order only if the new item was issued last.  `OrderInv` adds that ids
  rise along the work list (`QueueInv`) and that everything scheduled was issued
  before everything on the work list (`SchedInv`).
* *No abort.*  `TimeInv` says at each place what is known of time: the sampled
  times are the clock's until `SYS_Execute` is entered; no waiting item lies
  behind the clock (`OnTime`); what may wait while the chip is clocked is for
  now (`Undrained`, which needs the break flag again); and from the moment no
  event is ready all exact items are in the future, hence bounded by `stopAt`
  (`Bounded`).  `NoEventReadyTime` and `DecideTime` use the order of the lists,
  so the proof rests on `OrderInv` as well.  `OneByOne` is what the run
  `FindNanosecond` violates.
* *Bounds.*  `NoEventReady` leaves the search only behind heads that wait for a
  time to come (`HeadsAhead`), on every system; `stopAt` is taken from the heads.
* *Beat.*  An item is timed from `now`, the property speaks of `clock`:
  `SampledInv` says that the two agree while the schedule is worked on.
  `NextDue` of the nanosecond list is a multiple of the period, and at most one
  period away as it is only used for what was just performed or is new.
* *Promise.*  The abstract agenda is the set of all items of the five lists, so
  a step of the loop is compared with a step on sets: `Apart` says that an item
  is in the list of its measure of time, in no other and only once, whence
  scheduling adds one element to the union and performing takes one out.
  Performed in order is `OrderInv`; due is `TimeInv`; that no cycle begins while
  the abstract state forbids it is `RunInv`, with `BreakInv` for the inbox and
  `Bounded` for the agenda.  One lemma per action shows which abstract action it
  is.
* *Script.*  The workbench's handlers issue several commands at once; a lemma
  (`IssueAllEnlists`) says item by item what that leaves on the work list, and
  each line of a script asks for commands of a known shape (`DispatchAsks`).  So
  `TypeOK`, `OrderInv` and `TimeInv` of the controller, which are about one
  command at a time, hold for any number of them (`BaseInv`); what only the
  controller does is quoted from its proofs.  `NoTclProofs` does not assume that
  commands come from the constants of `Controller`.
* *No use after pop.*  `TokensInv`: what is left of an orderly script is orderly,
  and when `CheckBmCmds` compares times, `process_file` has either worked off
  the last line or has just remembered the end of a run that is to last
  (`RunNotOver`).  `Orderly` is needed: TLC finds a line left behind an AwbExit.
* *Runs in order.*  The time remembered and the stop itself are kept apart: the
  stop is an item that goes through the work list, the schedule and the reports
  before `CheckBmCmds` hears of it.  `Solo` says that it is in one place at most,
  the hands of `CheckBmCmds` and the watch for a marker included, so whoever asks
  for the next stop has used up the last one.  `Track` ties it to the time: the
  stop of a run of cycles is asked for, or scheduled for that time, or has been
  while the clock shows it and the model is stopped or about to exit; and a start
  on its way (`StartSafe`) finds the stop still ahead.  While the chip is clocked
  neither a start nor a stop is left on the work list (the break flag again), so
  the stop is on the schedule (`ClockedTrack`) and `Bounded` keeps the clock below
  it.  This invariant, `RunInv` of `NoTclProofs`, was checked by TLC on the
  instance of the run `MCScript` before it was proved; its lemmas go handler by
  handler, and each says where the stop went.
* *Windows.*  Of `awb`: a command that changes packages is waited for, so what
  is not listed as it is will be when one of the waiting handlers goes on, and
  when only deletions are left to wait for the path has all there is
  (`ListInv`); handlers may be nested in any order.  Of `apm-edit`: every
  content ever written has its root and its marked modules among its modules
  (`Sound`), so reading it without missing modules gives it back
  (`ReadContents`).  Of `apm-find-replace`: a line leads to a model that was
  selected, and what was changed has a line that is saved (`LogInv`); that the
  last of several models of one name is among them needs `GreatestNumber`.
* *amc.*  Its object is filled in by whichever command needs a part first.
  `AmcInv` says of each part that it is as it was given or what the command line
  stands for (`Parts`), and that the commands to come are the last of those that
  were given (`Queue`); so what a run needs is what the commands behind the
  process have left, wherever the process stands (`PathsLead`).  `complained`
  separates a setup that wrote the script from one that gave up behind the setup
  script.
* *Trees of modules.*  `TreeOfWanted` speaks of attached instances; what may go
  wrong is decided before, while the recursion carries them.  `TreeInv` says that
  an instance is held by one call only, or is what a call just returned, and that
  inner calls hold later ones (`HeldInOrder`), that what is held stands nowhere in
  the tree yet (`HeldFree`), and what stands there stands once (`Once`) and below
  an instance made before it (`Later`).  So `SetSubModule` attaches an instance
  that has no other place, below one that is older.  Neither the bound on the
  stack nor what the files contain is needed: groups may require each other in a
  circle.
* *Locks.*  `SoleCommitter` speaks of users at work, the server of locks.
  `Locks` ties them: what a client takes for locked is set for it at the server,
  what a client visits are packages of its commit, and a lock that is set has
  an owner at work or a reason.  A lost answer is what makes it delicate: the
  server may hold a lock that its owner does not count on, never the other way
  round.
* *Serial numbers.*  `CsnFits` speaks of a shell that is idle.  `Files` says for
  every stage and package what the package file, `mytags` and the log contain:
  untouched, marked by `update_csns` with both entries on the log, or
  recoverable, that is, each file either says the CSN that is due or has an
  entry on the log that says it.  Interrupts and failed commands may come at any
  place: what is not published is recoverable, and what is published when a
  rollback begins is `astray`.
* *Attention.*  The handler sets the flag and the semaphore, `Work` resets them
  one after the other and then looks.  `AttentionCovers` holds of a server at
  rest; the invariant says of the flag and of the semaphore separately
  (`NeedsCovers`, `SemaCovers`) that each socket which is ready has a signal
  pending, or its mark, or a server on its way to `select`, or was found.  Two
  sets of places differ: between `reset` and `select` the flag covers nothing
  any more.  A socket that was served is not ready because a client has one call
  outstanding at most (`OneCall`): there is nothing behind the body of a request.
  It is the loop's break flag once more, with the handler in the place of the
  callers.

* *Reports.*  The server clears what is pending when a client says so; whether
  the script has run on it, only the client knows.  `ReportsInv` says that the
  script has run on all reports but the pending ones (`Unseen`) or on these too
  (`AllSeen`), and tells from the clients which: one that has not fetched
  (`Hungry`) implies the first, one that has (`Ran`) the second.  A dead client
  still speaks, by a request that waits at the server (`Asked`).  That two
  clients cannot contradict each other is `OwnerInv`: who works on reports is
  the client of the channel, and `NotifyChannelOpen` refuses a second one.  The
  exception is the exit: the client closes the channel before it says
  "doneprogress", so the channel can pass to another client while reports are
  still pending.  `Closed` covers it: this happens for the last report only,
  when `notifyState` is "accepted" for good and no new client is ever accepted
  (`ChannelInv`), so nobody else is sent a byte and nobody fetches twice.

Only model-checked: `TreeIsModel` and `AutoBuildTriesAll`, since
which modules are below another is defined by recursion; `OwnFilesOnly` and
`ParamsDefined`, since a configured directory is a fold over the files of a
module and `FoldLeft` has to be reasoned about by induction; and the properties
of all other modules: liveness (`InformEnds` of tarati too), whose proofs need
`ENABLED`, and what recursive definitions compute, both out of the prover's reach.

## 6. Other disagreements seen

While translating, the following was noticed and not made a run of its own; the
models follow the code.

*Controller.*  A cycle period of n is armed up to n + 1 ahead (`schedule.cpp:206`
against `control.h:50`; `CommandService` leaves one unit of slack).  Skipping all
threads dereferences NULL (`control.cpp:1126` against `control.h:171`).  A period
of 0 divides by zero (`schedule.cpp:206`).  The pending reports are cleared after
the workbench returned (`awb.cpp:211`).  Commands issued while the workbench is
told of the exit are put on a list that is deleted (`awb.cpp:229`).
`SYS_Execute` of the single chip system ignores its packet bound
(`single_chip_common_system.cpp:247`).

*Command line.*  `-een` and `-cen` of the usage text are never reached: the code
asks for `-eec` and `-cec` again (`args.cpp:932`, `:937`).  `-tm <regex> <n>` and
`-tr` of `ParseEvents` are never reached either: `ParseVariables` consumes them
first, and takes `-tm`'s regular expression for a mask (comments at 436 and 621).
"Found in two locations" cannot be said, since a file in the working directory
is taken before the other is looked for.  A line of a configuration file with
256 characters or more ends the reading of the file silently.  `-repeat`
increments and reads the index in one assignment (`args.cpp:171`).  A change of
owner in a configuration file lasts behind it.  In the minimal controller, `-s`
allocates too little, by a misplaced parenthesis (`args_mini.cpp:210`), the values of `-cf` and
`-wb` stay behind as words, and nobody looks at words that are left over.

*Workbench without Tcl.*  `control-notcl.cpp` and `control-notcl.h` do not
compile.  `PmScheduleProgress` rejects inst and nanosecond
(`awb-notcl.cpp:960` against `:947`); `do_marker` rejects every line
(`wb-notcl.cpp:327` against `:324`); `skip all` exits; `FindThread` may
miss (`wb-notcl.cpp:836`).  The argument of "threadblock" and "threadunblock" is a
list element of its own (`awb-notcl.cpp:241`) that `BatchProgress` does not take
off (`wb-notcl.cpp:736`): it is read as the next report, and the program exits
with 1.

*Simple workbench.*  A run of 0 cycles, or a stop at another cycle than the one
remembered, leaves `CheckBmCmds` waiting (`simpleWb.tcl:631`); at end of file the
interactive loop never ends (`:602`).

*Workbench commands* (`Differs`).  The remote `PmControl nanosecond` requires an
argument (`awb_taratiTclBeamer.cpp:1435`) that neither its usage text nor
`simpleWb.tcl:362` has; the remote copy has no `active`, which `simpleWb.tcl:733`
uses; its `cpucycle` does not compile and is left out.  A floating point state
falls through to the next case.  The copy without Tcl unsuspends with the flag
the wrong way (`awb-notcl.cpp:455`).  `PmEvent` starts DRAL in three different
orders; an unknown option is an error in one copy only; the Tcl `PmTrace` does
nothing; its message lists options that it does not accept; options of
`PmControl` and `PmEvent` without their argument crash the Tcl copy; a marker of
an invalid thread crashes both Tcl copies.  A query for a module also lists
those whose name only begins with it.

*tarati.*  A second client after one that opened the notification channel gets a
fault and exits, and the server waits for ever.  After a client closed the channel
a death leaves `notifyState` accepted, so that no new channel is.  `TclExit` is
called only with `dumponexit` set (`simpleWb.tcl:702` against the comment at 704).
`recved` is read uninitialized after EINTR, where it cannot come; an end of file
found by the header's read is noticed at the next `Work`.

*Library.*  `ModuleDB::Clear` clears nothing (`module.cpp:656` against `:523`).  CVS
is skipped at the top only (`:561` against `:559`).  `FindDefaultModule` stops at
the first attribute with two providers (`:634` against `:605`).  A constant
parameter is replaced by a model file (`model.cpp:221` against `modparam.h:67`).
A source behind too many links is left out of the build tree and named by the
Makefile, since `CopyFileToBuildTree` ignores the result of
`HardCopyFileToBuildTree` (`model_builder.cpp:612` against `:591`). A `.pack`
file ends its module's work (`model_builder.cpp:943` against `:941`): modules
below an inner one get no header and their dynamic parameters no definition,
while `sim_config.h` declares them. The dynamic parameters of a module that
stands in a tree twice are defined twice in `param.cpp` (`:1575`, `:1640`). A
command line of a benchmark that is only `{}` ends the section
(`benchmark.cpp:280`), and the file is refused unless it could end there.
`Makefile::clear` leaves `subDirs` (`model_builder.h:117` against
`model_builder.cpp:84`).

*Windows.*  With `$AWB_MODEL` set, a switch of the workspace in `awb` keeps the
model that is shown, the buttons that are enabled for it and its parameters, while
the buttons act on the model that the variable names in the new workspace
(`awb_dialog.ui.h:98`).  The test behind the message at `apm_edit.ui.h:1322` can never fail
(`:1318`).  A submodel at the root is painted and then refused.  A refused
insertion is asked for again by the same handler (`:1981`).  "All models saved" is
said though only those of the last log are.  `awb-wizard` swaps two columns and
does not count some edits as modifications.  `replaceParameter` dies on a
parameter that is not there; models of one name are renamed to one file.

*Commit.*  `Git.pm:636` and `Hg.pm:604` call `unlockall` as a function, so that the
first package is shifted away and keeps its lock.  Two aborts in `Branch.pm`
return without `release_lock`.  After an aborted dilemma the transaction restores
the CSN of a package that is already published, and the next one gets the same.
`Lock.pm:267` has a TODO about locks left by a dead shell.

## 7. Not modelled

* The simple workbench (`simpleWb.tcl`): its structure is that of the workbench
  without Tcl, which is modelled; the Tcl around it is not.
* The null controller, the ape system (its loop is the one of `PerfModel` without
  the marker watch), the thermal model, strip charts and per-CPU counters.
* The text on the wire of tarati, its services for statistics, global state and
  time, and multicalls; of branches, releases, git and Subversion packages, the
  parts of a commit that differ; the status of locks.
* `base/param.cpp` (a table that is filled once), instruction utilities and
  warm-up managers (straight-line computation on instruction streams), power
  model and DRAL (null implementations here).
* Packages, workspaces, batch submission, shells, plots, statistics reports:
  front ends to external programs whose behaviour is not in the repository.
* `awb-wizard`, notes and shells of `apm-edit`, menus and trees of `awb`,
  resolver, properties windows; the build system.

## 8. Plan

1. Branch and release on top of `Commit`, with an abstract atomic commit.
2. The simple workbench on top of `Controller` in place of `NoTclWorkbench`, and
   of `Tarati`.
3. Batch runs and the parameters' table.
