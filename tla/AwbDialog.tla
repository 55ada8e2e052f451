------------------------------ MODULE AwbDialog ------------------------------
(***************************************************************************)
(* The main window of awb (awb_dialog) and the windows in which it runs    *)
(* its commands (RunLog).  A command is a process of its own; the window   *)
(* is modal, so that nothing else can be clicked while it is visible, but  *)
(* the user may close it while the process runs.  Some handlers wait for   *)
(* their process and handle events meanwhile: then handlers nest.          *)
(*                                                                         *)
(* The commands and the files they work on are external: a command ends,   *)
(* with or without an error; deleting and checking out packages changes    *)
(* the packages of the workspace it was started in.                        *)
(***************************************************************************)
EXTENDS Integers, Sequences, SequencesExt

CONSTANTS
    AwbWorkspaces,  \* the workspaces there are
    AwbModels,      \* names of models, and those of them that do not parse
    BadModels,
    ModelCommands,  \* nuke, configure, clean and build
    Packages,       \* packages that can be checked out
    Default,        \* the default of the dynamic parameter that a model has
    Typed,          \* what can be typed for it
    MaxClicks       \* bound: how often something is clicked

ASSUME ModelCommandsAssumption ==
    ModelCommands \subseteq {"nuke", "configure", "clean", "build"}

VARIABLES
    clicks,       \* history
    ws,           \* Asim::default_workspace, and the working directory
    paths,        \* the packages in its path, read when it is opened
    AWB_MODEL,    \* the environment's variable: no name, or one
    fromEnv,      \* history: init took the model from there, none was chosen since
    model,        \* awb_util's model, of a workspace, and benchmark
    benchmark,
    shownModel,   \* model_name
    canBuild,     \* Button_build and the like are enabled
    canRun,       \* Button_setup and Button_run are
    params,       \* paramList: none, or the parameter of a model
    typed,        \* history: what was typed for it
    widgets,      \* the run options in the dialog
    runSwitches,  \* awb_util's run_switches
    listed,       \* updatePackagesListBox
    pkgs,         \* the packages on disk, of each workspace
    logs,         \* the RunLog windows
    waits         \* handlers that wait, the innermost last: their windows

awbVars == << clicks, ws, paths, AWB_MODEL, fromEnv, model, benchmark, shownModel,
              canBuild, canRun, params, typed, widgets, runSwitches, listed, pkgs,
              logs, waits >>

Selection == << fromEnv, model, benchmark, shownModel, canBuild, canRun, params, typed >>
Place     == << ws, paths, listed, AWB_MODEL >>

NoModel   == << >>
NoParams  == << >>   \* a list has a model and the value
Switches(w, p) == [widgets |-> w, params |-> p]

(* What set_model makes of a file's name in a workspace.                   *)
SetModel(w, name) == IF name \in BadModels THEN NoModel ELSE << w, name >>

(* The window is built with its buttons enabled.  With $AWB_MODEL, init    *)
(* only sets the model; else it disables the buttons.                      *)
AwbInit ==
    /\ clicks = 0
    /\ ws \in AwbWorkspaces
    /\ pkgs = [w \in AwbWorkspaces |-> Packages]
    /\ paths = pkgs[ws] /\ listed = pkgs[ws]
    /\ \/ AWB_MODEL = {} /\ model = NoModel
       \/ \E m \in AwbModels : AWB_MODEL = {m} /\ model = SetModel(ws, m)
    /\ fromEnv = (AWB_MODEL # {}) /\ canBuild = (AWB_MODEL # {})
    /\ shownModel = NoModel
    /\ benchmark = FALSE /\ canRun = FALSE
    /\ params = NoParams /\ typed = Default
    /\ widgets = "none" /\ runSwitches = Switches("none", NoParams)
    /\ logs = << >> /\ waits = << >>

(* A modal window takes all clicks.                                        *)
Click ==
    /\ clicks < MaxClicks
    /\ clicks' = clicks + 1
    /\ \A k \in DOMAIN logs : ~logs[k].visible

-----------------------------------------------------------------------------
(* RunLog.  When the process cannot be started no window is shown.         *)
Log(cmd, arg) ==
    [cmd |-> cmd, arg |-> arg, ws |-> ws,
     model |-> IF arg = "" THEN model ELSE NoModel,
     options |-> IF cmd = "run" THEN Switches(widgets, params) ELSE NoParams,
     running |-> TRUE, visible |-> TRUE, ok |-> FALSE, killed |-> FALSE,
     left |-> FALSE]   \* history: closed, but not by Ok

NotStarted(log) == [log EXCEPT !.running = FALSE, !.visible = FALSE]

Run(log) == logs' \in {Append(logs, log), Append(logs, NotStarted(log))}

(* receivedProcessExited; what the process has done is done.               *)
Effects(log) ==
    CASE log.cmd = "delete"   -> {pkgs[log.ws], pkgs[log.ws] \ {log.arg}}
      [] log.cmd = "checkout" -> {pkgs[log.ws], pkgs[log.ws] \cup {log.arg}}
      [] OTHER                -> {pkgs[log.ws]}

ProcessExited(k) ==
    /\ k \in DOMAIN logs
    /\ logs[k].running
    /\ logs' = [logs EXCEPT ![k].running = FALSE, ![k].ok = TRUE]
    /\ \E after \in Effects(logs[k]) : pkgs' = [pkgs EXCEPT ![logs[k].ws] = after]
    /\ UNCHANGED << clicks, widgets, runSwitches, waits >>
    /\ UNCHANGED << Selection, Place >>

(* kill only asks the process to end.                                      *)
KillClicked(k) ==
    /\ k \in DOMAIN logs
    /\ logs[k].visible /\ logs[k].running /\ ~logs[k].killed
    /\ logs' = [logs EXCEPT ![k].killed = TRUE, ![k].ok = TRUE]
    /\ UNCHANGED << clicks, widgets, runSwitches, pkgs, waits >>
    /\ UNCHANGED << Selection, Place >>

OkClicked(k) ==
    /\ k \in DOMAIN logs
    /\ logs[k].visible /\ logs[k].ok
    /\ logs' = [logs EXCEPT ![k].visible = FALSE, ![k].ok = FALSE]
    /\ UNCHANGED << clicks, widgets, runSwitches, pkgs, waits >>
    /\ UNCHANGED << Selection, Place >>

WindowClosed(k) ==
    /\ k \in DOMAIN logs
    /\ logs[k].visible /\ ~logs[k].ok
    /\ logs' = [logs EXCEPT ![k].visible = FALSE, ![k].left = TRUE]
    /\ UNCHANGED << clicks, widgets, runSwitches, pkgs, waits >>
    /\ UNCHANGED << Selection, Place >>

-----------------------------------------------------------------------------
(* Selections.  A benchmark that is selected is shown and set; a new model *)
(* clears it, and the parameters.                                          *)
ModelListClicked(name) ==
    /\ Click
    /\ model' = SetModel(ws, name) /\ shownModel' = SetModel(ws, name)
    /\ canBuild' = (SetModel(ws, name) # NoModel)
    /\ fromEnv' = FALSE
    /\ benchmark' = FALSE /\ canRun' = FALSE
    /\ params' = NoParams /\ typed' = Default
    /\ UNCHANGED << widgets, runSwitches, pkgs, logs, waits >>
    /\ UNCHANGED Place

BenchmarkListClicked ==
    /\ Click
    /\ benchmark' = TRUE
    /\ canRun' = canBuild
    /\ UNCHANGED << fromEnv, model, shownModel, canBuild, params, typed, widgets,
                    runSwitches, pkgs, logs, waits >>
    /\ UNCHANGED Place

ParamRefreshClicked ==   \* needs a model and a benchmark, and a run that answers
    /\ Click
    /\ params' \in {NoParams, IF model # NoModel /\ benchmark THEN << model, Default >>
                                                              ELSE NoParams}
    /\ typed' = Default
    /\ UNCHANGED << fromEnv, model, benchmark, shownModel, canBuild, canRun, widgets,
                    runSwitches, pkgs, logs, waits >>
    /\ UNCHANGED Place

(* Nothing and "0" stand for the default.                                  *)
Updated(value) == IF value \in {"", "0"} THEN Default ELSE value

ParamUpdateClicked(value) ==
    /\ Click
    /\ params # NoParams
    /\ params' = << params[1], Updated(value) >>
    /\ typed' = value
    /\ UNCHANGED << fromEnv, model, benchmark, shownModel, canBuild, canRun, widgets,
                    runSwitches, pkgs, logs, waits >>
    /\ UNCHANGED Place

(* Only some of the widgets set the switches when they are changed.        *)
RunOptionChanged(w) ==
    /\ Click
    /\ widgets' = w
    /\ runSwitches' \in {runSwitches, Switches(w, params)}
    /\ UNCHANGED << pkgs, logs, waits >>
    /\ UNCHANGED << Selection, Place >>

-----------------------------------------------------------------------------
(* Buttons.  The switches are set before a run.                            *)
ModelButton(cmd) ==
    /\ Click
    /\ canBuild
    /\ model # NoModel /\ Run(Log(cmd, ""))
    /\ UNCHANGED << widgets, runSwitches, pkgs, waits >>
    /\ UNCHANGED << Selection, Place >>

SetupClicked ==
    /\ Click
    /\ canRun
    /\ model # NoModel /\ benchmark /\ Run(Log("setup", ""))
    /\ UNCHANGED << widgets, runSwitches, pkgs, waits >>
    /\ UNCHANGED << Selection, Place >>

RunClickedOld ==   \* faulty variant: the switches are not set again
    /\ Click
    /\ canRun
    /\ model # NoModel /\ benchmark
    /\ Run([Log("run", "") EXCEPT !.options = runSwitches])
    /\ UNCHANGED << widgets, runSwitches, pkgs, waits >>
    /\ UNCHANGED << Selection, Place >>

RunClicked ==
    /\ Click
    /\ canRun
    /\ runSwitches' = Switches(widgets, params)
    /\ model # NoModel /\ benchmark
    /\ Run(Log("run", ""))
    /\ UNCHANGED << widgets, pkgs, waits >>
    /\ UNCHANGED << Selection, Place >>

-----------------------------------------------------------------------------
(* Packages and workspaces.  These handlers wait for the process, however  *)
(* it ends.                                                                *)
UpdateClicked ==   \* update, commit, status, build or clean: no waiting
    /\ Click
    /\ Run(Log("update", "all"))
    /\ UNCHANGED << widgets, runSwitches, pkgs, waits >>
    /\ UNCHANGED << Selection, Place >>

WaitFor(log) ==
    /\ Run(log)
    /\ waits' = Append(waits, Len(logs) + 1)
    /\ UNCHANGED << widgets, runSwitches, pkgs >>
    /\ UNCHANGED << Selection, Place >>

DeleteClicked ==
    /\ Click
    /\ \E p \in listed : WaitFor(Log("delete", p))

CheckoutClicked ==
    /\ Click
    /\ \E p \in Packages : WaitFor(Log("checkout", p))

CreateClicked ==   \* of one that is not there
    /\ Click
    /\ \E w \in AwbWorkspaces \ {ws} : WaitFor(Log("create", w))

(* Asim::open and init: the benchmark is cleared; the model that is shown, *)
(* the buttons and the parameters only without $AWB_MODEL.                 *)
OpenKeepsModel(w) ==   \* faulty variant: the buttons stay enabled
    /\ ws' = w /\ paths' = pkgs[w] /\ listed' = pkgs[w]
    /\ runSwitches' = Switches(widgets, params)
    /\ UNCHANGED AWB_MODEL /\ UNCHANGED Selection

Open(w) ==
    /\ ws' = w /\ paths' = pkgs[w] /\ listed' = pkgs[w]
    /\ \/ /\ AWB_MODEL = {}
          /\ shownModel' = NoModel /\ canBuild' = FALSE
          /\ params' = NoParams /\ typed' = Default
          /\ UNCHANGED << fromEnv, model >>
       \/ /\ \E m \in AWB_MODEL : model' = SetModel(w, m)
          /\ fromEnv' = TRUE
          /\ UNCHANGED << shownModel, canBuild, params, typed >>
    /\ benchmark' = FALSE /\ canRun' = FALSE
    /\ runSwitches' = Switches(widgets, params')
    /\ UNCHANGED AWB_MODEL

SwitchClicked(w) ==
    /\ Click
    /\ Open(w)
    /\ UNCHANGED << widgets, pkgs, logs, waits >>

PackagesInit == listed' = paths \cap pkgs[ws] /\ UNCHANGED << ws, paths, AWB_MODEL >>

Refresh      == paths' = pkgs[ws] /\ listed' = pkgs[ws]
                /\ UNCHANGED << ws, AWB_MODEL >>

RefreshClicked ==
    /\ Click
    /\ Refresh
    /\ UNCHANGED << widgets, runSwitches, pkgs, logs, waits >>
    /\ UNCHANGED Selection

(* wait: the innermost handler goes on when its process has ended.  One    *)
(* that was killed is taken for one that ended well.                       *)
Waiting == waits # << >>
Waited  == logs[Last(waits)]

AfterDelete == PackagesInit

AfterCheckout == Refresh

WaitReturnsClosed ==   \* faulty variant: waits for the window to be closed by Ok
    /\ Waiting /\ ~Waited.running /\ ~Waited.visible /\ ~Waited.left
    /\ waits' = Front(waits)
    /\ AfterCheckout
    /\ UNCHANGED << clicks, widgets, runSwitches, pkgs, logs >>
    /\ UNCHANGED Selection

WaitReturns ==
    /\ Waiting /\ ~Waited.running
    /\ waits' = Front(waits)
    /\ \/ /\ Waited.cmd = "delete" /\ AfterDelete
          /\ UNCHANGED runSwitches /\ UNCHANGED Selection
       \/ /\ Waited.cmd = "checkout" /\ AfterCheckout
          /\ UNCHANGED runSwitches /\ UNCHANGED Selection
       \/ /\ Waited.cmd = "create"
          /\ \/ Open(Waited.arg)
             \/ UNCHANGED runSwitches /\ UNCHANGED << Selection, Place >>
    /\ UNCHANGED << clicks, widgets, pkgs, logs >>

-----------------------------------------------------------------------------
AwbNext ==
    \/ \E m \in AwbModels : ModelListClicked(m)
    \/ BenchmarkListClicked
    \/ ParamRefreshClicked
    \/ \E v \in Typed : ParamUpdateClicked(v)
    \/ \E w \in {"none", "cycle"} : RunOptionChanged(w)
    \/ \E c \in ModelCommands : ModelButton(c)
    \/ SetupClicked \/ RunClicked \/ UpdateClicked
    \/ DeleteClicked \/ CheckoutClicked \/ CreateClicked \/ RefreshClicked
    \/ \E w \in AwbWorkspaces : SwitchClicked(w)
    \/ \E k \in 1..MaxClicks :
          ProcessExited(k) \/ KillClicked(k) \/ OkClicked(k) \/ WindowClosed(k)
    \/ WaitReturns

(* Every command ends; the event loop of the innermost wait goes on.       *)
AwbFairness ==
    /\ \A k \in 1..MaxClicks : WF_awbVars(ProcessExited(k))
    /\ WF_awbVars(WaitReturns)

AwbSpec == AwbInit /\ [][AwbNext]_awbVars /\ AwbFairness

-----------------------------------------------------------------------------
(* A command for a model runs where the model is, and is for the model     *)
(* that the window shows - once a model has been chosen: with $AWB_MODEL,  *)
(* init sets one that it does not show.                                    *)
ShownIsUsed ==
    /\ canBuild /\ ~fromEnv => model = shownModel /\ model # NoModel /\ model[1] = ws
    /\ canRun => canBuild /\ benchmark

(* A parameter is passed to a run as it was typed, and to no other model   *)
(* than the one it was read from; "0" and nothing mean the default.  The   *)
(* model may be another one while it is the one from $AWB_MODEL.           *)
TypedIsRun ==
    [][Len(logs') > Len(logs) /\ Last(logs').cmd = "run" =>
          LET o == Last(logs').options IN
          /\ o.widgets = widgets
          /\ o.params # NoParams =>
                /\ o.params[1] = Last(logs').model \/ fromEnv
                /\ o.params[2] = Updated(typed)]_awbVars

(* When no handler waits, the packages listed are those of the workspace:  *)
(* also when a deletion failed half way, when handlers nested, or when the *)
(* workspace was switched meanwhile.                                       *)
ListedThere == waits = << >> => listed = pkgs[ws]

(* What awb shows is what its buttons act on, whatever handlers nested and *)
(* returned in between: the model, and the packages of the workspace       *)
(* (workspaceSwitchPushButton_clicked, updatePushButton_clicked).          *)
ShownIsThere == ShownIsUsed /\ ListedThere

(* A handler that waits for its command returns.                           *)
WaitsEnd == waits # << >> ~> waits = << >>
=============================================================================
