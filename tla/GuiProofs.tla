------------------------------ MODULE GuiProofs ------------------------------
(***************************************************************************)
(* Theorems about the windows awb, apm-edit and apm-find-replace, for any  *)
(* workspaces, packages and models, and any number of clicks.              *)
(***************************************************************************)
EXTENDS AwbDialog, ApmEdit, FindReplace, SequenceTheorems, FiniteSetTheorems, TLAPS

-----------------------------------------------------------------------------
(***************************************************************************)
(* awb: the types.                                                         *)
(***************************************************************************)
Models  == {NoModel} \cup (AwbWorkspaces \X AwbModels)
Values  == Typed \cup {Default}
Widgets == {"none", "cycle"}
Lists   == {NoParams} \cup (Models \X Values)
Options == {NoParams} \cup [widgets : Widgets, params : Lists]
Cmds    == ModelCommands \cup {"setup", "run", "update", "delete", "checkout", "create"}
LogArgs == {"", "all"} \cup Packages \cup AwbWorkspaces

Logs == [cmd : Cmds, arg : LogArgs, ws : AwbWorkspaces, model : Models,
         options : Options, running : BOOLEAN, visible : BOOLEAN, ok : BOOLEAN,
         killed : BOOLEAN, left : BOOLEAN]

(* A command is for a package or a workspace that there is.                *)
ForOneOf(log) ==
    /\ log.cmd \in {"delete", "checkout"} => log.arg \in Packages
    /\ log.cmd = "create" => log.arg \in AwbWorkspaces

AwbTypeOK ==
    /\ ws \in AwbWorkspaces
    /\ pkgs \in [AwbWorkspaces -> SUBSET Packages]
    /\ paths \subseteq Packages /\ listed \subseteq Packages
    /\ AWB_MODEL \subseteq AwbModels
    /\ model \in Models /\ benchmark \in BOOLEAN
    /\ canBuild \in BOOLEAN /\ canRun \in BOOLEAN
    /\ params \in Lists /\ widgets \in Widgets
    /\ logs \in Seq(Logs)
    /\ \A k \in 1..Len(logs) : ForOneOf(logs[k])
    /\ waits \in Seq(Nat)
    /\ \A j \in 1..Len(waits) : waits[j] \in 1..Len(logs)

(* A handler that waits for such a command.                                *)
Pending(cmd) == \E j \in 1..Len(waits) : logs[waits[j]].cmd = cmd

Changing == {"delete", "checkout"}

(* Whoever changes packages is waited for; what is not listed as it is, or *)
(* not in the path, will be when a handler that waits goes on.             *)
ListInv ==
    /\ \A k \in 1..Len(logs) :
          logs[k].running /\ logs[k].cmd \in Changing
              => \E j \in 1..Len(waits) : waits[j] = k
    /\ listed = pkgs[ws] \/ Pending("delete") \/ Pending("checkout")
    /\ pkgs[ws] \subseteq paths \/ Pending("checkout")

(* The list has the parameter of the model that the buttons act on, unless *)
(* that model came from $AWB_MODEL meanwhile.                              *)
ParamsInv ==
    params # NoParams =>
        /\ params = << params[1], Updated(typed) >>
        /\ ~fromEnv => params[1] = model

AwbInv == AwbTypeOK /\ ShownIsUsed /\ ParamsInv /\ ListInv

LEMMA LogType ==
    ASSUME AwbTypeOK, NEW cmd \in Cmds, NEW arg \in LogArgs
    PROVE  /\ Log(cmd, arg) \in Logs
           /\ Log(cmd, arg).cmd = cmd /\ Log(cmd, arg).arg = arg
           /\ Log(cmd, arg).running
<1>1. ws \in AwbWorkspaces /\ model \in Models /\ params \in Lists /\ widgets \in Widgets
  BY DEF AwbTypeOK
<1>2. Switches(widgets, params) \in Options
  BY <1>1 DEF Switches, Options
<1>3. NoModel \in Models /\ NoParams \in Options
  BY DEF Models, Options
<1> QED
  BY <1>1, <1>2, <1>3 DEF Log, Logs

LEMMA NotStartedType ==
    ASSUME NEW log \in Logs
    PROVE  /\ NotStarted(log) \in Logs
           /\ NotStarted(log).cmd = log.cmd /\ NotStarted(log).arg = log.arg
           /\ ~NotStarted(log).running
BY DEF NotStarted, Logs

(* A command was started, or could not be; nothing else happened to the    *)
(* windows.                                                                *)
LEMMA RunType ==
    ASSUME AwbTypeOK, NEW log \in Logs, ForOneOf(log), Run(log)
    PROVE  /\ logs' \in Seq(Logs) /\ Len(logs') = Len(logs) + 1
           /\ \A k \in 1..Len(logs) : logs'[k] = logs[k]
           /\ logs'[Len(logs) + 1].cmd = log.cmd
           /\ \A k \in 1..Len(logs') : ForOneOf(logs'[k])
<1>1. PICK new \in {log, NotStarted(log)} : logs' = Append(logs, new)
  BY DEF Run
<1>2. new \in Logs /\ new.cmd = log.cmd /\ new.arg = log.arg
  BY NotStartedType
<1>3. logs \in Seq(Logs) /\ \A k \in 1..Len(logs) : ForOneOf(logs[k])
  BY DEF AwbTypeOK
<1> HIDE DEF Run
<1>4. /\ logs' \in Seq(Logs) /\ Len(logs') = Len(logs) + 1
      /\ \A k \in 1..Len(logs) : logs'[k] = logs[k]
      /\ logs'[Len(logs) + 1] = new
  BY <1>1, <1>2, <1>3, AppendProperties
<1>5. ForOneOf(new)
  BY <1>2 DEF ForOneOf
<1>6. ASSUME NEW k \in 1..Len(logs')
      PROVE  ForOneOf(logs'[k])
  <2>1. k \in 1..Len(logs) \/ k = Len(logs) + 1
    BY <1>3, <1>4
  <2> QED
    BY <1>3, <1>4, <1>5, <2>1
<1> QED
  BY <1>2, <1>4, <1>6

-----------------------------------------------------------------------------
(***************************************************************************)
(* awb: what is selected.                                                  *)
(***************************************************************************)
SelectionType ==
    /\ AWB_MODEL \subseteq AwbModels
    /\ model \in Models /\ benchmark \in BOOLEAN
    /\ canBuild \in BOOLEAN /\ canRun \in BOOLEAN
    /\ params \in Lists /\ widgets \in Widgets

SelectionInv == SelectionType /\ ShownIsUsed /\ ParamsInv

LEMMA DefaultStays == Updated(Default) = Default
BY DEF Updated

LEMMA SetModelType ==
    ASSUME NEW w \in AwbWorkspaces, NEW m \in AwbModels
    PROVE  /\ SetModel(w, m) \in Models
           /\ SetModel(w, m) # NoModel => SetModel(w, m)[1] = w
BY DEF SetModel, Models, NoModel

LEMMA OpenSelection ==
    ASSUME SelectionInv, NEW w \in AwbWorkspaces, Open(w), UNCHANGED widgets
    PROVE  SelectionInv'
<1>1. CASE /\ AWB_MODEL = {}
           /\ canBuild' = FALSE /\ params' = NoParams
           /\ UNCHANGED << fromEnv, model >>
  BY <1>1 DEF SelectionInv, SelectionType, ShownIsUsed, ParamsInv, Open, Lists
<1>2. ASSUME NEW m \in AWB_MODEL, model' = SetModel(w, m), fromEnv' = TRUE,
             UNCHANGED << shownModel, canBuild, params, typed >>
      PROVE  SelectionInv'
  <2>1. m \in AwbModels /\ model' \in Models
    BY <1>2, SetModelType DEF SelectionInv, SelectionType
  <2>2. SelectionType' /\ ShownIsUsed'
    BY <1>2, <2>1 DEF SelectionInv, SelectionType, ShownIsUsed, Open
  <2>3. ParamsInv'
    BY <1>2 DEF SelectionInv, ParamsInv, Updated
  <2> QED
    BY <2>2, <2>3 DEF SelectionInv
<1> QED
  BY <1>1, <1>2 DEF Open

LEMMA SelectionKept ==
    ASSUME SelectionInv, UNCHANGED Selection, UNCHANGED << widgets, ws, AWB_MODEL >>
    PROVE  SelectionInv'
BY DEF SelectionInv, SelectionType, ShownIsUsed, ParamsInv, Selection, Updated

LEMMA SelectionStep ==
    ASSUME AwbTypeOK, SelectionInv, [AwbNext]_awbVars
    PROVE  SelectionInv'
<1>1. ASSUME NEW m \in AwbModels, ModelListClicked(m)
      PROVE  SelectionInv'
  <2>1. SetModel(ws, m) \in Models /\ (SetModel(ws, m) # NoModel => SetModel(ws, m)[1] = ws)
    BY SetModelType DEF AwbTypeOK
  <2>2. /\ model' = SetModel(ws, m) /\ shownModel' = SetModel(ws, m)
        /\ canBuild' = (SetModel(ws, m) # NoModel) /\ ws' = ws /\ AWB_MODEL' = AWB_MODEL
        /\ benchmark' = FALSE /\ canRun' = FALSE
        /\ params' = NoParams /\ widgets' = widgets
    BY <1>1 DEF ModelListClicked, Place
  <2>3. SelectionType'
    BY <2>1, <2>2 DEF SelectionInv, SelectionType, Lists
  <2>4. ShownIsUsed'
    BY <2>1, <2>2 DEF ShownIsUsed
  <2> QED
    BY <2>2, <2>3, <2>4 DEF SelectionInv, ParamsInv
<1>2. CASE BenchmarkListClicked
  BY <1>2 DEF BenchmarkListClicked, Place, SelectionInv, SelectionType, ShownIsUsed, ParamsInv,
              Updated
<1>3. CASE ParamRefreshClicked
  <2>1. << model, Default >> \in Lists
    BY DEF SelectionInv, SelectionType, Lists, Values
  <2>2. /\ params' \in {NoParams, << model, Default >>} /\ typed' = Default
        /\ UNCHANGED << fromEnv, model, benchmark, shownModel, canBuild, canRun, widgets,
                        ws, AWB_MODEL >>
    BY <1>3 DEF ParamRefreshClicked, Place
  <2>3. SelectionType' /\ ShownIsUsed'
    BY <2>1, <2>2 DEF SelectionInv, SelectionType, ShownIsUsed, Lists
  <2>4. ParamsInv'
    BY <2>2, DefaultStays DEF ParamsInv
  <2> QED
    BY <2>3, <2>4 DEF SelectionInv
<1>4. ASSUME NEW v \in Typed, ParamUpdateClicked(v)
      PROVE  SelectionInv'
  <2>1. params # NoParams /\ (~fromEnv => params[1] = model)
    BY <1>4 DEF ParamUpdateClicked, SelectionInv, ParamsInv
  <2>2. params[1] \in Models
    BY <2>1 DEF SelectionInv, SelectionType, Lists
  <2>3. << params[1], Updated(v) >> \in Lists
    BY <2>2 DEF Lists, Values, Updated
  <2>4. /\ params' = << params[1], Updated(v) >> /\ typed' = v
        /\ UNCHANGED << fromEnv, model, benchmark, shownModel, canBuild, canRun, widgets,
                        ws, AWB_MODEL >>
    BY <1>4 DEF ParamUpdateClicked, Place
  <2>5. SelectionType' /\ ShownIsUsed'
    BY <2>3, <2>4 DEF SelectionInv, SelectionType, ShownIsUsed
  <2>6. ParamsInv'
    BY <2>1, <2>4 DEF ParamsInv
  <2> QED
    BY <2>5, <2>6 DEF SelectionInv
<1>5. ASSUME NEW w \in Widgets, RunOptionChanged(w)
      PROVE  SelectionInv'
  BY <1>5 DEF RunOptionChanged, Place, Selection, SelectionInv, SelectionType, ShownIsUsed,
              ParamsInv, Updated
<1>6. CASE \/ \E c \in ModelCommands : ModelButton(c)
           \/ SetupClicked \/ RunClicked \/ UpdateClicked
           \/ DeleteClicked \/ CheckoutClicked \/ CreateClicked \/ RefreshClicked
           \/ \E k \in 1..MaxClicks :
                 ProcessExited(k) \/ KillClicked(k) \/ OkClicked(k) \/ WindowClosed(k)
           \/ UNCHANGED awbVars
  <2>1. UNCHANGED Selection /\ UNCHANGED << widgets, ws, AWB_MODEL >>
    BY <1>6 DEF ModelButton, SetupClicked, RunClicked, UpdateClicked, DeleteClicked,
       CheckoutClicked, CreateClicked, WaitFor, RefreshClicked, Refresh, ProcessExited,
       KillClicked, OkClicked, WindowClosed, Place, awbVars, Selection
  <2> QED
    BY <2>1, SelectionKept
<1>7. ASSUME NEW w \in AwbWorkspaces, SwitchClicked(w)
      PROVE  SelectionInv'
  BY <1>7, OpenSelection DEF SwitchClicked
<1>8. CASE WaitReturns
  <2>1. CASE Waited.cmd = "create" /\ Open(Waited.arg)
    <3>1. Last(waits) \in 1..Len(logs)
      BY <1>8 DEF WaitReturns, Waiting, Last, AwbTypeOK
    <3>2. Waited.arg \in AwbWorkspaces
      BY <2>1, <3>1 DEF Waited, ForOneOf, AwbTypeOK
    <3> QED
      BY <1>8, <2>1, <3>2, OpenSelection DEF WaitReturns
  <2>2. CASE ~(Waited.cmd = "create" /\ Open(Waited.arg))
    BY <1>8, <2>2, SelectionKept
       DEF WaitReturns, AfterDelete, AfterCheckout, PackagesInit, Refresh, Place
  <2> QED
    BY <2>1, <2>2
<1> QED
  BY <1>1, <1>2, <1>3, <1>4, <1>5, <1>6, <1>7, <1>8 DEF AwbNext, Widgets

-----------------------------------------------------------------------------
(***************************************************************************)
(* awb: the windows, the handlers that wait for them, and the packages.    *)
(***************************************************************************)
PackagesType ==
    /\ ws \in AwbWorkspaces
    /\ pkgs \in [AwbWorkspaces -> SUBSET Packages]
    /\ paths \subseteq Packages /\ listed \subseteq Packages

WindowsType ==
    /\ logs \in Seq(Logs)
    /\ \A k \in 1..Len(logs) : ForOneOf(logs[k])
    /\ waits \in Seq(Nat)
    /\ \A j \in 1..Len(waits) : waits[j] \in 1..Len(logs)

PackagesInv == PackagesType /\ WindowsType /\ ListInv

LEMMA AwbTypeParts == AwbTypeOK <=> PackagesType /\ WindowsType /\ SelectionType
BY DEF AwbTypeOK, PackagesType, WindowsType, SelectionType

LEMMA PackagesKept ==
    ASSUME PackagesInv, UNCHANGED << logs, waits, pkgs, ws, paths, listed >>
    PROVE  PackagesInv'
BY DEF PackagesInv, PackagesType, WindowsType, ListInv, Pending, Changing, ForOneOf

(* The window is opened again, or its list read again.                     *)
LEMMA PackagesRead ==
    ASSUME PackagesInv, UNCHANGED << logs, waits, pkgs >>, ws' \in AwbWorkspaces,
           paths' = pkgs[ws'], listed' = pkgs[ws']
    PROVE  PackagesInv'
<1>1. PackagesType' /\ WindowsType'
  BY DEF PackagesInv, PackagesType, WindowsType, ForOneOf
<1>2. ListInv'
  BY DEF PackagesInv, ListInv, Pending, Changing
<1> QED
  BY <1>1, <1>2 DEF PackagesInv

(* A window changes; what it stands for does not.                          *)
LEMMA WindowChanged ==
    ASSUME WindowsType, NEW k \in 1..Len(logs),
           logs' \in Seq(Logs), Len(logs') = Len(logs),
           \A i \in 1..Len(logs) :
               /\ logs'[i].cmd = logs[i].cmd /\ logs'[i].arg = logs[i].arg
               /\ logs'[i].running => logs[i].running,
           UNCHANGED waits
    PROVE  /\ WindowsType'
           /\ \A c : Pending(c)' <=> Pending(c)
BY DEF WindowsType, ForOneOf, Pending

LEMMA FlagsSet ==
    ASSUME NEW l \in Seq(Logs), NEW k \in DOMAIN l, NEW new \in Logs,
           new.cmd = l[k].cmd, new.arg = l[k].arg, new.running => l[k].running
    PROVE  /\ [l EXCEPT ![k] = new] \in Seq(Logs)
           /\ Len([l EXCEPT ![k] = new]) = Len(l)
           /\ \A i \in 1..Len(l) :
                 /\ [l EXCEPT ![k] = new][i].cmd = l[i].cmd
                 /\ [l EXCEPT ![k] = new][i].arg = l[i].arg
                 /\ [l EXCEPT ![k] = new][i].running => l[i].running
<1>1. DOMAIN l = 1..Len(l) /\ k \in 1..Len(l)
  OBVIOUS
<1>2. [l EXCEPT ![k] = new] \in Seq(Logs) /\ Len([l EXCEPT ![k] = new]) = Len(l)
  BY <1>1, ExceptSeq
<1>3. \A i \in 1..Len(l) : [l EXCEPT ![k] = new][i] = IF i = k THEN new ELSE l[i]
  BY <1>1
<1> QED
  BY <1>1, <1>2, <1>3

(* A process ends, and has changed the packages where it was started, or a *)
(* window is clicked.                                                      *)
LEMMA WindowStep ==
    ASSUME PackagesInv, NEW k \in DOMAIN logs,
           ProcessExited(k) \/ KillClicked(k) \/ OkClicked(k) \/ WindowClosed(k)
    PROVE  PackagesInv'
<1>1. logs \in Seq(Logs) /\ logs[k] \in Logs /\ k \in 1..Len(logs)
  BY DEF PackagesInv, WindowsType
<1>2. PICK new \in Logs :
         /\ logs' = [logs EXCEPT ![k] = new]
         /\ new.cmd = logs[k].cmd /\ new.arg = logs[k].arg
         /\ new.running => logs[k].running
  <2> DEFINE log == logs[k]
  <2>1. log \in Logs
    BY <1>1
  <2>2. CASE ProcessExited(k)
    <3>1. logs' = [logs EXCEPT ![k] = [log EXCEPT !.running = FALSE, !.ok = TRUE]]
      BY <2>2 DEF ProcessExited
    <3> HIDE DEF log
    <3>2. [log EXCEPT !.running = FALSE, !.ok = TRUE] \in Logs
      BY <2>1 DEF Logs
    <3>3. /\ [log EXCEPT !.running = FALSE, !.ok = TRUE].cmd = log.cmd
          /\ [log EXCEPT !.running = FALSE, !.ok = TRUE].arg = log.arg
          /\ ~[log EXCEPT !.running = FALSE, !.ok = TRUE].running
      BY <2>1 DEF Logs
    <3> QED
      BY <3>1, <3>2, <3>3 DEF log
  <2>3. CASE KillClicked(k)
    <3>1. logs' = [logs EXCEPT ![k] = [log EXCEPT !.killed = TRUE, !.ok = TRUE]]
      BY <2>3 DEF KillClicked
    <3> HIDE DEF log
    <3>2. [log EXCEPT !.killed = TRUE, !.ok = TRUE] \in Logs
      BY <2>1 DEF Logs
    <3>3. /\ [log EXCEPT !.killed = TRUE, !.ok = TRUE].cmd = log.cmd
          /\ [log EXCEPT !.killed = TRUE, !.ok = TRUE].arg = log.arg
          /\ [log EXCEPT !.killed = TRUE, !.ok = TRUE].running = log.running
      BY <2>1 DEF Logs
    <3> QED
      BY <3>1, <3>2, <3>3 DEF log
  <2>4. CASE OkClicked(k)
    <3>1. logs' = [logs EXCEPT ![k] = [log EXCEPT !.visible = FALSE, !.ok = FALSE]]
      BY <2>4 DEF OkClicked
    <3> HIDE DEF log
    <3>2. [log EXCEPT !.visible = FALSE, !.ok = FALSE] \in Logs
      BY <2>1 DEF Logs
    <3>3. /\ [log EXCEPT !.visible = FALSE, !.ok = FALSE].cmd = log.cmd
          /\ [log EXCEPT !.visible = FALSE, !.ok = FALSE].arg = log.arg
          /\ [log EXCEPT !.visible = FALSE, !.ok = FALSE].running = log.running
      BY <2>1 DEF Logs
    <3> QED
      BY <3>1, <3>2, <3>3 DEF log
  <2>5. CASE WindowClosed(k)
    <3>1. logs' = [logs EXCEPT ![k] = [log EXCEPT !.visible = FALSE, !.left = TRUE]]
      BY <2>5 DEF WindowClosed
    <3> HIDE DEF log
    <3>2. [log EXCEPT !.visible = FALSE, !.left = TRUE] \in Logs
      BY <2>1 DEF Logs
    <3>3. /\ [log EXCEPT !.visible = FALSE, !.left = TRUE].cmd = log.cmd
          /\ [log EXCEPT !.visible = FALSE, !.left = TRUE].arg = log.arg
          /\ [log EXCEPT !.visible = FALSE, !.left = TRUE].running = log.running
      BY <2>1 DEF Logs
    <3> QED
      BY <3>1, <3>2, <3>3 DEF log
  <2> QED
    BY <2>2, <2>3, <2>4, <2>5
<1>3. /\ logs' \in Seq(Logs) /\ Len(logs') = Len(logs)
      /\ \A i \in 1..Len(logs) :
            /\ logs'[i].cmd = logs[i].cmd /\ logs'[i].arg = logs[i].arg
            /\ logs'[i].running => logs[i].running
  BY <1>1, <1>2, FlagsSet
<1>4. UNCHANGED << waits, ws, paths, listed >>
  BY DEF ProcessExited, KillClicked, OkClicked, WindowClosed, Place
<1>5. WindowsType' /\ \A c : Pending(c)' <=> Pending(c)
  BY <1>1, <1>3, <1>4, WindowChanged DEF PackagesInv
<1>6. \A i \in 1..Len(logs') :
         logs'[i].running /\ logs'[i].cmd \in Changing
             => \E j \in 1..Len(waits') : waits'[j] = i
  BY <1>3, <1>4 DEF PackagesInv, ListInv, Changing
<1>7. CASE UNCHANGED pkgs
  BY <1>4, <1>5, <1>6, <1>7 DEF PackagesInv, PackagesType, ListInv
<1>8. CASE ProcessExited(k) /\ pkgs' # pkgs
  <2>1. PICK after \in Effects(logs[k]) : pkgs' = [pkgs EXCEPT ![logs[k].ws] = after]
    BY <1>8 DEF ProcessExited
  <2>2. /\ pkgs \in [AwbWorkspaces -> SUBSET Packages] /\ ws \in AwbWorkspaces
        /\ logs[k].ws \in AwbWorkspaces /\ logs[k].running
    BY <1>1, <1>8 DEF PackagesInv, PackagesType, ProcessExited, Logs
  <2>3. logs[k].cmd \in Changing
    BY <1>8, <2>1, <2>2 DEF Effects, Changing
  <2>4. /\ logs[k].arg \in Packages
        /\ after \subseteq Packages
        /\ logs[k].cmd = "delete" => after \subseteq pkgs[logs[k].ws]
    BY <1>1, <2>1, <2>2, <2>3 DEF PackagesInv, WindowsType, ForOneOf, Effects, Changing
  <2>5. Pending(logs[k].cmd)
    <3>1. \E j \in 1..Len(waits) : waits[j] = k
      BY <1>1, <2>2, <2>3 DEF PackagesInv, ListInv
    <3> QED
      BY <3>1 DEF Pending
  <2>6. pkgs' \in [AwbWorkspaces -> SUBSET Packages]
    BY <2>1, <2>2, <2>4
  <2>7. logs[k].cmd = "delete" => pkgs'[ws] \subseteq pkgs[ws]
    BY <2>1, <2>2, <2>4
  <2>8. PackagesType'
    BY <1>4, <2>6 DEF PackagesInv, PackagesType
  <2>9. ListInv'
    BY <1>4, <1>5, <1>6, <2>3, <2>5, <2>7 DEF PackagesInv, ListInv, Changing
  <2> QED
    BY <1>5, <2>8, <2>9 DEF PackagesInv
<1> QED
  BY <1>7, <1>8 DEF KillClicked, OkClicked, WindowClosed

(* A command starts that changes no packages.                              *)
LEMMA RunStep ==
    ASSUME AwbTypeOK, PackagesInv, NEW log \in Logs, Run(log), ForOneOf(log),
           log.cmd \notin Changing, UNCHANGED << waits, pkgs, ws, paths, listed >>
    PROVE  PackagesInv'
<1>1. /\ logs' \in Seq(Logs) /\ Len(logs') = Len(logs) + 1
      /\ \A k \in 1..Len(logs) : logs'[k] = logs[k]
      /\ logs'[Len(logs) + 1].cmd = log.cmd
      /\ \A k \in 1..Len(logs') : ForOneOf(logs'[k])
  BY RunType
<1>2. Len(logs) \in Nat /\ \A j \in 1..Len(waits) : waits[j] \in 1..Len(logs)
  BY DEF PackagesInv, WindowsType
<1>3. PackagesType' /\ WindowsType'
  BY <1>1, <1>2 DEF PackagesInv, PackagesType, WindowsType
<1>4. \A c : Pending(c) => Pending(c)'
  BY <1>1, <1>2 DEF Pending
<1>5. ASSUME NEW k \in 1..Len(logs'), logs'[k].running, logs'[k].cmd \in Changing
      PROVE  \E j \in 1..Len(waits') : waits'[j] = k
  <2>1. k \in 1..Len(logs)
    BY <1>1, <1>2, <1>5
  <2> QED
    BY <1>1, <1>5, <2>1 DEF PackagesInv, ListInv
<1>6. ListInv'
  BY <1>4, <1>5 DEF PackagesInv, ListInv
<1> QED
  BY <1>3, <1>6 DEF PackagesInv

(* A command starts, and the handler waits for it.                         *)
LEMMA WaitForStep ==
    ASSUME AwbTypeOK, PackagesInv, NEW log \in Logs, WaitFor(log), ForOneOf(log)
    PROVE  PackagesInv'
<1>0. /\ Run(log) /\ waits' = Append(waits, Len(logs) + 1)
      /\ UNCHANGED << pkgs, ws, paths, listed >>
  BY DEF WaitFor, Place
<1>1. /\ logs' \in Seq(Logs) /\ Len(logs') = Len(logs) + 1
      /\ \A k \in 1..Len(logs) : logs'[k] = logs[k]
      /\ logs'[Len(logs) + 1].cmd = log.cmd
      /\ \A k \in 1..Len(logs') : ForOneOf(logs'[k])
  BY <1>0, RunType
<1>2. /\ Len(logs) \in Nat /\ waits \in Seq(Nat) /\ Len(waits) \in Nat
      /\ \A j \in 1..Len(waits) : waits[j] \in 1..Len(logs)
  BY DEF PackagesInv, WindowsType
<1>3. /\ waits' \in Seq(Nat) /\ Len(waits') = Len(waits) + 1
      /\ \A j \in 1..Len(waits) : waits'[j] = waits[j]
      /\ waits'[Len(waits) + 1] = Len(logs) + 1
  BY <1>0, <1>2, AppendProperties
<1>4. ASSUME NEW j \in 1..Len(waits')
      PROVE  waits'[j] \in 1..Len(logs')
  <2>1. j \in 1..Len(waits) \/ j = Len(waits) + 1
    BY <1>2, <1>3
  <2> QED
    BY <1>1, <1>2, <1>3, <2>1
<1>5. PackagesType' /\ WindowsType'
  BY <1>0, <1>1, <1>3, <1>4 DEF PackagesInv, PackagesType, WindowsType
<1>6. \A c : Pending(c) => Pending(c)'
  BY <1>1, <1>2, <1>3 DEF Pending
<1>7. ASSUME NEW k \in 1..Len(logs'), logs'[k].running, logs'[k].cmd \in Changing
      PROVE  \E j \in 1..Len(waits') : waits'[j] = k
  <2>1. CASE k = Len(logs) + 1
    <3>1. Len(waits) + 1 \in 1..Len(waits')
      BY <1>2, <1>3
    <3> QED
      BY <1>3, <2>1, <3>1
  <2>2. CASE k # Len(logs) + 1
    <3>1. k \in 1..Len(logs)
      BY <1>1, <1>2, <2>2
    <3>2. PICK j \in 1..Len(waits) : waits[j] = k
      BY <1>1, <1>7, <3>1 DEF PackagesInv, ListInv
    <3>3. j \in 1..Len(waits')
      BY <1>2, <1>3
    <3> QED
      BY <1>3, <3>2, <3>3
  <2> QED
    BY <2>1, <2>2
<1>8. ListInv'
  BY <1>0, <1>6, <1>7 DEF PackagesInv, ListInv
<1> QED
  BY <1>5, <1>8 DEF PackagesInv

(* The innermost handler goes on.                                          *)
LEMMA WaitReturnsStep ==
    ASSUME PackagesInv, WaitReturns
    PROVE  PackagesInv'
<1>1. /\ waits \in Seq(Nat) /\ waits # << >> /\ Len(waits) \in Nat /\ Len(waits) > 0
      /\ \A j \in 1..Len(waits) : waits[j] \in 1..Len(logs)
  BY EmptySeq DEF PackagesInv, WindowsType, WaitReturns, Waiting
<1> DEFINE n == Len(waits)
<1>2. /\ Front(waits) = SubSeq(waits, 1, n - 1)
      /\ Last(waits) = waits[n] /\ n \in 1..Len(waits)
  BY <1>1 DEF Front, Last
<1>3. /\ waits' \in Seq(Nat) /\ Len(waits') = n - 1
      /\ \A j \in 1..(n - 1) : waits'[j] = waits[j]
  <2>1. waits' = SubSeq(waits, 1, n - 1)
    BY <1>2 DEF WaitReturns
  <2>2. n - 1 \in Int /\ 1 \in Int /\ \A i \in 1..(n - 1) : waits[i] \in Nat
    BY <1>1
  <2> HIDE DEF n
  <2>3. /\ waits' \in Seq(Nat)
        /\ Len(waits') = IF 1 <= n - 1 THEN (n - 1) - 1 + 1 ELSE 0
        /\ \A i \in 1..((n - 1) - 1 + 1) : waits'[i] = waits[1 + i - 1]
    BY <2>1, <2>2, SubSeqProperties
  <2>4. n \in Nat /\ n > 0
    BY <1>1 DEF n
  <2>5. /\ Len(waits') = n - 1
        /\ \A i \in 1..(n - 1) : i \in 1..((n - 1) - 1 + 1) /\ 1 + i - 1 = i
    BY <2>3, <2>4
  <2> QED
    BY <2>3, <2>5
<1>4. UNCHANGED << logs, pkgs >> /\ ~Waited.running /\ Waited = logs[waits[n]]
  BY <1>2 DEF WaitReturns, Waited
<1>5. \A j \in 1..(n - 1) : j \in 1..n
  BY <1>1
<1> HIDE DEF n
<1>6. n \in Nat /\ Len(waits) = n
  BY <1>1 DEF n
<1>7. \A j \in 1..n : j \in 1..(n - 1) \/ j = n
  BY <1>6
<1>8. WindowsType'
  <2>1. \A j \in 1..Len(waits') : waits'[j] \in 1..Len(logs')
    BY <1>1, <1>3, <1>4, <1>5, <1>6
  <2> QED
    BY <1>3, <1>4, <2>1 DEF PackagesInv, WindowsType, ForOneOf
<1>9. \A c : c # Waited.cmd => (Pending(c) => Pending(c)')
  BY <1>3, <1>4, <1>6, <1>7 DEF Pending
<1>10. ASSUME NEW k \in 1..Len(logs'), logs'[k].running, logs'[k].cmd \in Changing
       PROVE  \E j \in 1..Len(waits') : waits'[j] = k
  <2>1. PICK j \in 1..n : waits[j] = k
    BY <1>4, <1>6, <1>10 DEF PackagesInv, ListInv
  <2>2. j # n
    BY <1>4, <1>10, <2>1
  <2> QED
    BY <1>3, <1>7, <2>1, <2>2
<1>11. PackagesType
  BY DEF PackagesInv
<1>12. CASE /\ ws' \in AwbWorkspaces
            /\ paths' = pkgs[ws'] /\ listed' = pkgs[ws']
  BY <1>4, <1>8, <1>10, <1>11, <1>12 DEF PackagesInv, PackagesType, ListInv
<1>13. CASE Waited.cmd = "delete" /\ AfterDelete
  <2>1. listed' = paths \cap pkgs[ws] /\ UNCHANGED << ws, paths >>
    BY <1>13 DEF AfterDelete, PackagesInit
  <2>2. PackagesType'
    BY <1>4, <1>11, <2>1 DEF PackagesType
  <2>3. pkgs[ws] \subseteq paths \/ Pending("checkout")
    BY DEF PackagesInv, ListInv
  <2>4. Pending("checkout") => Pending("checkout")'
    BY <1>9, <1>13
  <2>5. pkgs[ws] \subseteq paths => listed' = pkgs[ws]
    BY <2>1
  <2> QED
    BY <1>4, <1>8, <1>10, <2>1, <2>2, <2>3, <2>4, <2>5 DEF PackagesInv, ListInv
<1>14. CASE Waited.cmd = "checkout" /\ AfterCheckout
  BY <1>4, <1>11, <1>12, <1>14 DEF AfterCheckout, Refresh, PackagesType
<1>15. CASE Waited.cmd = "create" /\ Open(Waited.arg)
  <2>1. Waited.arg \in AwbWorkspaces
    <3>1. n \in 1..Len(waits)
      BY <1>1 DEF n
    <3>2. waits[n] \in 1..Len(logs)
      BY <1>1, <3>1
    <3>3. ForOneOf(logs[waits[n]])
      BY <3>2 DEF PackagesInv, WindowsType
    <3> QED
      BY <1>4, <1>15, <3>3 DEF ForOneOf
  <2> QED
    BY <1>12, <1>15, <2>1 DEF Open
<1>16. CASE Waited.cmd = "create" /\ UNCHANGED << ws, paths, listed >>
  <2>1. PackagesType'
    BY <1>4, <1>11, <1>16 DEF PackagesType
  <2>2. /\ Pending("delete") => Pending("delete")'
        /\ Pending("checkout") => Pending("checkout")'
    BY <1>9, <1>16
  <2> QED
    BY <1>4, <1>8, <1>10, <1>16, <2>1, <2>2 DEF PackagesInv, ListInv
<1> QED
  BY <1>13, <1>14, <1>15, <1>16 DEF WaitReturns, Place

-----------------------------------------------------------------------------
LEMMA PackagesStep ==
    ASSUME AwbTypeOK, PackagesInv, [AwbNext]_awbVars
    PROVE  PackagesInv'
<1>1. CASE \/ \E m \in AwbModels : ModelListClicked(m)
           \/ BenchmarkListClicked \/ ParamRefreshClicked
           \/ \E v \in Typed : ParamUpdateClicked(v)
           \/ \E w \in Widgets : RunOptionChanged(w)
           \/ UNCHANGED awbVars
  <2>1. UNCHANGED << logs, waits, pkgs, ws, paths, listed >>
    BY <1>1 DEF ModelListClicked, BenchmarkListClicked, ParamRefreshClicked,
       ParamUpdateClicked, RunOptionChanged, Place, awbVars
  <2> QED
    BY <2>1, PackagesKept
<1>2. CASE (\E c \in ModelCommands : ModelButton(c)) \/ SetupClicked \/ RunClicked
           \/ UpdateClicked
  <2>1. PICK c \in Cmds \ {"delete", "checkout", "create"}, a \in {"", "all"} :
           Run(Log(c, a))
    BY <1>2, ModelCommandsAssumption
       DEF ModelButton, SetupClicked, RunClicked, UpdateClicked, Cmds
  <2>2. Log(c, a) \in Logs /\ Log(c, a).cmd = c
    BY LogType DEF LogArgs
  <2>3. ForOneOf(Log(c, a)) /\ Log(c, a).cmd \notin Changing
    BY <2>2 DEF ForOneOf, Changing
  <2>4. UNCHANGED << waits, pkgs, ws, paths, listed >>
    BY <1>2 DEF ModelButton, SetupClicked, RunClicked, UpdateClicked, Place
  <2> QED
    BY <2>1, <2>2, <2>3, <2>4, RunStep
<1>3. CASE DeleteClicked \/ CheckoutClicked \/ CreateClicked
  <2>1. PICK c \in {"delete", "checkout", "create"}, a \in LogArgs :
           /\ WaitFor(Log(c, a))
           /\ c \in Changing => a \in Packages
           /\ c = "create" => a \in AwbWorkspaces
    BY <1>3 DEF DeleteClicked, CheckoutClicked, CreateClicked, AwbTypeOK, LogArgs, Changing
  <2>2. Log(c, a) \in Logs /\ Log(c, a).cmd = c /\ Log(c, a).arg = a
    BY LogType DEF Cmds
  <2>3. ForOneOf(Log(c, a))
    BY <2>1, <2>2 DEF ForOneOf, Changing
  <2> QED
    BY <2>1, <2>2, <2>3, WaitForStep
<1>4. CASE RefreshClicked \/ \E w \in AwbWorkspaces : SwitchClicked(w)
  <2>1. /\ UNCHANGED << logs, waits, pkgs >> /\ ws' \in AwbWorkspaces
        /\ paths' = pkgs[ws'] /\ listed' = pkgs[ws']
    BY <1>4 DEF RefreshClicked, Refresh, SwitchClicked, Open, AwbTypeOK
  <2> QED
    BY <2>1, PackagesRead
<1>5. ASSUME NEW k,
             ProcessExited(k) \/ KillClicked(k) \/ OkClicked(k) \/ WindowClosed(k)
      PROVE  PackagesInv'
  <2>1. k \in DOMAIN logs
    BY <1>5 DEF ProcessExited, KillClicked, OkClicked, WindowClosed
  <2> QED
    BY <1>5, <2>1, WindowStep
<1>6. CASE WaitReturns
  BY <1>6, WaitReturnsStep
<1> QED
  BY <1>1, <1>2, <1>3, <1>4, <1>5, <1>6 DEF AwbNext, Widgets

LEMMA AwbParts == AwbInv <=> SelectionInv /\ PackagesInv
BY AwbTypeParts DEF AwbInv, SelectionInv, PackagesInv

LEMMA AwbInitial == AwbInit => AwbInv
<1> SUFFICES ASSUME AwbInit PROVE AwbInv
  OBVIOUS
<1>1. SelectionInv
  <2>1. model \in Models /\ AWB_MODEL \subseteq AwbModels
    BY SetModelType DEF AwbInit, Models
  <2> QED
    BY <2>1 DEF AwbInit, SelectionInv, SelectionType, ShownIsUsed, ParamsInv, Lists, Widgets
<1>2. logs = << >> /\ waits = << >> /\ Len(logs) = 0 /\ Len(waits) = 0
  BY DEF AwbInit
<1>3. logs \in Seq(Logs) /\ waits \in Seq(Nat)
  BY <1>2
<1>4. WindowsType
  BY <1>2, <1>3 DEF WindowsType
<1>5. PackagesType
  BY DEF AwbInit, PackagesType
<1>6. ListInv
  BY <1>2 DEF AwbInit, ListInv
<1> QED
  BY <1>1, <1>4, <1>5, <1>6, AwbParts DEF PackagesInv

LEMMA AwbStep == AwbInv /\ [AwbNext]_awbVars => AwbInv'
<1>1. AwbInv /\ [AwbNext]_awbVars => SelectionInv' /\ PackagesInv'
  BY AwbParts, AwbTypeParts, SelectionStep, PackagesStep DEF AwbInv
<1>2. SelectionInv' /\ PackagesInv' => AwbInv'
  BY AwbTypeParts DEF AwbInv, AwbTypeOK, SelectionInv, SelectionType, PackagesInv,
                      PackagesType, WindowsType
<1> QED
  BY <1>1, <1>2

(* What awb shows is what its buttons act on, unless init took the model   *)
(* from $AWB_MODEL and none was chosen since, and the packages it lists    *)
(* are those of the workspace when no handler waits: however many handlers *)
(* nest, whatever windows are closed before their command has ended, and   *)
(* whatever a command leaves half done.                                    *)
THEOREM AwbShowsWhatIs == AwbSpec => []ShownIsThere
<1>1. AwbInv => ShownIsThere
  <2> SUFFICES ASSUME AwbInv, waits = << >> PROVE listed = pkgs[ws]
    BY DEF AwbInv, ShownIsThere, ListedThere
  <2>1. Len(waits) = 0
    OBVIOUS
  <2> QED
    BY <2>1 DEF AwbInv, ListInv, Pending
<1> QED
  BY <1>1, AwbInitial, AwbStep, PTL DEF AwbSpec

(* A run is started with what was chosen and typed, and for the model that *)
(* the parameters were read from: once a model has been chosen in the      *)
(* window, since $AWB_MODEL is set by init without a new list.             *)
THEOREM AwbRunsWhatWasTyped == AwbSpec => TypedIsRun
<1>1. ASSUME AwbInv, [AwbNext]_awbVars, Len(logs') > Len(logs), Last(logs').cmd = "run"
      PROVE  LET o == Last(logs').options IN
             /\ o.widgets = widgets
             /\ o.params # NoParams =>
                   /\ o.params[1] = Last(logs').model \/ fromEnv
                   /\ o.params[2] = Updated(typed)
  <2>1. logs \in Seq(Logs) /\ Len(logs) \in Nat
    BY <1>1 DEF AwbInv, AwbTypeOK
  <2>2. AwbNext /\ ~UNCHANGED logs
    BY <1>1, <2>1 DEF awbVars
  <2> DEFINE Started == \E c \in Cmds : \E a \in LogArgs :
                           Run(Log(c, a)) /\ (c = "run" => a = "")
  <2>3. Started
    <3>1. ASSUME NEW c \in ModelCommands, ModelButton(c)
          PROVE  Started
      <4>1. Run(Log(c, "")) /\ c \in Cmds /\ "" \in LogArgs
        BY <3>1 DEF ModelButton, Cmds, LogArgs
      <4> QED
        BY <4>1
    <3>2. CASE SetupClicked \/ RunClicked
      <4>1. Run(Log("setup", "")) \/ Run(Log("run", ""))
        BY <3>2 DEF SetupClicked, RunClicked
      <4>2. {"setup", "run"} \subseteq Cmds /\ "" \in LogArgs
        BY DEF Cmds, LogArgs
      <4> QED
        BY <4>1, <4>2
    <3>3. CASE UpdateClicked
      <4>1. Run(Log("update", "all")) /\ "update" \in Cmds /\ "all" \in LogArgs
        BY <3>3 DEF UpdateClicked, Cmds, LogArgs
      <4> QED
        BY <4>1
    <3>4. CASE DeleteClicked \/ CheckoutClicked \/ CreateClicked
      <4>1. PICK c \in {"delete", "checkout", "create"}, a \in LogArgs : WaitFor(Log(c, a))
        BY <1>1, <3>4 DEF DeleteClicked, CheckoutClicked, CreateClicked, AwbInv, AwbTypeOK,
                          LogArgs
      <4>2. Run(Log(c, a)) /\ c \in Cmds /\ c # "run"
        BY <4>1 DEF WaitFor, Cmds
      <4> QED
        BY <4>2
    <3>5. CASE \E k \in 1..MaxClicks : ProcessExited(k) \/ KillClicked(k)
                                       \/ OkClicked(k) \/ WindowClosed(k)
      <4>1. Len(logs') = Len(logs)
        BY <2>1, <3>5 DEF ProcessExited, KillClicked, OkClicked, WindowClosed
      <4>2. FALSE
        BY <1>1, <2>1, <4>1
      <4> QED
        BY <4>2
    <3> HIDE DEF Started
    <3> QED
      BY <2>2, <3>1, <3>2, <3>3, <3>4, <3>5 DEF AwbNext, ModelListClicked,
         BenchmarkListClicked, ParamRefreshClicked, ParamUpdateClicked, RunOptionChanged,
         RefreshClicked, SwitchClicked, WaitReturns
  <2>4. PICK c \in Cmds, a \in LogArgs : Run(Log(c, a)) /\ (c = "run" => a = "")
    BY <2>3
  <2>5. PICK new \in {Log(c, a), NotStarted(Log(c, a))} : logs' = Append(logs, new)
    BY <2>4 DEF Run
  <2>6. Log(c, a) \in Logs /\ NotStarted(Log(c, a)) \in Logs /\ Log(c, a).cmd = c
    BY <1>1, LogType, NotStartedType DEF AwbInv
  <2>7. /\ new \in Logs /\ new.cmd = c /\ new.model = Log(c, a).model
        /\ new.options = Log(c, a).options
    BY <2>5, <2>6 DEF NotStarted, Logs
  <2>8. Last(logs') = new
    <3>1. Len(logs') = Len(logs) + 1 /\ logs'[Len(logs) + 1] = new
      BY <2>1, <2>5, <2>7, AppendProperties
    <3> QED
      BY <3>1 DEF Last
  <2>9. c = "run" /\ a = ""
    BY <1>1, <2>4, <2>7, <2>8
  <2>10. Log(c, a).model = model /\ Log(c, a).options = Switches(widgets, params)
    BY <2>9 DEF Log
  <2>11. params # NoParams => /\ params[2] = Updated(typed)
                              /\ params[1] = model \/ fromEnv
    BY <1>1 DEF AwbInv, ParamsInv
  <2> QED
    BY <2>7, <2>8, <2>10, <2>11 DEF Switches
<1> QED
  BY <1>1, AwbInitial, AwbStep, PTL DEF AwbSpec, TypedIsRun

-----------------------------------------------------------------------------
(***************************************************************************)
(* apm-edit: the model and its file.                                       *)
(***************************************************************************)

(* What a model can be: its root and the modules whose parameters are not  *)
(* the default are among its modules.                                      *)
Sound(c) ==
    /\ c.top = NoType \/ c.top \in DOMAIN c.mods
    /\ c.odd \subseteq DOMAIN c.mods
    /\ c.mods = [t \in DOMAIN c.mods |-> c.mods[t]]

IsModel(m) == m = [root |-> m.root, top |-> m.top, mods |-> m.mods, odd |-> m.odd]

FileInv ==
    /\ IsModel(apm) /\ Sound(apm)
    /\ \A f \in DOMAIN onDisk : Sound(onDisk[f]) /\ onDisk[f] = Contents(onDisk[f])
    /\ apmFile # NoFile => apmFile \in DOMAIN onDisk
    /\ UnmodifiedIsSaved

LEMMA ApmModelSound ==
    ASSUME NEW root, NEW top, NEW mods, NEW odd
    PROVE  /\ Sound(ApmModel(root, top, mods, odd))
           /\ IsModel(ApmModel(root, top, mods, odd))
           /\ ApmModel(root, top, mods, odd).mods = Only(mods, InModel(top, mods))
           /\ ApmModel(root, top, mods, odd).odd = odd \cap InModel(top, mods)
           /\ ApmModel(root, top, mods, odd).top
                = IF top \in InModel(top, mods) THEN top ELSE NoType
<1> DEFINE ts == InModel(top, mods)
           m  == Only(mods, ts)
           t0 == IF top \in ts THEN top ELSE NoType
<1>1. ts \subseteq DOMAIN mods
  BY DEF InModel
<1>2. ApmModel(root, top, mods, odd) = [root |-> root, top |-> t0, mods |-> m, odd |-> odd \cap ts]
  BY DEF ApmModel
<1>3. DOMAIN m = ts /\ m = [t \in DOMAIN m |-> m[t]]
  <2> HIDE DEF ts
  <2> QED
    BY <1>1 DEF Only, ts
<1> HIDE DEF ts, m
<1>4. t0 = NoType \/ t0 \in ts
  OBVIOUS
<1> HIDE DEF t0
<1> QED
  BY <1>2, <1>3, <1>4 DEF Sound, IsModel, t0, m, ts

(* What is read is what the file says, when no module is missing.          *)
LEMMA ReadContents ==
    ASSUME NEW c, Sound(c), c = Contents(c), DOMAIN Read(c).mods = DOMAIN c.mods
    PROVE  Contents(Read(c)) = c
<1> DEFINE mods == Only(c.mods, {t \in DOMAIN c.mods : c.mods[t] \in found})
           ts   == InModel(c.top, mods)
<1>1. PICK root : Read(c) = ApmModel(root, c.top, mods, c.odd)
  BY DEF Read
<1>2. /\ Read(c).mods = Only(mods, ts) /\ Read(c).odd = c.odd \cap ts
      /\ Read(c).top = IF c.top \in ts THEN c.top ELSE NoType
  BY <1>1, ApmModelSound
<1>3. /\ DOMAIN mods \subseteq DOMAIN c.mods
      /\ \A t \in DOMAIN mods : mods[t] = c.mods[t]
  BY DEF Only
<1> HIDE DEF mods, ts
<1>4. /\ DOMAIN Read(c).mods = DOMAIN mods \cap ts
      /\ Read(c).mods = [t \in DOMAIN mods \cap ts |-> mods[t]]
  BY <1>2 DEF Only
<1>5. DOMAIN mods \cap ts = DOMAIN c.mods
  BY <1>4
<1>6. Read(c).mods = [t \in DOMAIN c.mods |-> c.mods[t]]
  BY <1>3, <1>4, <1>5
<1>7. Read(c).mods = c.mods
  BY <1>6 DEF Sound
<1>8. Read(c).odd = c.odd /\ Read(c).top = c.top
  BY <1>2, <1>5 DEF Sound
<1>9. Contents(Read(c)) = [top |-> c.top, mods |-> c.mods, odd |-> c.odd]
  BY <1>7, <1>8 DEF Contents
<1> QED
  BY <1>9 DEF Contents

LEMMA FileInvInit == ApmInit => FileInv
BY ApmModelSound DEF ApmInit, Unnamed, FileInv, UnmodifiedIsSaved

LEMMA SavedKeepsFiles ==
    ASSUME FileInv, NEW f, Saved(f), UNCHANGED apm
    PROVE  FileInv'
<1>1. /\ DOMAIN onDisk' = {f} \cup DOMAIN onDisk
      /\ onDisk'[f] = Contents(apm)
      /\ \A g \in DOMAIN onDisk \ {f} : onDisk'[g] = onDisk[g]
  BY DEF Saved
<1>2. /\ Contents(apm).top = apm.top /\ Contents(apm).mods = apm.mods
      /\ Contents(apm).odd = apm.odd /\ Contents(Contents(apm)) = Contents(apm)
  BY DEF Contents
<1>3. Sound(Contents(apm))
  BY <1>2 DEF FileInv, Sound
<1>4. \A g \in DOMAIN onDisk' : Sound(onDisk'[g]) /\ onDisk'[g] = Contents(onDisk'[g])
  BY <1>1, <1>2, <1>3 DEF FileInv
<1>5. apmFile' = f
  BY DEF Saved
<1>6. IsModel(apm') /\ Sound(apm') /\ Contents(apm') = Contents(apm)
  BY DEF FileInv
<1> QED
  BY <1>1, <1>4, <1>5, <1>6 DEF FileInv, UnmodifiedIsSaved

LEMMA LoadedKeepsFiles ==
    ASSUME FileInv, NEW f, Loaded(onDisk[f]), apmFile' = f, UNCHANGED onDisk,
           f # NoFile => f \in DOMAIN onDisk
    PROVE  FileInv'
<1> DEFINE c == onDisk[f]
<1>1. apm' = Read(c) /\ (~lossy' => DOMAIN Read(c).mods = DOMAIN c.mods)
  BY DEF Loaded
<1>2. IsModel(Read(c)) /\ Sound(Read(c))
  BY ApmModelSound DEF Read
<1>3. f # NoFile => Sound(c) /\ c = Contents(c)
  BY DEF FileInv
<1>4. f # NoFile /\ ~lossy' => Contents(Read(c)) = c
  BY <1>1, <1>3, ReadContents
<1>5. Contents(apm') = Contents(Read(c))
  BY <1>1
<1>6. IsModel(apm') /\ Sound(apm')
  BY <1>1, <1>2
<1>7. onDisk'[apmFile'] = c
  OBVIOUS
<1>8. f # NoFile /\ ~lossy' => onDisk'[apmFile'] = Contents(apm')
  BY <1>4, <1>5, <1>7
<1>9. UnmodifiedIsSaved'
  BY <1>8 DEF UnmodifiedIsSaved
<1> QED
  BY <1>6, <1>9 DEF FileInv

(* The model is changed and counts as modified, or has no file.            *)
LEMMA ChangedKeepsFiles ==
    ASSUME FileInv, IsModel(apm') /\ Sound(apm'), UNCHANGED onDisk,
           (modified' /\ apmFile' = apmFile) \/ apmFile' = NoFile
    PROVE  FileInv'
BY DEF FileInv, UnmodifiedIsSaved

LEMMA KeptFiles ==
    ASSUME FileInv, UNCHANGED << apm, onDisk, apmFile, lossy >>,
           modified' \/ excused' \/ (UNCHANGED << modified, excused >>)
    PROVE  FileInv'
BY DEF FileInv, UnmodifiedIsSaved

(* What an insertion makes of the model is a model.                        *)
LEMMA InsertedIsModel ==
    ASSUME FileInv, NEW n, NEW asks \in BOOLEAN, Inserted(n, asks)
    PROVE  /\ IsModel(apm') /\ Sound(apm')
           /\ modified' \/ UNCHANGED << apm, modified >>
<1>1. CASE ~CanAdd(apm, n)
  BY <1>1 DEF Inserted, FileInv
<1>2. CASE CanAdd(apm, n)
  <2> DEFINE added == SmartAdd(apm, n)
             t     == Provides[n]
  <2>1. IsModel(added) /\ Sound(added)
    BY ApmModelSound DEF SmartAdd
  <2>2. modified' = TRUE /\ apm' \in {added, Defaulted(added, t)}
    BY <1>2 DEF Inserted
  <2> HIDE DEF added
  <2>3. /\ Defaulted(added, t).root = added.root /\ Defaulted(added, t).top = added.top
        /\ Defaulted(added, t).mods = added.mods
        /\ Defaulted(added, t).odd = added.odd \ ({t} \cup Below(t))
        /\ IsModel(Defaulted(added, t))
    BY <2>1 DEF Defaulted, IsModel
  <2>4. IsModel(Defaulted(added, t)) /\ Sound(Defaulted(added, t))
    BY <2>1, <2>3 DEF Sound
  <2> QED
    BY <2>1, <2>2, <2>4
<1> QED
  BY <1>1, <1>2

LEMMA FileInvStep == FileInv /\ [ApmNext]_apmVars => FileInv'
<1> SUFFICES ASSUME FileInv, [ApmNext]_apmVars
             PROVE  FileInv'
  OBVIOUS
<1>1. CASE \/ SelectionChanged \/ InsertRefused \/ NextMissing \/ WalkTo \/ WalkOn \/ WalkEnd
           \/ NotAsked \/ AnsweredCancel \/ OpenCancelled \/ Operated \/ FileExit
           \/ ItemSelected \/ FindMissing \/ AlternativeDoubleClicked \/ RefreshModels
           \/ AutoBuild \/ FileClicked \/ FileChanges \/ UNCHANGED apmVars
  <2>1. UNCHANGED << apm, onDisk, apmFile, lossy, modified, excused >>
    BY <1>1 DEF SelectionChanged, InsertRefused, NextMissing, WalkTo, WalkOn, WalkEnd,
       NotAsked, AnsweredCancel, OpenCancelled, Operated, FileExit, ItemSelected,
       FindMissing, AlternativeDoubleClicked, RefreshModels, AutoBuild, FileClicked,
       FileChanges, apmVars, Document, World
  <2> QED
    BY <2>1, KeptFiles
<1>2. CASE AnsweredNo
  <2>1. /\ UNCHANGED << apm, onDisk, apmFile, lossy >>
        /\ excused' \/ UNCHANGED << modified, excused >>
    BY <1>2 DEF AnsweredNo, World
  <2> QED
    BY <2>1, KeptFiles
<1>3. CASE AnsweredYes
  <2>1. CASE \E f \in SaveNames : Saved(f)
    <3>1. UNCHANGED apm
      BY <1>3 DEF AnsweredYes
    <3> QED
      BY <2>1, <3>1, SavedKeepsFiles
  <2>2. CASE UNCHANGED << onDisk, apmFile, modified, excused, lossy >>
    BY <1>3, <2>2, KeptFiles DEF AnsweredYes
  <2> QED
    BY <1>3, <2>1, <2>2 DEF AnsweredYes
<1>4. CASE SaveAsClicked
  BY <1>4, SavedKeepsFiles DEF SaveAsClicked
<1>5. CASE FileNew
  <2>1. IsModel(apm') /\ Sound(apm')
    BY <1>5, ApmModelSound DEF FileNew, Unnamed
  <2> QED
    BY <1>5, <2>1, ChangedKeepsFiles DEF FileNew, World
<1>6. CASE FileOpen
  <2>1. PICK f \in DOMAIN onDisk : Loaded(onDisk[f]) /\ apmFile' = f
    BY <1>6 DEF FileOpen
  <2>2. UNCHANGED onDisk
    BY <1>6 DEF FileOpen, World
  <2> QED
    BY <2>1, <2>2, LoadedKeepsFiles
<1>7. CASE HealthChecked
  <2>1. UNCHANGED << onDisk, apmFile >>
    BY <1>7 DEF HealthChecked, World
  <2>2. CASE UNCHANGED Document
    BY <2>1, <2>2, KeptFiles DEF Document
  <2>3. CASE Loaded(onDisk[apmFile])
    <3>1. apmFile # NoFile => apmFile \in DOMAIN onDisk
      BY DEF FileInv
    <3> QED
      BY <2>1, <2>3, <3>1, LoadedKeepsFiles
  <2> QED
    BY <1>7, <2>2, <2>3 DEF HealthChecked
<1>8. CASE InsertDone \/ SubmodelInserted
  <2>1. /\ \E n : Inserted(n, TRUE) \/ Inserted(n, FALSE)
        /\ UNCHANGED << onDisk, apmFile, excused, lossy >>
    BY <1>8 DEF InsertDone, SubmodelInserted, World
  <2>2. /\ IsModel(apm') /\ Sound(apm')
        /\ modified' \/ UNCHANGED << apm, modified >>
    BY <2>1, InsertedIsModel
  <2> QED
    BY <2>1, <2>2, ChangedKeepsFiles, KeptFiles
<1>9. CASE ModuleDeleted
  <2>1. IsModel(apm') /\ Sound(apm') /\ modified'
    BY <1>9, ApmModelSound DEF ModuleDeleted, Removed
  <2> QED
    BY <1>9, <2>1, ChangedKeepsFiles DEF ModuleDeleted, World
<1>10. CASE InsertAsRoot
  <2>1. UNCHANGED << onDisk, apmFile, excused, lossy >>
    BY <1>10 DEF InsertAsRoot, World
  <2>2. CASE UNCHANGED << apm, modified >>
    BY <2>1, <2>2, KeptFiles
  <2>3. CASE apm' = NewRoot(sel) /\ modified' = TRUE
    <3>1. IsModel(apm') /\ Sound(apm')
      BY <2>3, ApmModelSound DEF NewRoot
    <3> QED
      BY <2>1, <2>3, <3>1, ChangedKeepsFiles
  <2> QED
    BY <1>10, <2>2, <2>3 DEF InsertAsRoot
<1>11. CASE ParamChanged
  <2>1. sel \in DOMAIN apm.mods /\ modified' /\ UNCHANGED << onDisk, apmFile >>
    BY <1>11 DEF ParamChanged, World
  <2>2. PICK odd \in {apm.odd \cup {sel}, apm.odd \ {sel}} : apm' = [apm EXCEPT !.odd = odd]
    BY <1>11 DEF ParamChanged
  <2>3. /\ apm'.mods = apm.mods /\ apm'.top = apm.top /\ apm'.odd = odd
        /\ IsModel(apm')
    BY <2>2 DEF FileInv, IsModel
  <2>4. Sound(apm')
    BY <2>1, <2>2, <2>3 DEF FileInv, Sound
  <2> QED
    BY <2>1, <2>3, <2>4, ChangedKeepsFiles
<1>12. CASE PropertiesOk
  <2>1. PICK t \in RootTypes : apm' = [apm EXCEPT !.root = t]
    BY <1>12 DEF PropertiesOk
  <2>2. /\ apm'.mods = apm.mods /\ apm'.top = apm.top /\ apm'.odd = apm.odd
        /\ IsModel(apm')
    BY <2>1 DEF FileInv, IsModel
  <2>3. Sound(apm') /\ Contents(apm') = Contents(apm)
    BY <2>2 DEF FileInv, Sound, Contents
  <2>4. /\ UNCHANGED << onDisk, apmFile, excused, lossy >>
        /\ modified' \in {modified, TRUE}
    BY <1>12 DEF PropertiesOk, World
  <2> QED
    BY <2>2, <2>3, <2>4 DEF FileInv, UnmodifiedIsSaved
<1> QED
  BY <1>1, <1>2, <1>3, <1>4, <1>5, <1>6, <1>7, <1>8, <1>9, <1>10, <1>11, <1>12
     DEF ApmNext, Step

(* A model that apm-edit does not count as modified is what its file says, *)
(* whatever was inserted, removed, opened again or answered since; only a  *)
(* user who said not to save, or modules that were missing, excuse it.     *)
THEOREM ModelIsSaved == ApmSpec => []UnmodifiedIsSaved
<1>1. FileInv => UnmodifiedIsSaved
  BY DEF FileInv
<1> QED
  BY <1>1, FileInvInit, FileInvStep, PTL DEF ApmSpec

-----------------------------------------------------------------------------
(***************************************************************************)
(* apm-find-replace: what the lines of the log lead to.                    *)
(***************************************************************************)

(* A nonempty set of numbers up to some number has a greatest element: of  *)
(* the intervals from one of them to that number, one is the smallest.     *)
LEMMA GreatestNumber ==
    ASSUME NEW N \in Nat, NEW T \in SUBSET (1..N), T # {}
    PROVE  \E n \in T : \A m \in T : m <= n
<1> DEFINE S == 1..N
           F == {n..N : n \in T}
<1>1. IsFiniteSet(S)
  BY FS_Interval
<1>2. F # {} /\ F \subseteq SUBSET S
  <2>1. \A n \in T : n \in Nat /\ n > 0
    OBVIOUS
  <2>2. \A n \in T : n..N \subseteq S
    BY <2>1
  <2> QED
    BY <2>2
<1>3. PICK X \in F : \A Y \in F : <<Y, X>> \notin StrictSubsetOrdering(S)
  <2> DEFINE R == StrictSubsetOrdering(S)
             D == SUBSET S
  <2>1. IsWellFoundedOn(R, D)
    BY <1>1, FS_FiniteSubsetsOfFinite, FS_StrictSubsetOrderingWellFounded
  <2> HIDE DEF F, S, R, D
  <2>2. F \subseteq D /\ F # {}
    BY <1>2 DEF D
  <2>3. \E X \in F : \A Y \in F : ~(<<Y, X>> \in R)
    BY <2>1, <2>2, WFMin
  <2> QED
    BY <2>3 DEF R
<1>4. PICK n \in T : X = n..N
  OBVIOUS
<1>5. ASSUME NEW m \in T, m > n
      PROVE  FALSE
  <2>1. m..N \in F /\ m..N # n..N /\ m..N \subseteq n..N
    BY <1>4, <1>5
  <2> QED
    BY <1>2, <1>3, <1>4, <2>1 DEF StrictSubsetOrdering
<1> QED
  BY <1>5

Saving == {"Processed", "Renamed"}

(* A line leads to a model that was selected when something was done, and  *)
(* what was changed has a line that leads to it, by which it is saved.     *)
LogInv ==
    /\ inList \subseteq FrModels /\ chosen \subseteq FrModels /\ touched \subseteq FrModels
    /\ frLog \subseteq DOMAIN lineOf
    /\ \A l \in DOMAIN lineOf : lineOf[l] \in operated
    /\ \A f \in touched : \E l \in frLog : l[1] \in Saving /\ lineOf[l] = f

LEMMA LastWithChosen ==
    ASSUME chosen \subseteq FrModels, NEW f \in chosen
    PROVE  LastWith(Renamed(f)) \in chosen
<1> DEFINE line == Renamed(f)
           T == {g \in chosen : Renamed(g) = line}
<1>1. T \in SUBSET (1..FrCount) /\ T # {}
  BY DEF FrModels
<1>2. PICK n \in T : \A m \in T : m <= n
  <2> HIDE DEF T
  <2> QED
    BY <1>1, GreatestNumber, ModelListAssumption
<1>3. n \in chosen /\ Renamed(n) = line /\ \A g \in chosen : Renamed(g) = line => g <= n
  BY <1>2
<1> HIDE DEF line
<1> QED
  BY <1>3 DEF LastWith, line

LEMMA LinesOf ==
    ASSUME NEW f
    PROVE  /\ Processed(f)[1] \in Saving /\ Processed(f)[2] = f
           /\ Failed(f)[2] = f
BY DEF Processed, Failed, Saving

LEMMA LogInvInit == FrInit => LogInv
BY DEF FrInit, LogInv

LEMMA LogInvStep == LogInv /\ [FrNext]_frVars => LogInv'
<1> SUFFICES ASSUME LogInv, [FrNext]_frVars
             PROVE  LogInv'
  OBVIOUS
<1>1. CASE FrFind
  <2>1. /\ inList' \subseteq FrModels /\ chosen' = {} /\ touched' = {}
        /\ frLog' = {} /\ DOMAIN lineOf' = {}
    BY <1>1 DEF FrFind
  <2> QED
    BY <2>1 DEF LogInv
<1>2. CASE \/ FindTypeChosen \/ SelectAll \/ Purge \/ ReplaceTypeChosen
           \/ \E m \in Replacements : ModulePicked(m)
           \/ \E bad \in {{}} \cup {{f} : f \in FrModels} : SaveWorks(FrModels \ bad)
           \/ UNCHANGED frVars
  <2>1. /\ UNCHANGED << frLog, lineOf, touched, operated >>
        /\ inList' \subseteq FrModels /\ chosen' \subseteq FrModels
    BY <1>2 DEF FindTypeChosen, SelectAll, Purge, ReplaceTypeChosen, ModulePicked,
                SaveWorks, frVars, LogInv
  <2> QED
    BY <2>1 DEF LogInv
<1>3. CASE Filter
  <2>1. /\ UNCHANGED << inList, frLog, lineOf, touched, operated >>
        /\ \E match : \E mode \in {"select", "add", "remove"} : \E invert \in BOOLEAN :
              UpdateModelSelection(match, mode, invert)
    BY <1>3 DEF Filter
  <2>2. chosen' \subseteq FrModels
    BY <2>1 DEF UpdateModelSelection, LogInv
  <2> QED
    BY <2>1, <2>2 DEF LogInv
<1>4. CASE ClearLog
  BY <1>4 DEF ClearLog, LogInv
<1>5. CASE Replace
  <2>1. CASE pick = NoPick
    BY <1>5, <2>1 DEF Replace, LogInv
  <2>2. CASE pick # NoPick
    <3> DEFINE done == chosen \ Lacking
    <3>1. /\ frLog' = {Processed(f) : f \in done} \cup {Failed(f) : f \in chosen \ done}
          /\ lineOf' = [l \in DOMAIN lineOf \cup frLog' |->
                           IF l \in frLog' THEN l[2] ELSE lineOf[l]]
          /\ touched' = done /\ operated' = operated \cup chosen
          /\ UNCHANGED << inList, chosen >>
      BY <1>5, <2>2 DEF Replace, IsSelected
    <3>2. \A l \in frLog' : l[2] \in chosen
      BY <3>1, LinesOf
    <3>3. \A f \in touched' : Processed(f) \in frLog' /\ Processed(f)[1] \in Saving
                              /\ Processed(f)[2] = f
      BY <3>1, LinesOf
    <3>4. \A f \in touched' : \E l \in frLog' : l[1] \in Saving /\ lineOf'[l] = f
      BY <3>1, <3>3
    <3>5. \A l \in DOMAIN lineOf' : lineOf'[l] \in operated'
      BY <3>1, <3>2 DEF LogInv
    <3> QED
      BY <3>1, <3>4, <3>5 DEF LogInv
  <2> QED
    BY <2>1, <2>2
<1>6. CASE RenameModels
  <2>1. /\ frLog' = {Renamed(f) : f \in chosen}
        /\ lineOf' = [l \in DOMAIN lineOf \cup frLog' |->
                         IF l \in frLog' THEN LastWith(l) ELSE lineOf[l]]
        /\ touched' = {f \in chosen : LastWith(Renamed(f)) = f}
        /\ operated' = operated \cup chosen
        /\ UNCHANGED << inList, chosen >>
    BY <1>6 DEF RenameModels
  <2>2. \A l \in frLog' : LastWith(l) \in chosen
    BY <2>1, LastWithChosen DEF LogInv
  <2>3. \A f \in touched' : Renamed(f) \in frLog' /\ Renamed(f)[1] \in Saving
                            /\ LastWith(Renamed(f)) = f
    BY <2>1 DEF Renamed, Saving
  <2>4. \A f \in touched' : \E l \in frLog' : l[1] \in Saving /\ lineOf'[l] = f
    BY <2>1, <2>3
  <2>5. \A l \in DOMAIN lineOf' : lineOf'[l] \in operated'
    BY <2>1, <2>2 DEF LogInv
  <2> QED
    BY <2>1, <2>4, <2>5 DEF LogInv
<1>7. ASSUME NEW v, ReplaceParam(v)
      PROVE  LogInv'
  <2>1. PICK done, new :
           /\ done \subseteq chosen /\ new \subseteq done
           /\ frLog' = {Processed(f) : f \in new} \cup {Failed(f) : f \in done \ new}
           /\ lineOf' = [l \in DOMAIN lineOf \cup frLog' |->
                            IF l \in frLog' THEN l[2] ELSE lineOf[l]]
           /\ touched' = new /\ operated' = operated \cup chosen
           /\ UNCHANGED << inList, chosen >>
    <3> DEFINE done == {f \in IsSelected : \A g \in IsSelected \cap Lacking : f < g}
               new  == {f \in done : frMem[f].param # v}
    <3>1. /\ done \subseteq chosen /\ new \subseteq done
          /\ frLog' = {Processed(f) : f \in new} \cup {Failed(f) : f \in done \ new}
          /\ lineOf' = [l \in DOMAIN lineOf \cup frLog' |->
                           IF l \in frLog' THEN l[2] ELSE lineOf[l]]
          /\ touched' = new /\ operated' = operated \cup chosen
          /\ UNCHANGED << inList, chosen >>
      BY <1>7 DEF ReplaceParam, IsSelected
    <3> HIDE DEF done, new
    <3> QED
      BY <3>1
  <2>2. \A l \in frLog' : l[2] \in chosen
    BY <2>1, LinesOf
  <2>3. \A f \in touched' : Processed(f) \in frLog' /\ Processed(f)[1] \in Saving
                            /\ Processed(f)[2] = f
    BY <2>1, LinesOf
  <2>4. \A f \in touched' : \E l \in frLog' : l[1] \in Saving /\ lineOf'[l] = f
    BY <2>1, <2>3
  <2>5. \A l \in DOMAIN lineOf' : lineOf'[l] \in operated'
    BY <2>1, <2>2 DEF LogInv
  <2> QED
    BY <2>1, <2>4, <2>5 DEF LogInv
<1> QED
  BY <1>1, <1>2, <1>3, <1>4, <1>5, <1>6, <1>7 DEF FrNext

(* Save writes what the last operation has changed, and no model that was  *)
(* not selected when something was done, whatever was searched for,        *)
(* filtered, purged or cleared in between, and whatever lines were left in *)
(* the map by earlier operations.                                          *)
THEOREM FindReplaceSaves == FrSpec => SavesWhatChanged
<1>1. LogInv /\ [FrNext]_frVars
          => (SaveWorks(FrModels) => \A f \in touched : frDisk'[f] = frMem[f])
  <2> SUFFICES ASSUME LogInv, SaveWorks(FrModels), NEW f \in touched
               PROVE  frDisk'[f] = frMem[f]
    OBVIOUS
  <2>1. f \in FrModels /\ f \in ToSave
    BY DEF LogInv, ToSave, Saving
  <2> QED
    BY <2>1 DEF SaveWorks
<1>2. LogInv /\ [FrNext]_frVars
          => \A f \in FrModels : frDisk'[f] # frDisk[f] => f \in operated
  <2> SUFFICES ASSUME LogInv, [FrNext]_frVars, NEW f \in FrModels, frDisk'[f] # frDisk[f]
               PROVE  f \in operated
    OBVIOUS
  <2>1. PICK good : SaveWorks(good)
    BY DEF FrNext, FrFind, FindTypeChosen, Filter, SelectAll, Purge, ReplaceTypeChosen,
           ModulePicked, Replace, RenameModels, ReplaceParam, ClearLog, frVars
  <2>2. f \in ToSave
    BY <2>1 DEF SaveWorks
  <2> QED
    BY <2>2 DEF ToSave, LogInv
<1>3. FrSpec => ChangedIsSaved
  BY <1>1, LogInvInit, LogInvStep, PTL DEF FrSpec, ChangedIsSaved
<1>4. FrSpec => OnlySelectedWritten
  BY <1>2, LogInvInit, LogInvStep, PTL DEF FrSpec, OnlySelectedWritten
<1> QED
  BY <1>3, <1>4 DEF SavesWhatChanged
=============================================================================
