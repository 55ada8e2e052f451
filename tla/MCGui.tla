------------------------------- MODULE MCGui --------------------------------
(***************************************************************************)
(* The windows, for TLC: awb, apm-edit and apm-find-replace.  They are     *)
(* processes of their own, so that each is checked while the others rest:  *)
(* the state graph is their sum and not their product.                     *)
(***************************************************************************)
EXTENDS AwbDialog, ApmEdit, FindReplace

AllTyped == {"5", "0"}

(* awb has just started, or a model and a benchmark are selected and the   *)
(* parameters have been listed.                                            *)
Selected ==
    /\ clicks = 0
    /\ ws \in AwbWorkspaces
    /\ pkgs = [w \in AwbWorkspaces |-> {}]
    /\ paths = {} /\ listed = {}
    /\ AWB_MODEL \in {{}, {"m"}} /\ fromEnv = FALSE
    /\ model = << ws, "m" >> /\ benchmark = TRUE /\ shownModel = model
    /\ canBuild = TRUE /\ canRun = TRUE
    /\ params = << model, Default >> /\ typed = Default
    /\ widgets = "none" /\ runSwitches = Switches("none", NoParams)
    /\ logs = << >> /\ waits = << >>

-----------------------------------------------------------------------------
(* A model, its core and a cache, with a second module for the model (a    *)
(* template) and the core (obsolete), and a submodel for the core.  Auto   *)
(* build inserts a core and then the cache that this core requires; for    *)
(* the model no module is better than the other.                           *)
ApmOrder  == << "project", "model", "core", "cache" >>
ApmParent == [t \in Range(ApmOrder) |->
                 CASE t = "core" -> "model" [] t = "cache" -> "core" [] OTHER -> "no type"]
Provided  == [m1 |-> "model", m2 |-> "model", c1 |-> "core", c2 |-> "core",
              s |-> "core", k |-> "cache"]
Required  == [m1 |-> {"core"}, m2 |-> {"core"}, c1 |-> {"cache"}, c2 |-> {},
              s |-> {}, k |-> {}]
InnerOf   == [s |-> [core |-> "c2"]]
Scores    == [m1 |-> 1, m2 |-> 1, c1 |-> 2, c2 |-> 1, s |-> 1, k |-> 0]

FullModel    == ApmModel("model", "model", [model |-> "m1", core |-> "c1", cache |-> "k"],
                         {"cache"})
WithSubmodel == ApmModel("model", "model", [model |-> "m1", core |-> "s"], {})
WithoutCore  == ApmModel("model", "model", [model |-> "m1"], {})

(* apm-edit has just started, or a model has been opened.                  *)
Opened ==
    /\ edits = 0
    /\ found = Names /\ db = Names
    /\ apm \in {FullModel, WithSubmodel, WithoutCore}
    /\ onDisk = ("f" :> Contents(apm)) @@ ("g" :> Contents(FullModel)) /\ apmFile = "f"
    /\ modified = FALSE /\ excused = FALSE /\ lossy = FALSE
    /\ autoselect = FALSE /\ previousAuto = FALSE
    /\ tree = ModelShow(apm) /\ sel = RootType /\ astray = FALSE
    /\ todo = << >> /\ refused = {} /\ startSel = NoType

-----------------------------------------------------------------------------
(* Three models, two of them with the same name, of which one has no place *)
(* for the module.                                                         *)
FrNames  == << "a", "a", "b" >>
Renaming == [a |-> "c", b |-> "b", c |-> "c"]

-----------------------------------------------------------------------------
VARIABLE active   \* which window is used

(* The workspaces are alike: awb starts in one of them.  $AWB_MODEL names  *)
(* a model that parses where one has been selected, and one that does not  *)
(* where awb has just started.                                             *)
InFirst  == ws = CHOOSE w \in AwbWorkspaces : TRUE
Started  == AwbInit /\ InFirst /\ (AWB_MODEL = {} \/ AWB_MODEL = BadModels)
AwbRests == Started /\ AWB_MODEL = {}

EditInit == active = "apm-edit" /\ (ApmInit \/ Opened) /\ AwbRests /\ FrInit

Init == \/ active = "awb" /\ (Started \/ (Selected /\ InFirst)) /\ ApmInit /\ FrInit
        \/ EditInit
        \/ active = "apm-find-replace" /\ AwbRests /\ ApmInit /\ FrInit

Next == /\ \/ active = "awb" /\ AwbNext /\ UNCHANGED << apmVars, frVars >>
           \/ active = "apm-edit" /\ ApmNext /\ UNCHANGED << awbVars, frVars >>
           \/ active = "apm-find-replace" /\ FrNext /\ UNCHANGED << awbVars, apmVars >>
        /\ UNCHANGED active

Spec == /\ Init /\ [][Next]_<< awbVars, apmVars, frVars, active >>
        /\ AwbFairness /\ ApmFairness

(* A window that has begun something comes to an end of it: a handler of   *)
(* awb that waits for a command goes on, and selecting and inserting in    *)
(* apm-edit do not call each other for ever (waitForCommand, autoBuild).   *)
WindowsComeToRest == WaitsEnd /\ HandlersEnd
=============================================================================
