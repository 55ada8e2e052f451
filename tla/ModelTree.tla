----------------------------- MODULE ModelTree ------------------------------
(***************************************************************************)
(* Reading a model file (.apm) into a tree of module instances:            *)
(* Model::Parse, its recursion over the required modules, and              *)
(* ModuleInstance.  The recursion is a stack of frames; what a call        *)
(* returned is kept in "ret" until its caller takes it.                    *)
(*                                                                         *)
(* A model file is [head, root, groups]: whether its global part is in     *)
(* order, the group of its root module, and per group the file, the group  *)
(* chosen for each required type and the values of parameters.  A module   *)
(* file is what Module::Parse yields.                                      *)
(***************************************************************************)
EXTENDS Integers, Sequences, SequencesExt

CONSTANTS
    Disks,     \* what the model files may be, functions from their names
    Awb,       \* the module files that parse, a function from their names
    Models,    \* the models that may be asked for, names of model files
    MaxDepth   \* bound: the depth at which the stack is exhausted

ASSUME DepthAssumption == MaxDepth \in Nat \ {0}

VARIABLES
    apms,     \* the model files
    step,     \* "idle", "parsing", "parsed", "refused" or "overflow"
    frames,   \* the calls of ParseModuleInstance, the innermost last
    ret,      \* what the last call returned: Pending, Null or an instance
    nodes,    \* the instances made so far, numbered
    root      \* rootModule

treeVars == << apms, step, frames, ret, nodes, root >>

Pending == -1
Null    == 0

Top      == frames[Len(frames)]
Group(f) == apms[f.apm].groups[f.group]
File(f)  == IF f.group \in DOMAIN apms[f.apm].groups THEN Group(f).file ELSE ""

Module(n)   == Awb[nodes[n].file]
Provides(n) == Module(n).provides
Requires(n) == Module(n).requires

TreeInit ==
    /\ apms \in Disks
    /\ step = "idle"
    /\ frames = << >>
    /\ ret = Pending
    /\ nodes = << >>
    /\ root = Null

Frame(apm, group) == [apm |-> apm, group |-> group, node |-> Null, idx |-> 1]

(* Model::Parse: the suffix, the version and the name in the file have to  *)
(* be right.                                                               *)
ModelParse(apm) ==
    /\ step = "idle"
    /\ IF apms[apm].head = "ok"
       THEN /\ step' = "parsing"
            /\ frames' = << Frame(apm, apms[apm].root) >>
       ELSE /\ step' = "refused"
            /\ UNCHANGED frames
    /\ UNCHANGED << apms, ret, nodes, root >>

Return(value) ==
    /\ frames' = Front(frames)
    /\ ret' = value

-----------------------------------------------------------------------------
(* Parameters start with the value of the module file; the group's values  *)
(* replace it, whatever the mutability of the parameter.  A string has to  *)
(* be quoted.                                                              *)
SetByModel(f, p) == p.name \in DOMAIN Group(f).params

SetValue(f, p) ==
    IF SetByModel(f, p)
    THEN [name |-> p.name, value |-> Group(f).params[p.name].value,
          source |-> "Model"]
    ELSE [name |-> p.name, value |-> p.default, source |-> "Module"]

LacksQuotes(f, p) ==
    SetByModel(f, p) /\ p.string /\ ~Group(f).params[p.name].quoted

Instance(f) ==
    LET m == Awb[File(f)] IN
    [file   |-> File(f),
     group  |-> f.group,
     params |-> [k \in DOMAIN m.params |-> SetValue(f, m.params[k])],
     subs   |-> [k \in DOMAIN m.requires |-> Null]]

Entering == step = "parsing" /\ frames # << >> /\ ret = Pending /\ Top.node = Null

Call(frame) ==
    /\ IF Len(frames) = MaxDepth
       THEN step' = "overflow" /\ UNCHANGED frames
       ELSE frames' = Append(frames, frame) /\ UNCHANGED step
    /\ UNCHANGED ret

(* A group may name a model file: its root module stands for it.           *)
EnterSubmodel ==
    /\ Entering
    /\ File(Top) \in DOMAIN apms
    /\ IF apms[File(Top)].head # "ok"
       THEN Return(Null) /\ UNCHANGED step
       ELSE Call(Frame(File(Top), apms[File(Top)].root))
    /\ UNCHANGED << apms, nodes, root >>

SubmodelParsed ==
    /\ step = "parsing" /\ frames # << >> /\ Top.node = Null /\ ret # Pending
    /\ Return(ret)
    /\ UNCHANGED << apms, step, nodes, root >>

EnterModule ==
    /\ Entering
    /\ File(Top) \in DOMAIN Awb
    /\ nodes' = Append(nodes, Instance(Top))
    /\ IF \E k \in DOMAIN Awb[File(Top)].params :
              LacksQuotes(Top, Awb[File(Top)].params[k])
       THEN Return(Null)
       ELSE /\ frames' = [frames EXCEPT ![Len(frames)].node = Len(nodes) + 1]
            /\ UNCHANGED ret
    /\ UNCHANGED << apms, step, root >>

EnterUnknown ==
    /\ Entering
    /\ File(Top) \notin DOMAIN apms \cup DOMAIN Awb
    /\ Return(Null)
    /\ UNCHANGED << apms, step, nodes, root >>

-----------------------------------------------------------------------------
(* The loop over the required types.                                       *)
Looping == step = "parsing" /\ frames # << >> /\ Top.node # Null

Wanted     == Requires(Top.node)[Top.idx]
ChosenName == IF Wanted \in DOMAIN Group(Top).requires
              THEN Group(Top).requires[Wanted] ELSE ""
NextIdx    == [frames EXCEPT ![Len(frames)].idx = @ + 1]

NotChosen ==
    /\ Looping /\ ret = Pending
    /\ Top.idx <= Len(Requires(Top.node))
    /\ ChosenName = ""
    /\ frames' = NextIdx
    /\ UNCHANGED << apms, step, ret, nodes, root >>

Descend ==
    /\ Looping /\ ret = Pending
    /\ Top.idx <= Len(Requires(Top.node))
    /\ ChosenName # ""
    /\ Call(Frame(Top.apm, ChosenName))
    /\ UNCHANGED << apms, nodes, root >>

SetSubModuleUnchecked ==   \* faulty variant: whatever it provides
    /\ Looping /\ ret # Pending
    /\ nodes' = [nodes EXCEPT ![Top.node].subs[Top.idx] = ret]
    /\ frames' = NextIdx
    /\ ret' = Pending
    /\ UNCHANGED << apms, step, root >>

SetSubModule ==
    /\ Looping /\ ret # Pending
    /\ nodes' = [nodes EXCEPT ![Top.node].subs[Top.idx] =
                    IF ret # Null /\ Provides(ret) = Wanted THEN ret ELSE Null]
    /\ frames' = NextIdx
    /\ ret' = Pending
    /\ UNCHANGED << apms, step, root >>

LoopDoneForgets ==   \* faulty variant: the type after the last one is awaited
    /\ Looping /\ ret = Pending
    /\ Top.idx > Len(Requires(Top.node)) + 1
    /\ Return(Top.node)
    /\ UNCHANGED << apms, step, nodes, root >>

LoopDone ==
    /\ Looping /\ ret = Pending
    /\ Top.idx > Len(Requires(Top.node))
    /\ Return(Top.node)
    /\ UNCHANGED << apms, step, nodes, root >>

(* Model::Parse succeeds also when there is no root module.                *)
SetRootModule ==
    /\ step = "parsing" /\ frames = << >>
    /\ root' = ret
    /\ step' = "parsed"
    /\ UNCHANGED << apms, frames, ret, nodes >>

ParseStep ==
    \/ EnterSubmodel \/ SubmodelParsed \/ EnterModule \/ EnterUnknown
    \/ NotChosen \/ Descend \/ SetSubModule \/ LoopDone \/ SetRootModule

TreeNext == (\E apm \in Models : ModelParse(apm)) \/ ParseStep

TreeSpec == TreeInit /\ [][TreeNext]_treeVars /\ WF_treeVars(ParseStep)

-----------------------------------------------------------------------------
(* ModuleInstance::IsComplete over the whole subtree; a tree is no deeper  *)
(* than it has instances.                                                  *)
Subs(n) == ToSet(nodes[n].subs) \ {Null}

Below ==
    LET levels[k \in Nat] ==
            IF k = 0 THEN {root} \ {Null}
            ELSE levels[k - 1] \cup UNION {Subs(n) : n \in levels[k - 1]}
    IN  levels[Len(nodes)]

Complete(n) ==
    \A k \in DOMAIN Requires(n) :
        nodes[n].subs[k] # Null /\ Provides(nodes[n].subs[k]) = Requires(n)[k]

IsComplete == \A n \in Below : Complete(n)

-----------------------------------------------------------------------------
(* No instance ever stands where a module of another type is required,     *)
(* although groups name each other freely.                                 *)
WrongNeverAttached ==
    \A n \in DOMAIN nodes : \A k \in DOMAIN nodes[n].subs :
        nodes[n].subs[k] # Null => Provides(nodes[n].subs[k]) = Requires(n)[k]

(* The instances form a tree, also when a group is chosen for two types or *)
(* a submodel is used twice: the destructor of an instance destroys what   *)
(* is below it, so a shared one would be destroyed twice.  What is below   *)
(* an instance was made after it, so there is no circle either.            *)
Places == UNION {{<< n, k >> : k \in DOMAIN nodes[n].subs} : n \in DOMAIN nodes}

NoSharing ==
    /\ \A p, q \in Places :
          /\ nodes[p[1]].subs[p[2]] # Null
          /\ nodes[p[1]].subs[p[2]] = nodes[q[1]].subs[q[2]]
          => p = q
    /\ \A p \in Places :
          nodes[p[1]].subs[p[2]] # Null => p[1] < nodes[p[1]].subs[p[2]]

(* What Model::Parse attaches is what was required, in one place.          *)
TreeOfWanted == WrongNeverAttached /\ NoSharing

(* Parsing ends: in an answer, or, only when groups require each other in  *)
(* a circle, with the stack.                                               *)
Circular ==
    \E i, j \in DOMAIN frames :
        i < j /\ frames[i].apm = frames[j].apm /\ frames[i].group = frames[j].group

ParsingEnds ==
    step = "parsing" ~>
        step \in {"parsed", "refused"} \/ (step = "overflow" /\ Circular)
=============================================================================
