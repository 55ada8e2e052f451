---------------------------- MODULE ModelBuilder ----------------------------
(***************************************************************************)
(* Configuring a build tree from a parsed model (ModelBuilder): links to   *)
(* the sources of the base directory and of every module, the generated    *)
(* headers, the file of dynamic parameters and the Makefiles.              *)
(*                                                                         *)
(* A source file of a module is [src, tail, kind]: where it is in the      *)
(* source tree, its base name and what its extension makes of it.  A       *)
(* destination is a sequence of names below the build directory.           *)
(***************************************************************************)
EXTENDS ModelTree, FiniteSets

CONSTANTS
    SourceTree,    \* the files and directories there are
    TooDeep,       \* those behind more symbolic links than are followed
    BaseFiles,     \* the files of the base directory
    MaxConfigures  \* bound: how often the tree is configured

ASSUME ConfiguresAssumption == MaxConfigures \in Nat

VARIABLES
    phase,         \* what CreateBuildTree does: "idle" before the first time
    todo,          \* the calls of the recursion over the modules still to come
    tree,          \* the build tree, a function of destinations
    changed,       \* history: source files that were written to
    makefile,      \* what is collected for the Makefiles
    dynamicParams, \* the dynamic parameters met so far
    simConfig,     \* the instances registered in sim_config.h
    persist,       \* whether files are hard links
    configures     \* history: how often CreateBuildTree was called

builderVars == << phase, todo, tree, changed, makefile, dynamicParams,
                  simConfig, persist, configures >>

NoReplacement == [BUILDROOT |-> << >>, TARGET |-> << >>]

NoMakefile ==
    [srcs |-> << >>, objs |-> << >>, incs |-> << >>, vpath |-> << >>,
     subDirs |-> << >>, subTargets |-> << >>, localLibs |-> << >>,
     localIncs |-> << >>, commonLibs |-> << >>, replace |-> NoReplacement]

BuilderInit ==
    /\ phase = "idle"
    /\ todo = << >>
    /\ tree = << >>
    /\ changed = {}
    /\ makefile = NoMakefile
    /\ dynamicParams = << >>
    /\ simConfig = {}
    /\ persist = FALSE
    /\ configures = 0

Idle == phase \in {"idle", "done", "failed"}

(* makefile.clear() leaves the subdirectories and their targets.           *)
Cleared(mk) ==
    [NoMakefile EXCEPT !.subDirs = mk.subDirs, !.subTargets = mk.subTargets]

CreateBuildTree(p) ==
    /\ step = "parsed" /\ Idle /\ configures < MaxConfigures
    /\ configures' = configures + 1
    /\ persist' = p
    /\ makefile' = Cleared(makefile)
    /\ dynamicParams' = << >>
    /\ phase' = "base"
    /\ UNCHANGED << treeVars, todo, tree, changed, simConfig >>

NukeBuildTree ==
    /\ step = "parsed" /\ Idle
    /\ tree' = << >>
    /\ phase' = "idle"
    /\ UNCHANGED << treeVars, todo, changed, makefile, dynamicParams, simConfig,
                    persist, configures >>

-----------------------------------------------------------------------------
(* MakePath: where a file goes in the build tree.                          *)
MakePath(kind, short, tail) ==
    CASE kind \in {"source", "dox", "raw"} -> << "src" >> \o short \o << tail >>
      [] kind = "public"      -> << "include", tail >>
      [] kind = "synthesized" -> << "include", "asim", "provides", tail >>
      [] kind = "restricted"  -> << "include", "asim", "restricted", tail >>
      [] kind = "base"        -> << "include", "asim", tail >>

Put(t, dest, entry) ==
    [d \in DOMAIN t \cup {dest} |-> IF d = dest THEN entry ELSE t[d]]
Drop(t, dest) == [d \in DOMAIN t \ {dest} |-> t[d]]

(* CopyFileToBuildTree of a file that exists.  What was at the destination *)
(* is gone; a file behind too many links is not hard linked.               *)
Copied(t, src, dest) ==
    IF persist /\ src \in TooDeep THEN Drop(t, dest)
    ELSE Put(t, dest, [kind |-> IF persist THEN "hard" ELSE "symlink",
                       src |-> src, holds |-> << >>])

(* A generated file is opened for writing: through a link it is the source *)
(* that is overwritten.                                                    *)
Through(t, dest) == dest \in DOMAIN t /\ t[dest].kind # "own"

Written(t, dest, holds) ==
    IF Through(t, dest) THEN t
    ELSE Put(t, dest, [kind |-> "own", src |-> "", holds |-> holds])

Overwrites(t, dest) == IF Through(t, dest) THEN {t[dest].src} ELSE {}

AppendUnique(list, new) == IF new \in ToSet(list) THEN list ELSE Append(list, new)

(* What the Makefile has to know of a copied file.                         *)
Collected(mk, kind, dest) ==
    CASE kind = "source" ->
            [mk EXCEPT !.srcs = Append(@, dest),
                       !.objs = Append(@, Last(dest)),
                       !.vpath = AppendUnique(@, Front(dest))]
      [] kind \in {"restricted", "base"} -> [mk EXCEPT !.incs = Append(@, dest)]
      [] OTHER -> mk

(* One file of a directory or module; a header of a module is also put     *)
(* next to its sources.                                                    *)
FileStep(acc, f, kind, short) ==
    LET dest   == MakePath(kind, short, f.tail)
        second == MakePath("source", short, f.tail)
        once   == Copied(acc.tree, f.src, dest)
    IN  IF f.src \notin SourceTree THEN acc
        ELSE [tree |-> IF kind = "restricted" THEN Copied(once, f.src, second)
                       ELSE once,
              mk   |-> Collected(acc.mk, kind, dest)]

BaseKind(f) ==
    CASE f.kind = "header" -> "base"
      [] f.kind \in {"source", "dox", "raw"} -> f.kind
      [] OTHER -> "none"

CreateBuildTreeForBase ==
    /\ phase = "base"
    /\ LET files == SelectSeq(BaseFiles, LAMBDA f : BaseKind(f) # "none")
           made  == FoldLeft(LAMBDA acc, f : FileStep(acc, f, BaseKind(f), << "base" >>),
                             [tree |-> tree, mk |-> makefile], files)
       IN  /\ tree' = made.tree
           /\ makefile' = made.mk
    /\ phase' = "model"
    /\ UNCHANGED << treeVars, todo, changed, dynamicParams, simConfig, persist,
                    configures >>

RootCall == [node |-> root, path |-> << "system" >>, short |-> << "system" >>,
             params |-> << >>]

CreateBuildTreeForModel ==
    /\ phase = "model"
    /\ IF root = Null \/ ~IsComplete
       THEN phase' = "failed" /\ UNCHANGED todo
       ELSE phase' = "modules" /\ todo' = << RootCall >>
    /\ UNCHANGED << treeVars, tree, changed, makefile, dynamicParams, simConfig,
                    persist, configures >>

-----------------------------------------------------------------------------
(* CreateShortName: what a type's name has in common with a type above it  *)
(* is left out of the path.                                                *)
StartsWith(s, t) == Len(t) <= Len(s) /\ SubSeq(s, 1, Len(t)) = t

LeftTrimmed(s) ==
    LET kept == {i \in 1..Len(s) : SubSeq(s, i, i) \notin {"_", "-", "."}}
    IN  IF kept = {} THEN ""
        ELSE SubSeq(s, CHOOSE i \in kept : \A j \in kept : i <= j, Len(s))

CreateShortName(path, short, provides) ==
    LET hits == {k \in DOMAIN path : StartsWith(provides, path[k])}
        last == CHOOSE k \in hits : \A j \in hits : j <= k
        name == IF hits = {} THEN provides
                ELSE LeftTrimmed(SubSeq(provides, Len(path[last]) + 1, Len(provides)))
    IN  IF name = "" THEN short ELSE Append(short, name)

Calls(call, params) ==
    [k \in DOMAIN nodes[call.node].subs |->
        LET sub == nodes[call.node].subs[k] IN
        [node   |-> sub,
         path   |-> Append(call.path, Provides(sub)),
         short  |-> CreateShortName(call.path, call.short, Provides(sub)),
         params |-> params]]

OwnParams(n) == [k \in DOMAIN nodes[n].params |-> << n, k >>]
ParamOf(p)   == Module(p[1]).params[p[2]]
IsDynamic(p) == ParamOf(p).mutability \in {"Startup", "Runtime"}

(* CreateModuleHeader: inherited parameters, then the module's own.        *)
HeaderDest(n) == MakePath("synthesized", << >>, Provides(n))
HeaderParams(call) == call.params \o OwnParams(call.node)

SubtreeParamsLeak(call) ==   \* faulty variant: every parameter is handed down
    call.params \o OwnParams(call.node)

SubtreeParams(call) ==
    call.params
      \o SelectSeq(OwnParams(call.node), LAMBDA p : ParamOf(p).visibility = "Subtree")

ModuleKind(f) == IF f.kind = "header" THEN "restricted" ELSE f.kind

(* The public and private files up to the first whose extension ends the   *)
(* work on the module.                                                     *)
Files(n) == Module(n).public \o Module(n).private
Ending(n) == {k \in DOMAIN Files(n) : Files(n)[k].kind \in {"pack", "unknown"}}
FirstEnding(n) == CHOOSE k \in Ending(n) : \A j \in Ending(n) : k <= j
FilesDone(n) ==
    IF Ending(n) = {} THEN Files(n) ELSE SubSeq(Files(n), 1, FirstEnding(n) - 1)

(* Libraries and include directories; a library that is not in the source  *)
(* tree is one of the common ones.                                         *)
Libraries(n, mk) ==
    LET m     == Module(n)
        found == SelectSeq(m.library, LAMBDA l : l \in SourceTree)
        other == SelectSeq(m.library, LAMBDA l : l \notin SourceTree)
        incs  == SelectSeq(m.include, LAMBDA l : l \in SourceTree)
        each(list, new) == FoldLeft(AppendUnique, list, new)
    IN  [mk EXCEPT !.localLibs  = each(@, found),
                   !.commonLibs = each(@, other),
                   !.localIncs  = each(@, found \o incs \o m.sysinclude)]

CreateBuildTreeForModule ==
    /\ phase = "modules" /\ todo # << >>
    /\ LET call   == Head(todo)
           n      == call.node
           dest   == HeaderDest(n)
           made   == FoldLeft(LAMBDA acc, f : FileStep(acc, f, ModuleKind(f), call.short),
                              [tree |-> Written(tree, dest, HeaderParams(call)),
                               mk   |-> makefile],
                              FilesDone(n))
       IN  /\ changed' = changed \cup Overwrites(tree, dest)
           /\ dynamicParams' = dynamicParams \o SelectSeq(OwnParams(n), IsDynamic)
           /\ tree' = made.tree
           /\ IF Ending(n) = {}
              THEN /\ makefile' = Libraries(n, made.mk)
                   /\ todo' = Calls(call, SubtreeParams(call)) \o Tail(todo)
                   /\ UNCHANGED phase
              ELSE /\ makefile' = made.mk
                   /\ IF Files(n)[FirstEnding(n)].kind = "pack"
                      THEN todo' = Tail(todo) /\ UNCHANGED phase
                      ELSE phase' = "failed" /\ todo' = << >>
    /\ UNCHANGED << treeVars, simConfig, persist, configures >>

-----------------------------------------------------------------------------
(* The file of dynamic parameters takes the place of a link to the one of  *)
(* the base directory.                                                     *)
ParamDest == MakePath("source", << "base" >>, "param.cpp")

CreateDynamicParamsThrough ==   \* faulty variant: the link is not removed
    /\ phase = "modules" /\ todo = << >>
    /\ tree' = Written(tree, ParamDest, dynamicParams)
    /\ changed' = changed \cup Overwrites(tree, ParamDest)
    /\ phase' = "simconfig"
    /\ UNCHANGED << treeVars, todo, makefile, dynamicParams, simConfig, persist,
                    configures >>

CreateDynamicParams ==
    /\ phase = "modules" /\ todo = << >>
    /\ LET t == Drop(tree, ParamDest) IN
       /\ tree' = Written(t, ParamDest, dynamicParams)
       /\ changed' = changed \cup Overwrites(t, ParamDest)
    /\ phase' = "simconfig"
    /\ UNCHANGED << treeVars, todo, makefile, dynamicParams, simConfig, persist,
                    configures >>

CreateSimConfig ==
    /\ phase = "simconfig"
    /\ LET dest == MakePath("synthesized", << >>, "sim_config.h") IN
       /\ tree' = Written(tree, dest, << >>)
       /\ changed' = changed \cup Overwrites(tree, dest)
    /\ simConfig' = Below
    /\ phase' = "makefiles"
    /\ UNCHANGED << treeVars, todo, makefile, dynamicParams, persist, configures >>

-----------------------------------------------------------------------------
(* Makefiles.  The %makefile list of the root module is its template, the  *)
(* configuration and further files to copy; a template or a file to copy   *)
(* that cannot be opened ends the program.                                 *)
RootMakefile == Module(root).makefile
RootConfig   == IF Len(RootMakefile) > 1 THEN RootMakefile[2] ELSE "Makefile.config"
RootTemplate == IF RootMakefile = << >> THEN "Makefile.template" ELSE RootMakefile[1]

CopiedByRoot ==
    SelectSeq(SubSeq(RootMakefile, 3, Len(RootMakefile)), LAMBDA f : f # "Makefile")

BuiltCopy(t, name) == Written(t, << name >>, << >>)

CreateMakefiles ==
    /\ phase = "makefiles"
    /\ IF ToSet(CopiedByRoot) \subseteq SourceTree
       THEN /\ tree' = FoldLeft(BuiltCopy, tree, CopiedByRoot)
            /\ todo' = << RootCall >>
            /\ phase' = "submakes"
       ELSE /\ phase' = "exit"
            /\ UNCHANGED << tree, todo >>
    /\ UNCHANGED << treeVars, changed, makefile, dynamicParams, simConfig, persist,
                    configures >>

(* The Makefile of a module of its own, next to a link to its directory.   *)
HasMakefile(call) == Module(call.node).makefile # << >> /\ call.path # << "system" >>

MakefileDest(short) == MakePath("source", short, "Makefile")

SubMakefile(call, mk) ==
    [mk EXCEPT !.subDirs    = Append(@, << "src" >> \o call.short),
               !.subTargets = @ \o Module(call.node).target,
               !.replace    = [BUILDROOT |-> << "src" >> \o call.short,
                               TARGET    |-> Module(call.node).target]]

CreateSubMakefiles ==
    /\ phase = "submakes" /\ todo # << >>
    /\ LET call == Head(todo)
           m    == Module(call.node)
           dir  == nodes[call.node].file
           mk   == SubMakefile(call, makefile)
           with == Copied(tree, dir, MakePath("source", call.short, "src"))
           dest == MakefileDest(call.short)
       IN  IF ~HasMakefile(call)
           THEN /\ todo' = Calls(call, << >>) \o Tail(todo)
                /\ UNCHANGED << tree, changed, makefile, phase >>
           ELSE /\ makefile' = mk
                /\ IF m.makefile[1] \in SourceTree
                   THEN /\ tree' = Written(with, dest, mk.replace)
                        /\ changed' = changed \cup Overwrites(with, dest)
                        /\ todo' = Calls(call, << >>) \o Tail(todo)
                        /\ UNCHANGED phase
                   ELSE /\ tree' = with
                        /\ phase' = "exit"
                        /\ UNCHANGED << changed, todo >>
    /\ UNCHANGED << treeVars, dynamicParams, simConfig, persist, configures >>

(* The top level resets what the submakefiles have set.                    *)
TopTarget ==
    IF Module(root).target # << >> THEN << Module(root).target[1] >> ELSE << "model" >>

KeptReplacement(mk) ==   \* faulty variant: the last submakefile's root stays
    [mk EXCEPT !.replace.TARGET = TopTarget]

TopReplacement(mk) ==
    [mk EXCEPT !.replace = [BUILDROOT |-> << >>, TARGET |-> TopTarget]]

CreateTopMakefile ==
    /\ phase = "submakes" /\ todo = << >>
    /\ LET mk   == TopReplacement(makefile)
           dest == << "Makefile" >>
           with == BuiltCopy(tree, RootConfig)
       IN  /\ makefile' = mk
           /\ \/ /\ RootConfig \notin SourceTree
                 /\ phase' = "failed"
                 /\ UNCHANGED << tree, changed >>
              \/ /\ RootConfig \in SourceTree
                 /\ RootTemplate \notin SourceTree
                 /\ tree' = with
                 /\ phase' = IF RootMakefile = << >> THEN "exit" ELSE "failed"
                 /\ UNCHANGED changed
              \/ /\ {RootConfig, RootTemplate} \subseteq SourceTree
                 /\ tree' = Written(with, dest, mk.replace)
                 /\ changed' = changed \cup Overwrites(with, dest)
                 /\ phase' = "conscripts"
    /\ UNCHANGED << treeVars, todo, dynamicParams, simConfig, persist, configures >>

CreateConscripts ==
    /\ phase = "conscripts"
    /\ LET list == Module(root).conscript IN
       \/ /\ ToSet(list) \subseteq SourceTree
          /\ tree' = FoldLeft(BuiltCopy, tree, list)
          /\ phase' = "done"
       \/ /\ ~ ToSet(list) \subseteq SourceTree
          /\ phase' = IF ToSet(Tail(list)) \subseteq SourceTree THEN "failed" ELSE "exit"
          /\ tree' = FoldLeft(BuiltCopy, tree,
                        SelectSeq(Tail(list), LAMBDA f : f \in SourceTree))
    /\ UNCHANGED << treeVars, todo, changed, makefile, dynamicParams, simConfig,
                    persist, configures >>

BuildStep ==
    \/ CreateBuildTreeForBase \/ CreateBuildTreeForModel \/ CreateBuildTreeForModule
    \/ CreateDynamicParams \/ CreateSimConfig \/ CreateMakefiles
    \/ CreateSubMakefiles \/ CreateTopMakefile \/ CreateConscripts

Init == TreeInit /\ BuilderInit

Next ==
    \/ TreeNext /\ UNCHANGED builderVars
    \/ \E p \in BOOLEAN : CreateBuildTree(p)
    \/ NukeBuildTree
    \/ BuildStep

allVars == << treeVars, builderVars >>

Spec ==
    /\ Init /\ [][Next]_allVars
    /\ WF_allVars(ParseStep /\ UNCHANGED builderVars) /\ WF_allVars(BuildStep)

-----------------------------------------------------------------------------
(* Configuring never writes to a source file: every generated file is the  *)
(* build tree's own, although links to sources are all around it           *)
(* ("we don't want to overwrite the original", CreateDynamicParams).       *)
SourcesUntouched == changed = {}

Header(n) == MakePath("synthesized", << >>, Provides(n))
Finished == phase = "done"

(* The instances from the root down to n.                                  *)
Above(n) == {a \in Below : n \in Subs(a)}
Ancestors(n) ==
    LET up[k \in Nat] == IF k = 0 THEN Above(n)
                         ELSE up[k - 1] \cup UNION {Above(a) : a \in up[k - 1]}
    IN  up[Len(nodes)]

(* A module whose files have a .pack among them ends the recursion: the    *)
(* modules below it get no header and no line of param.cpp, although       *)
(* sim_config.h, written by a recursion of its own, declares them.         *)
Hidden  == {n \in Below : \E a \in Ancestors(n) : Ending(a) # {}}
Visited == Below \ Hidden

(* The header of a module that is not hidden defines its own parameters    *)
(* and the exported ones of the modules above it, and no others: what a    *)
(* sibling or a module below exports is not seen, however the recursion    *)
(* went.  Instances that provide the same type have one header, written by *)
(* the last of them.                                                       *)
AloneIn(n) == \A m \in Visited : Provides(m) = Provides(n) => m = n

ParamsVisible ==
    Finished =>
        \A n \in {m \in Visited : AloneIn(m)} :
            /\ Header(n) \in DOMAIN tree
            /\ ToSet(tree[Header(n)].holds) =
                  ToSet(OwnParams(n)) \cup
                  {p \in UNION {ToSet(OwnParams(a)) : a \in Ancestors(n)} :
                      ParamOf(p).visibility = "Subtree"}

(* param.cpp defines exactly the names of the dynamic parameters that      *)
(* sim_config.h declares for the modules that are not hidden, and a name   *)
(* once, also when the tree is configured again by the same builder: but   *)
(* for a name that several instances have, as when a module stands at two  *)
(* places of the model, which is defined once for each of them.            *)
Name(p) == ParamOf(p).name

Dynamic(n)     == {p \in ToSet(OwnParams(n)) : IsDynamic(p)}
Declared(name) == {n \in simConfig \cap Visited : \E p \in Dynamic(n) : Name(p) = name}

DynamicDefinedOnce ==
    Finished =>
        LET defined == tree[ParamDest].holds
            lines(name) == {k \in DOMAIN defined : Name(defined[k]) = name}
        IN  /\ {Name(p) : p \in ToSet(defined)} =
                   {Name(p) : p \in UNION {Dynamic(n) : n \in simConfig \cap Visited}}
            /\ \A p \in ToSet(defined) :
                  Cardinality(lines(Name(p))) = Cardinality(Declared(Name(p)))

(* Parameters reach the sources that use them: static ones by the headers, *)
(* dynamic ones by param.cpp.                                              *)
ParamsDefined == ParamsVisible /\ DynamicDefinedOnce

(* Each Makefile is written with the values of its own directory, and what *)
(* the top one compiles is in the build tree.  A source behind too many    *)
(* links is the exception: CopyFileToBuildTree warns and reports success,  *)
(* against its comment ("@return true on success, false otherwise").       *)
LeftOut(dest) ==
    /\ persist
    /\ \E n \in Visited : \E f \in ToSet(Files(n)) :
          f.src \in TooDeep /\ f.tail = Last(dest)

MakefilesOwn ==
    Finished =>
        /\ tree[<< "Makefile" >>].holds = [BUILDROOT |-> << >>, TARGET |-> TopTarget]
        /\ \A dir \in ToSet(makefile.subDirs) :
              tree[Append(dir, "Makefile")].holds.BUILDROOT = dir
        /\ \A dest \in ToSet(makefile.srcs) \ DOMAIN tree : LeftOut(dest)
=============================================================================
