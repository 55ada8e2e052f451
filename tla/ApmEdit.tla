------------------------------- MODULE ApmEdit -------------------------------
(***************************************************************************)
(* apm-edit: the editor of models (apm_edit.ui.h) on Asim::Model.  The     *)
(* window shows the modules of the model as a tree; what is done to one is *)
(* done by separate code to the other.  Handlers call each other through   *)
(* the selection, so that a handler is a list of steps to do; the boxes in *)
(* which it asks are modal, and the window is idle when the list is empty. *)
(*                                                                         *)
(* As in the code, a type is provided once in a model ("implicit           *)
(* dependence on single provides"): a type stands for its place.  The list *)
(* widget, the databases and the files are external: setSelected of what   *)
(* is selected does nothing; a file may vanish or come back.               *)
(***************************************************************************)
EXTENDS Integers, Sequences, SequencesExt, FiniteSets, TLC

CONSTANTS
    Order,         \* the types, in the order in which a tree of them is walked
    Parent,        \* the type whose modules may require a type, or NoType
    RootType,      \* the type of the root of a new model
    Provides,      \* of each module and submodel
    Requires,      \* a set of types; submodels require nothing
    Submodels,     \* which are models; their own modules, by type
    Inner,
    Obsolete,      \* marked obsolete; a submodel is then opened for repair
    Template,
    Score,         \* is_default_module for the attributes of the model
    Vanishing,     \* whose files may vanish
    ModelFiles,    \* names of model files
    RootTypes,     \* what is typed as type of the root
    MaxEdits       \* bound: clicks and answers

NoType == "no type"
NoName == ""
NoFile == "no file"
Types  == Range(Order)
Names  == DOMAIN Provides

ASSUME SingleProvides ==
    /\ Parent \in [Types -> Types \cup {NoType}]
    /\ \A m \in Names : \A u \in Requires[m] : Parent[u] = Provides[m]

VARIABLES
    edits,       \* history
    found,       \* the modules and submodels whose files are there
    db,          \* those in moduleDB and modelDB
    apm,         \* $model: provides, type of its root, modules, parameters
    onDisk,      \* the model files: modules and parameters
    apmFile,     \* $model->filename
    modified,    \* $model->modified
    excused,     \* history: the user said not to save, and the model is still there
    lossy,       \* history: modules were missing when the model was read
    autoselect,  \* $model->autoselect, and its value before Auto build
    previousAuto,
    tree,        \* the items: name of the implementation, flag of the parameters
    sel,         \* Model->selectedItem
    astray,      \* history: the tree was painted for what was not done
    todo,        \* what is left of the handler
    refused,     \* history: what the handler was told not to insert, or cannot
    startSel     \* history: what was selected before Auto build

apmVars == << edits, found, db, apm, onDisk, apmFile, modified, excused, lossy,
              autoselect, previousAuto, tree, sel, astray, todo, refused, startSel >>

Document == << apm, modified, excused, lossy, autoselect >>
World    == << found, db, onDisk >>
Walk     == << previousAuto, startSel >>

-----------------------------------------------------------------------------
(* Models.                                                                 *)
Nothing == [t \in {} |-> NoName]
Only(f, S) == [t \in DOMAIN f \cap S |-> f[t]]

Above[t \in Types] ==
    IF Parent[t] = NoType THEN {} ELSE {Parent[t]} \cup Above[Parent[t]]
Below(t) == {u \in Types : t \in Above[u]}

(* A module is in the model when what is above it is, and requires it.     *)
InModel(top, mods) ==
    LET Kept[t \in Types] ==
            /\ t \in DOMAIN mods
            /\ \/ t = top
               \/ /\ Parent[t] # NoType
                  /\ Kept[Parent[t]] /\ t \in Requires[mods[Parent[t]]]
    IN  {t \in Types \cap DOMAIN mods : Kept[t]}

ApmModel(root, top, mods, odd) ==
    LET ts == InModel(top, mods)
    IN  [root |-> root, top |-> IF top \in ts THEN top ELSE NoType,
         mods |-> Only(mods, ts), odd |-> odd \cap ts]

Unnamed(root) == ApmModel(root, NoType, Nothing, {})

Contents(m) == [top |-> m.top, mods |-> m.mods, odd |-> m.odd]

IsRequired(m, t) ==
    /\ Parent[t] \in DOMAIN m.mods
    /\ t \in Requires[m.mods[Parent[t]]]

(* modelShow, buildModel and modulePaint.                                  *)
Item(m, t) == IF t \in DOMAIN m.mods THEN [name |-> m.mods[t], odd |-> t \in m.odd]
                                     ELSE [name |-> NoName, odd |-> FALSE]
RootItem(m) == IF m.top = NoType THEN [name |-> NoName, odd |-> FALSE] ELSE Item(m, m.top)

BuildModel(m) == [t \in {u \in Types : IsRequired(m, u)} |-> Item(m, t)]
ModelShow(m)  == (m.root :> RootItem(m)) @@ BuildModel(m)

Items(view)      == SelectSeq(Order, LAMBDA t : t \in DOMAIN view)
FirstItem(view)  == Head(Items(view))
ModelWalk(view, t) ==   \* NoType at the end
    LET s == Items(view)  rest == {i \in 1..(Len(s) - 1) : s[i] = t}
    IN  IF rest = {} THEN NoType ELSE s[(CHOOSE i \in rest : TRUE) + 1]
IsEmpty(view, t) == view[t].name = NoName

(* smart_add_submodule: the parameters and the modules below are taken     *)
(* over; the root is no place for a submodel.                              *)
CanAdd(m, name) ==
    IF Provides[name] = m.root THEN name \notin Submodels
                               ELSE IsRequired(m, Provides[name])

SmartAdd(m, name) ==
    LET t == Provides[name]
        old == IF t = m.root THEN m.top ELSE t
        top == IF t = m.root THEN t ELSE m.top
    IN  ApmModel(m.root, top, (t :> name) @@ m.mods,
                 IF old \in m.odd THEN m.odd \cup {t} ELSE m.odd \ {t})

(* moduleDefaultParams.                                                    *)
Defaulted(m, t) == [m EXCEPT !.odd = @ \ ({t} \cup Below(t))]

(* The item of an inserted module, and new ones below it.                  *)
PaintedOver(m, name) ==   \* faulty variant: items below stay
    LET t == Provides[name]
    IN  (t :> Item(m, t)) @@ Only(BuildModel(m), Below(t)) @@ tree

Painted(m, name) ==
    LET t == Provides[name]
    IN  (t :> Item(m, t)) @@ Only(BuildModel(m), Below(t))
                          @@ Only(tree, Types \ Below(t))

Alone(name) == ApmModel(Provides[name], Provides[name], Provides[name] :> name, {})

-----------------------------------------------------------------------------
(* Model_selectionChanged: the default is the one alternative with the     *)
(* highest score.                                                          *)
Alternatives(t) == {n \in db : Provides[n] = t}
Best(t) ==
    {n \in Alternatives(t) : \A k \in Alternatives(t) \ {n} : Score[k] < Score[n]}

Select(t)    == [do |-> "select", item |-> t]
Insert(name) == [do |-> "insert", name |-> name]
Then(what)   == [do |-> what]

AutoInsertsOver(t) ==   \* faulty variant: also where a module is
    IF autoselect THEN {Insert(n) : n \in Best(t)} ELSE {}

AutoInserts(t) ==
    IF autoselect /\ t \notin DOMAIN apm.mods THEN {Insert(n) : n \in Best(t)} ELSE {}

SelectionChanged ==
    /\ todo # << >> /\ Head(todo).do = "select"
    /\ LET t == Head(todo).item IN
       /\ sel' = t
       /\ todo' = SetToSeq(AutoInserts(t)) \o Tail(todo)
    /\ UNCHANGED << edits, apmFile, tree, astray, refused >>
    /\ UNCHANGED << Document, World, Walk >>

(* setSelected calls it only when the item was not selected.               *)
SetSelected(t) == IF sel = t THEN << >> ELSE << Select(t) >>

-----------------------------------------------------------------------------
(* Alternatives_returnPressed.  A file that is not there, a template and   *)
(* an obsolete module that the user does not want are not inserted; in any *)
(* case the item is selected again.                                        *)
Reselected == todo' = << Select(sel) >> \o Tail(todo)

InsertRefused ==
    /\ todo # << >> /\ Head(todo).do = "insert"
    /\ LET n == Head(todo).name IN
       /\ n \notin found \/ n \in Template \/ n \in Obsolete
       /\ refused' = refused \cup {n}
    /\ Reselected
    /\ UNCHANGED << edits, apmFile, tree, sel, astray >>
    /\ UNCHANGED << Document, World, Walk >>

(* What smart_add_submodule returns is not looked at.  moduleInsertParams  *)
(* asks whether to use the defaults.                                       *)
Inserted(n, asks) ==
    LET added == SmartAdd(apm, n)
        t == Provides[n]
    IN  IF ~CanAdd(apm, n)
        THEN /\ tree' = Painted(Alone(n), n) /\ astray' = TRUE
             /\ UNCHANGED << apm, modified >>
        ELSE /\ \E m \in {added} \cup (IF asks THEN {Defaulted(added, t)} ELSE {}) :
                   apm' = m /\ tree' = Painted(m, n)
             /\ modified' = TRUE
             /\ UNCHANGED astray

InsertDone ==
    /\ todo # << >> /\ Head(todo).do = "insert"
    /\ LET n == Head(todo).name IN
       /\ n \in found \ Template
       /\ Inserted(n, TRUE)
       /\ refused' = IF CanAdd(apm, n) THEN refused ELSE refused \cup {n}
    /\ Reselected
    /\ UNCHANGED << edits, apmFile, excused, lossy, autoselect, sel >>
    /\ UNCHANGED << World, Walk >>

(* Double click: on to the next requirement that is not satisfied.         *)
NextMissing ==
    /\ todo # << >> /\ Head(todo).do = "next"
    /\ LET s == Items(tree)
           empty == {i \in DOMAIN s : IsEmpty(tree, s[i]) /\ \E j \in 1..i : s[j] = sel}
       IN  todo' = (IF empty = {} THEN << >>
                    ELSE SetSelected(s[CHOOSE i \in empty : \A j \in empty : i <= j]))
                   \o Tail(todo)
    /\ UNCHANGED << edits, apmFile, tree, sel, astray, refused >>
    /\ UNCHANGED << Document, World, Walk >>

-----------------------------------------------------------------------------
(* What can be clicked.                                                    *)
Clicked ==
    /\ todo = << >>
    /\ edits < MaxEdits /\ edits' = edits + 1
    /\ refused' = {}

ItemSelected ==   \* by a click or by the search bar
    /\ Clicked
    /\ \E t \in DOMAIN tree \ {sel} : todo' = << Select(t) >>
    /\ UNCHANGED << apmFile, tree, sel, astray >>
    /\ UNCHANGED << Document, World, Walk >>

FindMissing ==
    /\ Clicked
    /\ sel # NoType
    /\ LET s == Items(tree)
           after == {i \in DOMAIN s : /\ IsEmpty(tree, s[i])
                                      /\ \E j \in 1..(i - 1) : s[j] = sel}
       IN  /\ after # {}
           /\ todo' = << Select(s[CHOOSE i \in after : \A j \in after : i <= j]) >>
    /\ UNCHANGED << apmFile, tree, sel, astray >>
    /\ UNCHANGED << Document, World, Walk >>

AlternativeDoubleClicked ==
    /\ Clicked
    /\ \E n \in db : /\ Provides[n] = sel
                     /\ todo' = << Insert(n), Then("next") >>
    /\ UNCHANGED << apmFile, tree, sel, astray >>
    /\ UNCHANGED << Document, World, Walk >>

(* A file of the right type that the user wants.  No parameters are asked  *)
(* for, and the item is not selected again.                                *)
SubmodelInserted ==
    /\ Clicked
    /\ \E n \in Submodels \cap found : Provides[n] = sel /\ Inserted(n, FALSE)
    /\ UNCHANGED << apmFile, excused, lossy, autoselect, sel, todo >>
    /\ UNCHANGED << World, Walk >>

RemovedUnmarked(t) ==   \* faulty variant: the model does not count as modified
    /\ apm' = ApmModel(apm.root, apm.top, Only(apm.mods, Types \ {t}), apm.odd)
    /\ UNCHANGED modified

Removed(t) ==
    /\ apm' = ApmModel(apm.root, apm.top, Only(apm.mods, Types \ {t}), apm.odd)
    /\ modified' = TRUE

ModuleDeleted ==
    /\ Clicked
    /\ sel \in DOMAIN apm.mods
    /\ Removed(sel)
    /\ tree' = (sel :> [name |-> NoName, odd |-> FALSE])
               @@ Only(tree, Types \ Below(sel))
    /\ UNCHANGED << apmFile, excused, lossy, autoselect, sel, astray, todo >>
    /\ UNCHANGED << World, Walk >>

(* insertAsRoot.  The test for a module never fails (the ! binds tighter   *)
(* than the match).  For the root item, which has no parent, the handler   *)
(* dies before it changes the tree.                                        *)
NewRoot(t) ==
    LET n == apm.mods[t]
    IN  IF n \in Submodels THEN ApmModel(t, t, Inner[n], {})
                           ELSE ApmModel(t, t, apm.mods, apm.odd)

InsertAsRoot ==
    /\ Clicked
    /\ sel # NoType
    /\ IF sel \in DOMAIN apm.mods
       THEN apm' = NewRoot(sel) /\ modified' = TRUE
       ELSE UNCHANGED << apm, modified >>
    /\ IF sel = FirstItem(tree)
       THEN UNCHANGED << tree, sel, astray >>
       ELSE /\ tree' = Only(tree, {sel} \cup Below(sel))
            /\ sel' = NoType
            /\ astray' = (astray \/ sel \notin DOMAIN apm.mods
                                 \/ apm.mods[sel] \in Submodels)
    /\ UNCHANGED << apmFile, excused, lossy, autoselect, todo >>
    /\ UNCHANGED << World, Walk >>

ParamChanged ==
    /\ Clicked
    /\ sel \in DOMAIN apm.mods /\ sel \in DOMAIN tree
    /\ \E odd \in {apm.odd \cup {sel}, apm.odd \ {sel}} :
          /\ apm' = [apm EXCEPT !.odd = odd]
          /\ tree' = [tree EXCEPT ![sel].name = apm.mods[sel], ![sel].odd = sel \in odd]
    /\ modified' = TRUE
    /\ UNCHANGED << apmFile, excused, lossy, autoselect, sel, astray, todo >>
    /\ UNCHANGED << World, Walk >>

(* The properties.  The type of the root is no change of the model, and    *)
(* the tree is not painted again.                                          *)
PropertiesOk ==
    /\ Clicked
    /\ \E t \in RootTypes :
          /\ apm' = [apm EXCEPT !.root = t]
          /\ astray' = (astray \/ t # apm.root)
    /\ autoselect' \in BOOLEAN
    /\ modified' \in {modified, TRUE}
    /\ UNCHANGED << apmFile, excused, lossy, tree, sel, todo >>
    /\ UNCHANGED << World, Walk >>

(* Refresh of the databases selects the item again.                        *)
RefreshModels ==
    /\ Clicked
    /\ db # found
    /\ db' = found
    /\ todo' = IF sel = NoType THEN << >> ELSE << Select(sel) >>
    /\ UNCHANGED << found, onDisk, apmFile, tree, sel, astray >>
    /\ UNCHANGED << Document, Walk >>

-----------------------------------------------------------------------------
(* Auto build.                                                             *)
AutoBuild ==
    /\ Clicked
    /\ previousAuto' = autoselect /\ autoselect' = TRUE
    /\ startSel' = sel
    /\ todo' = << [do |-> "walk", item |-> FirstItem(tree)] >>
    /\ UNCHANGED << apm, modified, excused, lossy, apmFile, tree, sel, astray >>
    /\ UNCHANGED World

WalkToEarly ==   \* faulty variant: the next item is looked for before inserting
    /\ todo # << >> /\ Head(todo).do = "walk"
    /\ LET t == Head(todo).item
           next == ModelWalk(tree, t)
       IN  todo' = (IF IsEmpty(tree, t) THEN SetSelected(t) ELSE << >>)
               \o << IF next = NoType THEN [do |-> "walked", item |-> NoType]
                                      ELSE [do |-> "walk", item |-> next] >>
    /\ UNCHANGED << edits, apmFile, tree, sel, astray, refused >>
    /\ UNCHANGED << Document, World, Walk >>

WalkTo ==   \* the walk goes on with what is below the item by then
    /\ todo # << >> /\ Head(todo).do = "walk"
    /\ LET t == Head(todo).item IN
       todo' = (IF IsEmpty(tree, t) THEN SetSelected(t) ELSE << >>)
               \o << [do |-> "walked", item |-> t] >>
    /\ UNCHANGED << edits, apmFile, tree, sel, astray, refused >>
    /\ UNCHANGED << Document, World, Walk >>

AutoBuildEnds == todo # << >> /\ Head(todo).do = "walked"
                 /\ ModelWalk(tree, Head(todo).item) = NoType

WalkOn ==
    /\ todo # << >> /\ Head(todo).do = "walked" /\ ~AutoBuildEnds
    /\ todo' = << [do |-> "walk", item |-> ModelWalk(tree, Head(todo).item)] >>
    /\ UNCHANGED << edits, apmFile, tree, sel, astray, refused >>
    /\ UNCHANGED << Document, World, Walk >>

WalkEnd ==
    /\ AutoBuildEnds
    /\ autoselect' = previousAuto
    /\ todo' = SetSelected(FirstItem(tree))
    /\ UNCHANGED << edits, apm, modified, excused, lossy, apmFile, tree, sel, astray,
                    refused >>
    /\ UNCHANGED << World, Walk >>

-----------------------------------------------------------------------------
(* Files.  New, open, exit and the operations on the model ask first,      *)
(* until the model is not modified, as often as a save fails.              *)
Read(c) ==
    ApmModel(IF c.top \in InModel(c.top, Only(c.mods, {t \in DOMAIN c.mods : c.mods[t] \in found}))
             THEN c.top ELSE RootType,
             c.top, Only(c.mods, {t \in DOMAIN c.mods : c.mods[t] \in found}), c.odd)

(* Stale data makes a model modified, unless modules are missing.          *)
Loaded(c) ==
    /\ apm' = Read(c)
    /\ lossy' = (DOMAIN Read(c).mods # DOMAIN c.mods)
    /\ modified' \in IF lossy' THEN {FALSE} ELSE BOOLEAN
    /\ excused' = FALSE /\ autoselect' = FALSE

Saved(f) ==
    /\ apm.top # NoType
    /\ onDisk' = [g \in {f} \cup DOMAIN onDisk |->
                     IF g = f THEN Contents(apm) ELSE onDisk[g]]
    /\ apmFile' = f
    /\ modified' = FALSE /\ excused' = FALSE /\ lossy' = FALSE

SaveNames == IF apmFile = NoFile THEN ModelFiles ELSE {apmFile}

FileClicked ==
    /\ Clicked
    /\ \E next \in {"new", "open", "exit", "operate"} :
          /\ next = "operate" => apmFile # NoFile
          /\ todo' = << Then("ask"), Then(next) >>
    /\ UNCHANGED << apmFile, tree, sel, astray >>
    /\ UNCHANGED << Document, World, Walk >>

SaveAsClicked ==
    /\ Clicked
    /\ \E f \in ModelFiles : Saved(f)
    /\ UNCHANGED << found, db, apm, autoselect, tree, sel, astray, todo >>
    /\ UNCHANGED Walk

Asked == todo # << >> /\ Head(todo).do = "ask"

NotAsked ==
    /\ Asked /\ ~modified
    /\ todo' = Tail(todo)
    /\ UNCHANGED << edits, apmFile, tree, sel, astray, refused >>
    /\ UNCHANGED << Document, World, Walk >>

AnsweredYes ==   \* or the save fails, or no name is given
    /\ Asked /\ modified
    /\ \/ (\E f \in SaveNames : Saved(f)) /\ UNCHANGED edits
       \/ /\ edits < MaxEdits /\ edits' = edits + 1
          /\ UNCHANGED << onDisk, apmFile, modified, excused, lossy >>
    /\ UNCHANGED << found, db, apm, autoselect, tree, sel, astray, refused, todo >>
    /\ UNCHANGED Walk

AnsweredNo ==
    /\ Asked /\ modified
    /\ todo' = Tail(todo)
    /\ IF todo[2].do = "operate" THEN UNCHANGED << modified, excused >>
                                 ELSE modified' = FALSE /\ excused' = TRUE
    /\ UNCHANGED << edits, apm, lossy, autoselect, apmFile, tree, sel, astray, refused >>
    /\ UNCHANGED << World, Walk >>

AnsweredCancel ==
    /\ Asked /\ modified
    /\ todo' = << >>
    /\ UNCHANGED << edits, apmFile, tree, sel, astray, refused >>
    /\ UNCHANGED << Document, World, Walk >>

Shown ==   \* modelShow paints the tree and selects its root
    /\ tree' = ModelShow(apm')
    /\ sel' = NoType /\ astray' = FALSE

FileNew ==
    /\ todo # << >> /\ Head(todo).do = "new"
    /\ \E t \in RootTypes : apm' = Unnamed(t)
    /\ modified' \in BOOLEAN /\ autoselect' \in BOOLEAN
    /\ excused' = FALSE /\ lossy' = FALSE /\ apmFile' = NoFile
    /\ Shown
    /\ todo' = << Select(apm'.root) >>
    /\ UNCHANGED << edits, refused >>
    /\ UNCHANGED << World, Walk >>

FileOpen ==
    /\ todo # << >> /\ Head(todo).do = "open"
    /\ \E f \in DOMAIN onDisk :
          /\ Loaded(onDisk[f]) /\ apmFile' = f
    /\ Shown
    /\ todo' = << Select(apm'.root), Then("health") >>
    /\ UNCHANGED << edits, refused >>
    /\ UNCHANGED << World, Walk >>

OpenCancelled ==   \* or failed
    /\ todo # << >> /\ Head(todo).do = "open"
    /\ todo' = << >>
    /\ UNCHANGED << edits, apmFile, tree, sel, astray, refused >>
    /\ UNCHANGED << Document, World, Walk >>

(* Submodels that are no longer good may be opened in other editors; then  *)
(* the model is read again, which may fail.                                *)
HealthChecked ==
    /\ todo # << >> /\ Head(todo).do = "health"
    /\ todo' = << >>
    /\ \/ UNCHANGED Document /\ UNCHANGED astray
       \/ /\ \E t \in DOMAIN apm.mods : apm.mods[t] \in Submodels \cap Obsolete
          /\ Loaded(onDisk[apmFile])
          /\ astray' = (astray \/ apm' # apm)
    /\ UNCHANGED << edits, apmFile, tree, sel, refused >>
    /\ UNCHANGED << World, Walk >>

Operated ==   \* in a RunLog window, on the file
    /\ todo # << >> /\ Head(todo).do = "operate"
    /\ todo' = << >>
    /\ UNCHANGED << edits, apmFile, tree, sel, astray, refused >>
    /\ UNCHANGED << Document, World, Walk >>

FileExit ==   \* nothing is clicked any more
    /\ todo # << >> /\ Head(todo).do = "exit"
    /\ todo' = << >> /\ edits' = MaxEdits
    /\ UNCHANGED << apmFile, tree, sel, astray, refused >>
    /\ UNCHANGED << Document, World, Walk >>

-----------------------------------------------------------------------------
FileChanges ==
    /\ edits < MaxEdits
    /\ \E n \in Vanishing : found' = IF n \in found THEN found \ {n} ELSE found \cup {n}
    /\ edits' = edits + 1
    /\ UNCHANGED << db, onDisk, apmFile, tree, sel, astray, todo, refused >>
    /\ UNCHANGED << Document, Walk >>

ApmInit ==
    /\ edits = 0
    /\ found = Names /\ db = Names
    /\ apm = Unnamed(RootType)
    /\ onDisk = [f \in {} |-> Contents(apm)] /\ apmFile = NoFile
    /\ modified = FALSE /\ excused = FALSE /\ lossy = FALSE
    /\ autoselect = FALSE /\ previousAuto = FALSE
    /\ tree = ModelShow(apm) /\ sel = RootType /\ astray = FALSE
    /\ todo = << >> /\ refused = {} /\ startSel = NoType

Step ==
    \/ SelectionChanged \/ InsertRefused \/ InsertDone \/ NextMissing
    \/ WalkTo \/ WalkOn \/ WalkEnd
    \/ NotAsked \/ AnsweredYes \/ AnsweredNo \/ AnsweredCancel
    \/ FileNew \/ FileOpen \/ OpenCancelled \/ HealthChecked \/ Operated \/ FileExit

ApmNext ==
    \/ Step
    \/ ItemSelected \/ FindMissing \/ AlternativeDoubleClicked \/ SubmodelInserted
    \/ ModuleDeleted \/ InsertAsRoot \/ ParamChanged \/ PropertiesOk \/ RefreshModels
    \/ AutoBuild \/ FileClicked \/ SaveAsClicked \/ FileChanges

(* A box is answered, and a handler goes on.                               *)
ApmFairness == WF_apmVars(Step)

ApmSpec == ApmInit /\ [][ApmNext]_apmVars /\ ApmFairness

-----------------------------------------------------------------------------
(* The tree shows the modules that are in the model, and which of them     *)
(* have parameters that are not the default, however modules, submodels    *)
(* and what is below them were replaced; the handlers that paint what they *)
(* did not do, or do not paint what they did, are the only exceptions.     *)
TreeIsModel == todo = << >> /\ ~astray => tree = ModelShow(apm)

(* A model that does not count as modified is what its file says, unless   *)
(* the user said not to save it, or modules were missing.                  *)
UnmodifiedIsSaved ==
    ~modified /\ ~excused /\ ~lossy /\ apmFile # NoFile
        => onDisk[apmFile] = Contents(apm)

(* The same for a user who said not to save and then opened nothing.       *)
ModifiedIsTold ==
    todo = << >> /\ ~modified /\ ~lossy /\ apmFile # NoFile /\ edits < MaxEdits
        => onDisk[apmFile] = Contents(apm)

(* When Auto build is through, also with what it has just inserted and     *)
(* what that requires, the requirements left have no best alternative.     *)
(* Only an item that was selected before is passed over, and a tree that   *)
(* had gone astray shows requirements that the model does not have.        *)
AutoBuildTriesAll ==
    AutoBuildEnds /\ ~astray => \A t \in DOMAIN tree :
        IsEmpty(tree, t) => Best(t) = {} \/ t = startSel

(* A handler ends: selecting and inserting do not call each other for ever *)
(* unless something is not inserted.                                       *)
HandlersEnd == todo # << >> ~> todo = << >> \/ refused # {}
=============================================================================
