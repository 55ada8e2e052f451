----------------------------- MODULE FindReplace -----------------------------
(***************************************************************************)
(* apm-find-replace: the same change in many models (apm_find_replace.ui.h).*)
(* Find reads the models into memory; operations change those that are     *)
(* selected in the list, and write lines to the log; Save saves the models *)
(* whose lines are in the log.  A line is all that leads to its model, and *)
(* every operation begins with a new log.                                  *)
(*                                                                         *)
(* A model is what can be changed in it: its name, the module of one type, *)
(* and one of its parameters.  Some models have no place for that type.    *)
(***************************************************************************)
EXTENDS Integers, FiniteSets

CONSTANTS
    FrCount,        \* models, in the order of the list
    FrName,         \* of each: its name at first
    Lacking,        \* those that require no module of the type replaced
    Replacements,   \* what they can be replaced by
    Rename,         \* the substitution of names: a function
    MaxFrClicks     \* bound

ASSUME ModelListAssumption == FrCount \in Nat /\ Lacking \subseteq 1..FrCount

FrModels == 1..FrCount
NoPick   == "none"

VARIABLES
    frClicks,     \* history
    frDisk,       \* the model files
    frMem,        \* the models that have been found
    inList,       \* modelsListBox, and what is selected there
    chosen,
    shownPick,    \* replaceModuleComboBox
    pick,         \* replacementModule
    frLog,        \* lines of logListBox
    lineOf,       \* searchModelMap: the model of a line
    touched,      \* history: what the operation of this log has changed
    operated      \* history: what was selected in some operation

frVars == << frClicks, frDisk, frMem, inList, chosen, shownPick, pick, frLog, lineOf,
             touched, operated >>

FrInit ==
    /\ frClicks = 0
    /\ frDisk = [f \in FrModels |-> [name |-> FrName[f], module |-> "old", param |-> "0"]]
    /\ frMem = frDisk
    /\ inList = {} /\ chosen = {}
    /\ shownPick = NoPick /\ pick = NoPick
    /\ frLog = {} /\ lineOf = [l \in {} |-> 0]
    /\ touched = {} /\ operated = {}

FrClick == frClicks < MaxFrClicks /\ frClicks' = frClicks + 1

-----------------------------------------------------------------------------
(* findModels: which models there are in a directory, with or without a    *)
(* place for the type searched for.  It is chosen apart from the types of  *)
(* what is replaced: any of the models may have a place for those.         *)
FrFind ==
    /\ FrClick
    /\ inList' \in SUBSET FrModels
    /\ frMem' = frDisk
    /\ chosen' = {} /\ shownPick' = NoPick /\ pick' = NoPick
    /\ frLog' = {} /\ lineOf' = [l \in {} |-> 0]
    /\ touched' = {} /\ operated' = {}
    /\ UNCHANGED frDisk

(* Another type to search for: the list is cleared, and nothing else.      *)
FindTypeChosen ==
    /\ FrClick
    /\ inList' = {} /\ chosen' = {}
    /\ UNCHANGED << frDisk, frMem, shownPick, pick, frLog, lineOf, touched, operated >>

(* updateModelSelection, for all models in the list.                       *)
UpdateModelSelection(match, mode, invert) ==
    LET m == IF invert THEN inList \ match ELSE inList \cap match
    IN  chosen' = CASE mode = "select" -> m
                    [] mode = "add"    -> chosen \cup m
                    [] mode = "remove" -> chosen \ m

Filter ==   \* by name or by module
    /\ FrClick
    /\ \E match \in {{f \in inList : frMem[f].name = n} : n \in {frMem[g].name : g \in inList}}
                    \cup {{f \in inList \ Lacking : frMem[f].module = "old"}} :
       \E mode \in {"select", "add", "remove"} : \E invert \in BOOLEAN :
          UpdateModelSelection(match, mode, invert)
    /\ UNCHANGED << frDisk, frMem, inList, shownPick, pick, frLog, lineOf, touched, operated >>

SelectAll ==   \* or invert the selection
    /\ FrClick
    /\ chosen' \in {inList, inList \ chosen}
    /\ UNCHANGED << frDisk, frMem, inList, shownPick, pick, frLog, lineOf, touched, operated >>

Purge ==
    /\ FrClick
    /\ inList' = chosen
    /\ UNCHANGED << frDisk, frMem, chosen, shownPick, pick, frLog, lineOf, touched, operated >>

(* A new type empties the box of modules, but what was picked stays.       *)
ReplaceTypeChosen ==
    /\ FrClick
    /\ shownPick' = NoPick
    /\ UNCHANGED << frDisk, frMem, inList, chosen, pick, frLog, lineOf, touched, operated >>

ModulePicked(m) ==
    /\ FrClick
    /\ shownPick' = m /\ pick' = m
    /\ UNCHANGED << frDisk, frMem, inList, chosen, frLog, lineOf, touched, operated >>

-----------------------------------------------------------------------------
(* Operations.                                                             *)
Processed(f) == << "Processed", f >>
Failed(f)    == << "Replacement failure", f >>
Renamed(f)   == << "Renamed", Rename[frMem[f].name], frMem[f].name >>

(* replaceModule.                                                          *)
IsSelected == chosen

Replace ==
    /\ FrClick
    /\ IF pick = NoPick
       THEN frLog' = {} /\ touched' = {} /\ UNCHANGED << frMem, lineOf, operated >>
       ELSE LET done == IsSelected \ Lacking IN
            /\ frMem' = [f \in FrModels |-> IF f \in done THEN [frMem[f] EXCEPT !.module = pick]
                                                          ELSE frMem[f]]
            /\ frLog' = {Processed(f) : f \in done} \cup {Failed(f) : f \in IsSelected \ done}
            /\ lineOf' = [l \in DOMAIN lineOf \cup frLog' |->
                             IF l \in frLog' THEN l[2] ELSE lineOf[l]]
            /\ touched' = done /\ operated' = operated \cup chosen
    /\ UNCHANGED << frDisk, inList, chosen, shownPick, pick >>

(* Models with the same name have the same line: the last one keeps it.    *)
LastWith(line) ==
    CHOOSE f \in chosen : Renamed(f) = line /\ \A g \in chosen : Renamed(g) = line => g <= f

RenameModels ==
    /\ FrClick
    /\ frMem' = [f \in FrModels |-> IF f \in IsSelected
                                    THEN [frMem[f] EXCEPT !.name = Rename[@]] ELSE frMem[f]]
    /\ frLog' = {Renamed(f) : f \in chosen}
    /\ lineOf' = [l \in DOMAIN lineOf \cup frLog' |->
                     IF l \in frLog' THEN LastWith(l) ELSE lineOf[l]]
    /\ touched' = {f \in chosen : LastWith(Renamed(f)) = f}
    /\ operated' = operated \cup chosen
    /\ UNCHANGED << frDisk, inList, chosen, shownPick, pick >>

(* replaceParameter: a model without the module ends the handler, with     *)
(* what was done before it.                                                *)
ReplaceParam(v) ==
    /\ FrClick
    /\ LET done == {f \in IsSelected : \A g \in IsSelected \cap Lacking : f < g}
           new  == {f \in done : frMem[f].param # v}
       IN  /\ frMem' = [f \in FrModels |-> IF f \in new THEN [frMem[f] EXCEPT !.param = v]
                                                        ELSE frMem[f]]
           /\ frLog' = {Processed(f) : f \in new} \cup {Failed(f) : f \in done \ new}
           /\ lineOf' = [l \in DOMAIN lineOf \cup frLog' |->
                            IF l \in frLog' THEN l[2] ELSE lineOf[l]]
           /\ touched' = new /\ operated' = operated \cup chosen
    /\ UNCHANGED << frDisk, inList, chosen, shownPick, pick >>

(* Save: whatever is in the log, and whether or not it works.              *)
ToSaveProcessed ==   \* faulty variant: renamed models are forgotten
    {lineOf[l] : l \in {k \in frLog : k[1] = "Processed"}}

ToSave == {lineOf[l] : l \in {k \in frLog : k[1] \in {"Processed", "Renamed"}}}

SaveWorks(good) ==
    /\ FrClick
    /\ frDisk' = [f \in FrModels |-> IF f \in ToSave \cap good THEN frMem[f] ELSE frDisk[f]]
    /\ UNCHANGED << frMem, inList, chosen, shownPick, pick, frLog, lineOf, touched, operated >>

ClearLog ==
    /\ FrClick
    /\ frLog' = {} /\ touched' = {}
    /\ UNCHANGED << frDisk, frMem, inList, chosen, shownPick, pick, lineOf, operated >>

FrNext ==
    \/ FrFind \/ FindTypeChosen \/ Filter \/ SelectAll \/ Purge
    \/ ReplaceTypeChosen \/ (\E m \in Replacements : ModulePicked(m))
    \/ Replace \/ RenameModels \/ (\E v \in {"0", "1"} : ReplaceParam(v))
    \/ (\E bad \in {{}} \cup {{f} : f \in FrModels} : SaveWorks(FrModels \ bad))
    \/ ClearLog

FrSpec == FrInit /\ [][FrNext]_frVars

-----------------------------------------------------------------------------
(* Save saves what the last operation has changed, also what an earlier    *)
(* one changed in the same model, when the files can be written; of models *)
(* with the same name that were renamed, only the last.                    *)
ChangedIsSaved == [][SaveWorks(FrModels) => \A f \in touched : frDisk'[f] = frMem[f]]_frVars

(* No other model than those that were selected when something was done is *)
(* ever written: lines that are left in the map do no harm, nor do filters,*)
(* another search or a list that was cleared in between.                   *)
OnlySelectedWritten == [][\A f \in FrModels : frDisk'[f] # frDisk[f] => f \in operated]_frVars

(* Save writes what was changed, and only that.                            *)
SavesWhatChanged == ChangedIsSaved /\ OnlySelectedWritten
=============================================================================
