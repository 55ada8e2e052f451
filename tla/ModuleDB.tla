------------------------------ MODULE ModuleDB ------------------------------
(***************************************************************************)
(* The database of modules (ModuleDB): collecting the module files of the  *)
(* source tree and choosing a default module for a required type.          *)
(*                                                                         *)
(* A file of the tree is its path, a sequence of names, with what          *)
(* Module::Parse makes of it; the multimap of modules is a sequence.       *)
(***************************************************************************)
EXTENDS Integers, Sequences, SequencesExt, FiniteSets

CONSTANTS
    Trees,       \* source trees, sets of files
    Types,       \* what modules provide
    Attributes,  \* lists of default attributes, as of a model
    MaxCollects  \* bound: how often all modules are collected

ASSUME CollectsAssumption == MaxCollects \in Nat

VARIABLES
    files,     \* the files below the root of the source tree
    modules,   \* the multimap, in the order of insertion
    collects,  \* history: how often CollectAllModules has run
    answer     \* what FindDefaultModule returned last, with its question

dbVars == << files, modules, collects, answer >>

NoModule == [path |-> << >>]   \* the null pointer
NoAnswer == [type |-> "none", attrs |-> << >>, found |-> NoModule]

(* A file is [path, ext, provides, attributes, parses].                    *)
IsModuleFile(file) == file.ext = ".awb"

(* CollectModules leaves out a directory whose name, with its path from    *)
(* the root, is CVS or .svn.                                               *)
Examined(file) ==
    ~ \E k \in 1..(Len(file.path) - 1) :
          SubSeq(file.path, 1, k) \in {<< "CVS" >>, << ".svn" >>}

Found == {f \in files : IsModuleFile(f) /\ Examined(f) /\ f.parses}

DbInit ==
    /\ files \in Trees
    /\ modules = << >>
    /\ collects = 0
    /\ answer = NoAnswer

(* Clear is empty.                                                         *)
DbCleared == modules

DbCollected == DbCleared \o SetToSeq(Found)

CollectAllModules ==
    /\ collects < MaxCollects
    /\ collects' = collects + 1
    /\ modules' = DbCollected
    /\ UNCHANGED << files, answer >>

-----------------------------------------------------------------------------
(* FindModules, the entries of a type.                                     *)
FindModules(type) == SelectSeq(modules, LAMBDA m : m.provides = type)

HasAttribute(module, attr) == attr \in module.attributes

With(providers, attr) == SelectSeq(providers, LAMBDA m : HasAttribute(m, attr))

(* The first attribute of the list that any provider has decides: with     *)
(* more than one provider that has it, nothing is found.                   *)
FirstMatchWins(providers, attrs) ==   \* faulty variant: takes any of them
    LET hits == {k \in 1..Len(attrs) : With(providers, attrs[k]) # << >>}
    IN  IF hits = {} THEN NoModule
        ELSE With(providers, attrs[CHOOSE k \in hits : \A j \in hits : k <= j])[1]

FirstMatch(providers, attrs) ==
    LET hits == {k \in 1..Len(attrs) : With(providers, attrs[k]) # << >>}
    IN  IF hits = {} THEN NoModule
        ELSE LET k == CHOOSE i \in hits : \A j \in hits : i <= j
                 w == With(providers, attrs[k])
             IN  IF Len(w) > 1 THEN NoModule ELSE w[1]

(* Of a type that nobody provides the iterator is moved behind its end:    *)
(* the caller has to know that there is a provider.                        *)
FindDefaultModule(type, attrs) ==
    LET providers == FindModules(type) IN
    /\ providers # << >>
    /\ answer' = [type  |-> type,
                  attrs |-> attrs,
                  found |-> IF Len(providers) = 1 THEN providers[1]
                            ELSE FirstMatch(providers, attrs)]
    /\ UNCHANGED << files, modules, collects >>

DbNext ==
    \/ CollectAllModules
    \/ \E t \in Types : \E attrs \in Attributes : FindDefaultModule(t, attrs)

DbSpec == DbInit /\ [][DbNext]_dbVars

-----------------------------------------------------------------------------
(* A default module is never a guess: it is a module that parses, it       *)
(* provides what was asked for, and it is the only one of its type, or the *)
(* only one with one of the attributes, no earlier of which any provider   *)
(* has.                                                                    *)
OnlyOne(S) == Cardinality(S) = 1

DefaultIsUnique ==
    answer.found # NoModule =>
        LET all == {f \in Found : f.provides = answer.type}
            has(k) == {f \in all : answer.attrs[k] \in f.attributes}
        IN  /\ answer.found \in all
            /\ \/ OnlyOne(all)
               \/ \E k \in 1..Len(answer.attrs) :
                     /\ has(k) = {answer.found}
                     /\ \A j \in 1..(k - 1) : has(j) = {}
=============================================================================
