----------------------------- MODULE MCModules ------------------------------
(***************************************************************************)
(* Module files and the database of modules for TLC.  The reader of a file *)
(* and the database share nothing, so that each is checked while the other *)
(* rests: the state graph is their sum and not their product.              *)
(***************************************************************************)
EXTENDS ModuleFile, ModuleDB

(* All module files of up to five lines, one line of each kind.            *)
L(d, words, marks) == [d |-> d, words |-> words, marks |-> marks]

Lines ==
    {L("AWB_START", << >>, {}), L("AWB_END", << >>, {}), L("other", << >>, {}),
     L("name", << "mod" >>, {}), L("provides", << "type" >>, {}),
     L("requires", << "a", "b" >>, {}), L("public", << "f.h" >>, {}),
     L("attributes", << "old" >>, {}), L("const", << "p", "1" >>, {}),
     L("const", << "p", "1" >>, {"dynamic"})}

(* A file worth reading has a region that provides something; the rest of  *)
(* its lines are free.                                                     *)
Free == UNION {[1..n -> Lines] : n \in 1..3}
Kept  == UNION {[1..n -> Lines] : n \in 0..3}

AllTexts ==
    Free \cup {<< L("AWB_START", << >>, {}), L("provides", << "type" >>, {}) >> \o t
                    : t \in Kept}
          \cup {<< L("AWB_START", << >>, {}) >> \o t
                    \o << L("provides", << "type" >>, {}), L("AWB_END", << >>, {}) >>
                    : t \in Kept}

(* Source trees of three files that provide one of two types, with and     *)
(* without attributes, one that does not parse and one below a CVS         *)
(* directory.                                                              *)
FileAt(path, ext, provides, attributes, parses) ==
    [path |-> path, ext |-> ext, provides |-> provides,
     attributes |-> attributes, parses |-> parses]

Sets == SUBSET {"x", "y"}

Good(name) ==
    {FileAt(<< "pm", name >>, ".awb", t, s, TRUE) : t \in {"T", "U"}, s \in Sets}

Odd ==
    {FileAt(<< "pm", "broken" >>, ".awb", "T", {"x"}, FALSE),
     FileAt(<< "pm", "readme" >>, ".txt", "T", {}, TRUE),
     FileAt(<< "CVS", "old" >>, ".awb", "T", {"y"}, TRUE),
     FileAt(<< "pm", "CVS", "old" >>, ".awb", "T", {"y"}, TRUE)}

AllTrees == {{a, b, o} : a \in Good("a"), b \in Good("b"), o \in Odd}

AllTypes      == {"T", "U"}
AllAttributes == {<< >>, << "x" >>, << "y", "x" >>, << "x", "y" >>}

-----------------------------------------------------------------------------
FileRests ==
    /\ text = << >> /\ at = 0 /\ region = "before" /\ mod = EmptyModule
    /\ verdict = "no provides"

DbRests == files = {} /\ modules = << >> /\ collects = MaxCollects /\ answer = NoAnswer

moduleVars == << fileVars, dbVars >>

ModulesInit == (FileInit /\ DbRests) \/ (FileRests /\ DbInit)

ModulesNext ==
    \/ FileNext /\ UNCHANGED dbVars
    \/ DbNext /\ UNCHANGED fileVars
=============================================================================
