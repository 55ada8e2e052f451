----------------------------- MODULE ModuleFile -----------------------------
(***************************************************************************)
(* Reading a module file (.awb): Module::Parse and ModParam::Parse.  A     *)
(* line is its directive and the words behind it; the layout of a line,    *)
(* which regular expressions take apart, is not modelled: a line here has  *)
(* the directive that they find in it, so that one with fewer than three   *)
(* characters behind it (except %provides) is "other".                     *)
(***************************************************************************)
EXTENDS Integers, Sequences, SequencesExt

CONSTANTS
    Texts    \* module files, sequences of lines

VARIABLES
    text,    \* the file that is read
    at,      \* the number of lines read
    region,  \* where the reader is: before, inside or behind the awb region
    mod,     \* the Module object
    verdict  \* "reading", "ok" or what is wrong

fileVars == << text, at, region, mod, verdict >>

(* Directives that may stand once, that take a list of words, and that     *)
(* take the rest of the line as one word.                                  *)
Single == {"name", "desc", "provides"}
Listed == {"requires", "public", "private", "library", "include",
           "syslibrary", "sysinclude", "makefile", "conscript"}
Whole  == {"attributes", "target", "ifile_opt"}
Params == {"param", "export", "const"}
Fields == Single \cup Listed \cup Whole \cup {"params"}

EmptyModule == [f \in Fields |-> << >>]

(* A parameter line has the words name, default, and the marks "dynamic"   *)
(* and "quoted"; a quote that is not closed does not match.                *)
ParamParses(line) ==
    /\ "unclosed" \notin line.marks
    /\ line.d = "const" => "dynamic" \notin line.marks

ParsedParam(line) ==
    [name       |-> line.words[1],
     default    |-> line.words[2],
     string     |-> "quoted" \in line.marks,
     visibility |-> IF line.d = "param" THEN "Local" ELSE "Subtree",
     mutability |-> IF line.d = "const" THEN "Module"
                    ELSE IF "dynamic" \in line.marks THEN "Startup"
                    ELSE "Model"]

MarkedDynamic(param) == param.mutability \in {"Startup", "Runtime"}

FileInit ==
    /\ text \in Texts
    /\ at = 0
    /\ region = "before"
    /\ mod = EmptyModule
    /\ verdict = "reading"

Line == text[at + 1]

Reading == verdict = "reading" /\ at < Len(text) /\ region # "behind"

Seen(d) == Reading /\ Line.d = d
SeenInside(D) == Reading /\ region = "inside" /\ Line.d \in D

Accept == at' = at + 1 /\ UNCHANGED << text, verdict >>
Refuse(why) == verdict' = why /\ UNCHANGED << text, at, region, mod >>

(* %AWB_START and %AWB_END are looked for on every line; the latter ends   *)
(* the reading.                                                            *)
Start ==
    /\ Seen("AWB_START")
    /\ \/ /\ region = "inside"
          /\ Refuse("nested")
       \/ /\ region = "before"
          /\ region' = "inside"
          /\ Accept /\ UNCHANGED mod

EndReadsOn ==   \* faulty variant: a second region is read as well
    /\ Seen("AWB_END")
    /\ region = "inside"
    /\ region' = "before"
    /\ Accept /\ UNCHANGED mod

End ==
    /\ Seen("AWB_END")
    /\ \/ /\ region = "before"
          /\ Refuse("unmatched")
       \/ /\ region = "inside"
          /\ region' = "behind"
          /\ Accept /\ UNCHANGED mod

Outside ==
    /\ Reading /\ region = "before"
    /\ Line.d \notin {"AWB_START", "AWB_END"}
    /\ Accept /\ UNCHANGED << region, mod >>

(* The name is an attribute as well.                                       *)
SetOnce ==
    /\ SeenInside(Single)
    /\ \/ /\ mod[Line.d] # << >>
          /\ Refuse("multiple")
       \/ /\ mod[Line.d] = << >>
          /\ mod' = [mod EXCEPT
                ![Line.d] = << Line.words[1] >>,
                !["attributes"] = IF Line.d = "name"
                                  THEN Append(@, Line.words[1]) ELSE @]
          /\ Accept /\ UNCHANGED region

AddWords ==
    /\ SeenInside(Listed)
    /\ mod' = [mod EXCEPT ![Line.d] = @ \o Line.words]
    /\ Accept /\ UNCHANGED region

AddWhole ==
    /\ SeenInside(Whole)
    /\ mod' = [mod EXCEPT ![Line.d] = Append(@, Line.words)]
    /\ Accept /\ UNCHANGED region

AddParam ==
    /\ SeenInside(Params)
    /\ \/ /\ ~ParamParses(Line)
          /\ Refuse("param")
       \/ /\ ParamParses(Line)
          /\ mod' = [mod EXCEPT !["params"] = Append(@, ParsedParam(Line))]
          /\ Accept /\ UNCHANGED region

(* Anything else is a comment.                                             *)
Comment ==
    /\ SeenInside({"other"})
    /\ Accept /\ UNCHANGED << region, mod >>

(* The end of the file, or of the region.                                  *)
Parsed ==
    /\ verdict = "reading"
    /\ at = Len(text) \/ region = "behind"
    /\ verdict' = IF mod["provides"] = << >> THEN "no provides" ELSE "ok"
    /\ UNCHANGED << text, at, region, mod >>

FileNext ==
    \/ Start \/ End \/ Outside \/ SetOnce \/ AddWords \/ AddWhole \/ AddParam
    \/ Comment \/ Parsed

FileSpec == FileInit /\ [][FileNext]_fileVars /\ WF_fileVars(FileNext)

-----------------------------------------------------------------------------
(***************************************************************************)
(* What a module file means, without reading it line by line.              *)
(***************************************************************************)
Starts == {i \in 1..Len(text) : text[i].d = "AWB_START"}
Ends   == {i \in 1..Len(text) : text[i].d = "AWB_END"}

RegionStart == CHOOSE i \in Starts : \A j \in Starts : i <= j
RegionEnd   ==
    IF Ends = {} THEN Len(text) + 1
    ELSE CHOOSE i \in Ends : \A j \in Ends : i <= j

RegionLines ==
    IF Starts = {} THEN << >>
    ELSE SubSeq(text, RegionStart + 1, RegionEnd - 1)

Count(d) == Len(SelectSeq(RegionLines, LAMBDA l : l.d = d))

WordsOf(d) ==
    FlattenSeq([k \in 1..Len(SelectSeq(RegionLines, LAMBDA l : l.d = d)) |->
                    SelectSeq(RegionLines, LAMBDA l : l.d = d)[k].words])

WellFormed ==
    /\ Ends # {} => Starts # {} /\ RegionStart < RegionEnd
    /\ \A i \in Starts : i = RegionStart \/ i > RegionEnd
    /\ Count("provides") = 1
    /\ Count("name") <= 1 /\ Count("desc") <= 1
    /\ \A k \in 1..Len(RegionLines) :
          RegionLines[k].d \in Params => ParamParses(RegionLines[k])

(* A file is taken exactly when it is well formed: what stands outside of  *)
(* its first region, and before or behind an error, does not matter.       *)
TakenIffWellFormed ==
    verdict # "reading" => (verdict = "ok" <=> WellFormed)

(* No word of the region is lost, added or put into another list, however  *)
(* its directives are mixed.                                               *)
NothingLost ==
    verdict = "ok" =>
        /\ \A d \in Listed \cup Single : mod[d] = WordsOf(d)
        /\ Len(mod["params"]) = Count("param") + Count("export") + Count("const")

(* Module::Parse takes what it should and reads what is written.           *)
ParsedAsWritten == TakenIffWellFormed /\ NothingLost
=============================================================================
