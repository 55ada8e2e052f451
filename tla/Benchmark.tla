------------------------------ MODULE Benchmark ------------------------------
(***************************************************************************)
(* Reading a benchmark file (.cfg, or what a .cfx script writes):          *)
(* Benchmark::Parse.  A line is its indentation and its words, of which    *)
(* the braces of a Tcl list and "%R" are some; blanks between words are    *)
(* not modelled.  What is to be read is what GenCFG::emit prints of a      *)
(* benchmark, or the part of it that was printed before the script ended.  *)
(***************************************************************************)
EXTENDS Integers, Sequences, SequencesExt

CONSTANTS
    Benchmarks,  \* benchmarks, as GenCFG.pm holds them
    Requests     \* what may be asked for, see BenchmarkInit

VARIABLES
    bm,         \* the benchmark that the file was written from
    request,    \* the file name that is given to Parse
    whole,      \* is the file as long as it was meant to be?
    cfg,        \* its lines
    line,       \* the number of lines read
    buf,        \* the words in cfgBuf
    items,      \* the items read so far, itemNumber of them
    cmdsIndent, \* the indentation of the commands section, -1 before its "{"
    commands,   \* commandList
    section,    \* "items", "commands", "end"
    outcome     \* "reading", "ok" or why Parse returned false

bmVars == << bm, request, whole, cfg, line, buf, items, cmdsIndent, commands,
             section, outcome >>

CfgLine(indent, words) == [indent |-> indent, words |-> words]
Braced(words)    == << "{" >> \o words \o << "}" >>

(* GenCFG::emit.                                                           *)
Emitted(b) ==
    << CfgLine(0, << "BmAdd", "{" >>), CfgLine(2, b.name), CfgLine(2, b.name), CfgLine(2, Braced(b.info)),
       CfgLine(2, b.feeder), CfgLine(2, b.setup), CfgLine(2, Braced(b.genflags)),
       CfgLine(2, Braced(b.feedflags)), CfgLine(2, Braced(b.sysflags)), CfgLine(2, << "{" >>) >>
    \o [k \in DOMAIN b.ctrl |-> CfgLine(4 + b.ctrl[k].indent, b.ctrl[k].words)]
    \o << CfgLine(2, << "}" >>), CfgLine(0, << "}" >>) >>

(* A request has a region, "" or its suffix, and the kind of its path.     *)
BenchmarkInit ==
    /\ bm \in Benchmarks
    /\ request \in Requests
    /\ \E n \in 0..Len(Emitted(bm)) :
          /\ cfg = SubSeq(Emitted(bm), 1, n)
          /\ whole = (n = Len(Emitted(bm)))
    /\ line = 0 /\ buf = << >> /\ items = << >>
    /\ cmdsIndent = -1 /\ commands = << >>
    /\ section = "items" /\ outcome = "reading"

-----------------------------------------------------------------------------
Exists == request.kind \in {"file", "script"}

(* An empty name, a directory or a missing file is refused before it is    *)
(* opened.                                                                 *)
NotFound ==
    /\ outcome = "reading" /\ ~Exists
    /\ outcome' = "not found"
    /\ UNCHANGED << bm, request, whole, cfg, line, buf, items, cmdsIndent,
                    commands, section >>

ReadLine == outcome = "reading" /\ Exists /\ line < Len(cfg)
AtEnd    == outcome = "reading" /\ Exists /\ line = Len(cfg)

(* "%R" stands for the suffix of the region, in every line.                *)
Regional(words) ==
    IF request.region = "" THEN SelectSeq(words, LAMBDA w : w # "%R")
    ELSE [k \in DOMAIN words |-> IF words[k] = "%R" THEN request.region ELSE words[k]]

Here  == Regional(cfg[line + 1].words)
Dents == cfg[line + 1].indent

Taken == line' = line + 1 /\ buf' = cfg[line + 1].words

(* Braces are trimmed from both ends of an item.                           *)
Trimmed(words) ==
    LET kept(w) == {k \in DOMAIN words : words[k] # w}
        first   == CHOOSE k \in kept("{") : \A j \in kept("{") : k <= j
        last    == CHOOSE k \in kept("}") : \A j \in kept("}") : j <= k
    IN  IF kept("{") = {} \/ kept("}") = {} THEN << >>
        ELSE SubSeq(words, first, last)

Dirs(words) ==   \* SubstituteVariables
    [k \in DOMAIN words |->
        CASE words[k] = "BENCHMARKDIR" -> "/bm" [] words[k] = "CONFIGDIR" -> "/cfg"
          [] OTHER -> words[k]]

RegionArgs == IF request.region = "" THEN << >> ELSE << "--region", request.region >>

SetupItem(words) ==
    IF words = << >> THEN [file |-> << >>, args |-> Dirs(RegionArgs)]
    ELSE [file |-> << Head(words) >>, args |-> Dirs(Tail(words) \o RegionArgs)]

(* The flags that are meant for Parse's caller are taken out, once.        *)
WithoutRegions(words) ==
    LET ats == {k \in DOMAIN words : words[k] = "--regions"}
        k  == CHOOSE j \in ats : \A i \in ats : j <= i
    IN  IF ats = {} THEN words
        ELSE SubSeq(words, 1, k - 1)
             \o SubSeq(words, IF k < Len(words) /\ words[k + 1] = "5" THEN k + 2
                                                                     ELSE k + 1,
                       Len(words))

WithoutQuery(words) ==
    IF "--queryregions" \in ToSet(words) THEN RemoveFirst(words, "--queryregions")
    ELSE words

ItemOf(n, words) ==
    CASE n = 5 -> SetupItem(words)
      [] n = 6 -> WithoutQuery(WithoutRegions(words))
      [] OTHER -> words

BmHeader(words) == Trimmed(words) \in {<< "BmAdd" >>, << "BmAdd", "{" >>}

HeaderLine ==
    /\ ReadLine /\ section = "items" /\ BmHeader(Here)
    /\ Taken
    /\ UNCHANGED << bm, request, whole, cfg, items, cmdsIndent, commands, section,
                    outcome >>

Item ==
    /\ ReadLine /\ section = "items" /\ ~BmHeader(Here)
    /\ items' = Append(items, ItemOf(Len(items) + 1, Trimmed(Here)))
    /\ section' = IF Len(items) = 7 THEN "commands" ELSE "items"
    /\ Taken
    /\ UNCHANGED << bm, request, whole, cfg, cmdsIndent, commands, outcome >>

-----------------------------------------------------------------------------
(* The commands section: a line of a brace is its end when it stands where *)
(* the section began, or further left.                                     *)
InCommands == ReadLine /\ section = "commands"

EmptySection == Here = << "{", "}" >>

CommandsBegin ==
    /\ InCommands /\ cmdsIndent = -1 /\ Here = << "{" >>
    /\ cmdsIndent' = Dents
    /\ Taken
    /\ UNCHANGED << bm, request, whole, cfg, items, commands, section, outcome >>

EndsAnywhere == Here = << "}" >>   \* faulty variant: whatever its indentation

EndsSection ==
    Here = << "}" >> /\ Dents <= IF cmdsIndent = -1 THEN 0 ELSE cmdsIndent

CommandsEnd ==
    /\ InCommands /\ (EmptySection \/ EndsSection)
    /\ section' = "end"
    /\ Taken
    /\ UNCHANGED << bm, request, whole, cfg, items, cmdsIndent, commands, outcome >>

(* Commands are two columns further right than the section.                *)
IndentOf == IF cmdsIndent = -1 THEN 0 ELSE cmdsIndent + 2

AddCommand ==
    /\ InCommands
    /\ ~EmptySection /\ ~EndsSection /\ ~(cmdsIndent = -1 /\ Here = << "{" >>)
    /\ commands' = Append(commands,
                     CfgLine(IF Dents >= IndentOf THEN Dents - IndentOf ELSE 0, Here))
    /\ Taken
    /\ UNCHANGED << bm, request, whole, cfg, items, cmdsIndent, section, outcome >>

(* Behind the section a line "}" has to follow.  When there is no line,    *)
(* cfgBuf still holds the one before.                                      *)
Verdict(words) == IF words = << "}" >> THEN "ok" ELSE "file end"

EndOfFile ==
    /\ AtEnd
    /\ outcome' = IF Len(items) # 8 THEN "items" ELSE Verdict(buf)
    /\ UNCHANGED << bm, request, whole, cfg, line, buf, items, cmdsIndent, commands,
                    section >>

LastLine ==
    /\ ReadLine /\ section = "end"
    /\ Taken
    /\ outcome' = Verdict(cfg[line + 1].words)
    /\ UNCHANGED << bm, request, whole, cfg, items, cmdsIndent, commands, section >>

BenchmarkNext ==
    \/ NotFound \/ HeaderLine \/ Item \/ CommandsBegin \/ CommandsEnd
    \/ AddCommand \/ EndOfFile \/ LastLine

-----------------------------------------------------------------------------
Command(k) == CfgLine(bm.ctrl[k].indent, Regional(bm.ctrl[k].words))

(* A command whose line is only "{}" is taken for an empty section: it     *)
(* ends the commands wherever it stands.                                   *)
EmptyLines == {k \in DOMAIN bm.ctrl : Regional(bm.ctrl[k].words) = << "{", "}" >>}

CommandsKept ==   \* the number of commands in front of the first such line
    IF EmptyLines = {} THEN Len(bm.ctrl)
    ELSE (CHOOSE k \in EmptyLines : \A j \in EmptyLines : k <= j) - 1

(* A file that is complete and has no line "{}" among its commands is      *)
(* taken, and its commands are those of the benchmark, also when a command *)
(* has other lines of braces: provided that no line of a command stands as *)
(* far left as the section.  A file with a line "{}" is refused, or taken  *)
(* with no more than the commands in front of that line.                   *)
CommandsReadBack ==
    /\ outcome \notin {"reading", "ok"} => ~whole \/ ~Exists \/ EmptyLines # {}
    /\ outcome = "ok" /\ whole => commands = [k \in 1..CommandsKept |-> Command(k)]

(* The eight items are those of the benchmark, the flags that ask for      *)
(* regions apart; the setup script is told which region it is.             *)
Meant(words) == Trimmed(Regional(words))

ItemsReadBack ==
    outcome = "ok" =>
        /\ items[1] = Meant(bm.name) /\ items[3] = Meant(bm.info)
        /\ items[5].file = << Head(Meant(bm.setup)) >>
        /\ (request.region # "") <=> ("--region" \in ToSet(items[5].args))
        /\ {"--regions", "--queryregions"} \cap ToSet(items[6]) = {}
        /\ ToSet(items[6]) \subseteq ToSet(Meant(bm.genflags))
        /\ items[8] = Meant(bm.sysflags)

(* A file of which the end is missing is refused, unless it ends by chance *)
(* with a line "}": of the section, or of a command.                       *)
TruncationNoticed ==
    outcome = "ok" /\ ~whole => Last(cfg).words = << "}" >>

(* A benchmark is read as it was emitted, up to a line "{}" among its      *)
(* commands, or refused.                                                   *)
BenchmarkReadBack == CommandsReadBack /\ ItemsReadBack /\ TruncationNoticed
=============================================================================
