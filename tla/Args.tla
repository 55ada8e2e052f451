-------------------------------- MODULE Args --------------------------------
(***************************************************************************)
(* The command line of a performance model.  PartitionArgs divides the     *)
(* words among the controller, the system and the feeder, and reads the    *)
(* files that -cfg names in the middle of it; what is left over for the    *)
(* controller are the commands that ParseEvents issues ahead of the        *)
(* scheduler loop, the StartupCommands of Controller.  The minimal         *)
(* controller has the first half only, with options of its own.            *)
(*                                                                         *)
(* A word is a sequence of the parts that are told apart: an option's dash *)
(* and letters, the components of a path, a regular expression's slash.    *)
(***************************************************************************)
EXTENDS Integers, Sequences, SequencesExt, TLC
LOCAL INSTANCE Commands

CONSTANTS
    ArgLines,    \* the command lines
    ArgFiles,    \* the configuration files, by their paths
    Numeric,     \* the words that are numbers, and what they are
    ParamNames,  \* the dynamic parameters that SetParam knows
    Builds       \* what models are built with, of "trace" and "events"

VARIABLES
    program,     \* the controller, "classic" or "minimal"
    builtWith,   \* and what it is built with
    typed,       \* history: the command line
    reading,     \* the words being worked off, and where; the innermost first
    cfgStack,    \* cfg_filename_stack
    whose,       \* feederArgs and systemArgs: whose words these are
    given,       \* awbArgv, sysArgv, fdArgv
    room,        \* awbArgcMax, sysArgcMax, fdArgcMax
    issued,      \* the commands that ParseEvents issued
    said,        \* history: the words that each of them was told with
    stage        \* "partition", "events", or how the program went on

cut     == << program, builtWith, typed, cfgStack, whose, given, room >>
argVars == << cut, reading, issued, said, stage >>

Owners  == {"awb", "system", "feeder"}
Garbage == << "garbage" >>   \* what stands in memory that was not written

ArgsInit ==
    /\ program \in {"classic", "minimal"}
    /\ builtWith \in Builds
    /\ typed \in ArgLines
    /\ reading = << [words |-> typed, at |-> 1] >>
    /\ cfgStack = << >> /\ whose = "awb" /\ stage = "partition"
    /\ given = [o \in Owners |-> << >>]
    /\ room = [o \in Owners |-> Len(typed) + 1]   \* argc counts the program's name
    /\ issued = << >> /\ said = << >>

-----------------------------------------------------------------------------
Now         == Head(reading)
ToRead      == Len(Now.words) - Now.at + 1
Word        == Now.words[Now.at]
NextWord    == IF ToRead > 1 THEN Now.words[Now.at + 1] ELSE << >>
Advanced(n) == << [Now EXCEPT !.at = @ + n] >> \o Tail(reading)

Opt(letters)     == << "-", letters >>
Options(letters) == {Opt(l) : l \in letters}

Stops(how) ==
    stage' = how /\ UNCHANGED << cut, reading, issued, said >>

(* A value that is not there: behind the command line stands a NULL,       *)
(* behind the words of a file what was in the memory.                      *)
WithoutValue == Stops(IF Len(reading) = 1 THEN "crash" ELSE "undefined")

SwitchTo == (<< "--" >> :> "awb") @@ (<< "--", "feeder" >> :> "feeder")
                @@ (<< "--", "system" >> :> "system")

Partitioning == stage = "partition" /\ ToRead > 0

SwitchOwner ==
    /\ Partitioning /\ Word \in DOMAIN SwitchTo
    /\ whose' = SwitchTo[Word]
    /\ reading' = Advanced(1)
    /\ UNCHANGED << program, builtWith, typed, cfgStack, given, room, issued, said, stage >>

(* A file is looked for in the working directory, then beside the file     *)
(* that names it.                                                          *)
ResolveConfigFile(name) ==
    LET beside == IF cfgStack = << >> THEN << >> ELSE Front(Head(cfgStack)) \o name IN
    IF name \in DOMAIN ArgFiles THEN name
    ELSE IF beside \in DOMAIN ArgFiles THEN beside ELSE << >>

IsConfig == program = "classic" /\ Word = Opt("cfg")

ParseConfigFile ==
    /\ Partitioning /\ IsConfig
    /\ LET file == ResolveConfigFile(NextWord) IN
       \/ ToRead = 1 /\ WithoutValue
       \/ ToRead > 1 /\ file = << >> /\ Stops("no file")
       \/ /\ ToRead > 1 /\ file # << >>
          /\ reading' = << [words |-> ArgFiles[file], at |-> 1] >> \o Advanced(2)
          /\ cfgStack' = << file >> \o cfgStack
          /\ room' = [o \in Owners |-> room[o] + Len(ArgFiles[file])]
          /\ UNCHANGED << program, builtWith, typed, whose, given, issued, said, stage >>

EndOfConfigFileKeepsName ==   \* faulty variant: the file's name stays on the stack
    /\ stage = "partition" /\ ToRead = 0 /\ Len(reading) > 1
    /\ reading' = Tail(reading)
    /\ UNCHANGED << cut, issued, said, stage >>

EndOfConfigFile ==
    /\ stage = "partition" /\ ToRead = 0 /\ Len(reading) > 1
    /\ reading' = Tail(reading)
    /\ cfgStack' = Tail(cfgStack)
    /\ UNCHANGED << program, builtWith, typed, whose, given, room, issued, said, stage >>

-----------------------------------------------------------------------------
(* Any other word.                                                         *)
OtherWord == Partitioning /\ Word \notin DOMAIN SwitchTo /\ ~ IsConfig
IsRepeat  == whose = "feeder" /\ program = "classic" /\ Word = Opt("repeat")

Give(words) == given' = [given EXCEPT ![whose] = @ \o words]

(* -repeat writes the feeder's last word again and again; the index is     *)
(* counted up and read in one assignment, so that what is copied is the    *)
(* last word or what was in the memory.                                    *)
Repeat ==
    /\ OtherWord /\ IsRepeat
    /\ \/ ToRead = 1 /\ WithoutValue
       \/ /\ ToRead > 1
          /\ \E w \in {Garbage} \cup
                      (IF given.feeder = << >> THEN {} ELSE {Last(given.feeder)}) :
                Give([i \in 1..Numeric[NextWord] |-> w])
          /\ room' = [room EXCEPT !.feeder = @ + Numeric[NextWord]]
          /\ reading' = Advanced(2)
          /\ UNCHANGED << program, builtWith, typed, cfgStack, whose, issued, said, stage >>

PassOn ==
    /\ OtherWord /\ whose # "awb" /\ ~ IsRepeat
    /\ Give(<< Word >>)
    /\ reading' = Advanced(1)
    /\ UNCHANGED << program, builtWith, typed, cfgStack, whose, room, issued, said, stage >>

(***************************************************************************)
(* ParseVariables: the options that take effect at once, by the number of  *)
(* words they take; what they set is not modelled.                         *)
(***************************************************************************)
ClassicOptions ==
    [alone    |-> Options({"t", "p", "w", "rps", "d", "listnames"}),
     valued   |-> Options({"tms", "ppc", "s", "param", "cf", "wb"}) \cup {<< "-", "t", "m" >>},
     telling  |-> Options({"h", "listparams", "listmasks"}),   \* then the program ends
     noLonger |-> Options({"batch", "awb"})]

MiniOptions ==
    [alone    |-> Options({"t", "p", "w", "rps", "d", "strip", "cf", "wb"}),
     valued   |-> Options({"c", "ppc", "s", "param"}) \cup {<< "-", "t", "m" >>},
     telling  |-> Options({"h", "listparams"}),
     noLonger |-> Options({"batch", "awb", "e"})]

OptionsOf == [classic |-> ClassicOptions, minimal |-> MiniOptions]

IsRegex(word)        == word # << >> /\ word[1] = "/"
Regexed(prog, word)  == prog = "classic" /\ word = Opt("tr")

Takes(prog, word, next) ==
    CASE word \in OptionsOf[prog].alone  -> 1
      [] word \in OptionsOf[prog].valued -> 2
      [] Regexed(prog, word) -> IF IsRegex(next) THEN 2 ELSE 1
      [] OTHER               -> 0

(* What is an assertion or an error of the program.                        *)
RefusedVariable ==
    \/ Word \in OptionsOf[program].noLonger
    \/ /\ program = "classic" /\ "trace" \notin builtWith
       /\ Word = Opt("t") \/ Regexed(program, Word)
    \/ /\ Word = Opt("param") /\ NextWord # << >>
       /\ \/ Len(NextWord) # 3   \* name, "=" and value
          \/ program = "classic" /\ NextWord[1] \notin ParamNames

ParseVariables ==
    LET takes == Takes(program, Word, NextWord)
        named == Word \in Options({"cf", "wb"})   \* a pointer that is only kept
    IN
    /\ OtherWord /\ whose = "awb"
    /\ \/ Word \in OptionsOf[program].telling /\ Stops("told")
       \/ RefusedVariable /\ Stops("error")
       \/ /\ ~ RefusedVariable /\ takes > ToRead
          /\ ~ (named /\ Len(reading) = 1) /\ WithoutValue
       \/ /\ ~ RefusedVariable /\ takes > 0
          /\ takes <= ToRead \/ (named /\ Len(reading) = 1)
          /\ reading' = Advanced(IF takes > ToRead THEN ToRead ELSE takes)
          /\ UNCHANGED << cut, issued, said, stage >>

KeepArg ==
    /\ OtherWord /\ whose = "awb" /\ ~ RefusedVariable
    /\ Word \notin OptionsOf[program].telling /\ Takes(program, Word, NextWord) = 0
    /\ Give(<< Word >>)
    /\ reading' = Advanced(1)
    /\ UNCHANGED << program, builtWith, typed, cfgStack, whose, room, issued, said, stage >>

(* main(): the minimal controller runs without a look at what is left.     *)
Partitioned ==
    /\ stage = "partition" /\ ToRead = 0 /\ Len(reading) = 1
    /\ stage' = IF program = "classic" THEN "events" ELSE "runs"
    /\ reading' = << [words |-> given.awb, at |-> 1] >>
    /\ UNCHANGED << cut, issued, said >>

-----------------------------------------------------------------------------
(***************************************************************************)
(* ParseEvents: one command for each flag.                                 *)
(***************************************************************************)
OnceFor  == [c |-> "CYCLE_ONCE", i |-> "INST_ONCE", m |-> "MACROINST_ONCE",
             n |-> "NANOSECOND_ONCE"]
EachFor  == [c |-> "CYCLE_PERIOD", i |-> "INST_PERIOD", m |-> "MACROINST_PERIOD",
             n |-> "NANOSECOND_PERIOD"]
Measure  == [c |-> "cycle", i |-> "inst", m |-> "macroInst", n |-> "nanosecond"]
SwitchOf == [t |-> "DEBUG", s |-> "STATS", e |-> "EVENTS", c |-> "STRIPCHART",
             p |-> "PROFILE"]
Units    == DOMAIN OnceFor

StartFlags(u) == {<< "-", s, "s", u >> : s \in DOMAIN SwitchOf}
StopFlags(u)  == {<< "-", s, "e", u >> : s \in DOMAIN SwitchOf}
TraceFlag(u)  == << "-", "tr", u >>
Switching(u)  == StartFlags(u) \cup StopFlags(u) \cup {TraceFlag(u)}

ExitFlags     == Options(Units)
ByInstruction == Switching("i")
ByMacroInst   == Switching("m")
ByCycle       == Switching("c")
ByNanosecond  ==   \* what stands for -een and -cen asks for -eec and -cec again
    Switching("n") \ {<< "-", "e", "e", "n" >>, << "-", "c", "e", "n" >>}
ProgressFlags == {<< "-", "p", u >> : u \in Units}
EmitFlags     == {<< "-", "s", u >> : u \in Units}
ResetFlags    == {<< "-", "rs", u >> : u \in Units} \cup {<< "-", "rs", u, "p" >> : u \in Units}

EventFlags ==
    ExitFlags \cup ByInstruction \cup ByMacroInst \cup ByCycle \cup ByNanosecond
        \cup ProgressFlags \cup EmitFlags \cup ResetFlags

EventOf(f, n) ==
    CASE f \in ExitFlags -> CMD_Exit(OnceFor[f[2]], n)
      [] \E u \in Units : f \in StartFlags(u) ->
            Command(SwitchOf[f[2]], "on", OnceFor[f[4]], n)
      [] \E u \in Units : f \in StopFlags(u) ->
            Command(SwitchOf[f[2]], "off", OnceFor[f[4]], n)
      [] \E u \in Units : f = TraceFlag(u) -> CMD_Trace(OnceFor[f[3]], n)
      [] f \in ProgressFlags -> CMD_Progress(Measure[f[3]], EachFor[f[3]], n)
      [] f \in EmitFlags     -> CMD_EmitStats(EachFor[f[3]], n)
      [] f \in ResetFlags    -> CMD_ResetStats(IF Len(f) = 4 THEN EachFor[f[3]]
                                                             ELSE OnceFor[f[3]], n)

XCheck == Opt("xcheck")

(* -ti and its like: a regular expression or none, then the number (-tm is *)
(* taken by ParseVariables).                                               *)
IsTraced(word)   == \E u \in Units \ {"m"} : word = << "-", "t", u >>
TraceNumberAfter == IF IsRegex(NextWord) THEN 2 ELSE 1

Eventing == stage = "events" /\ ToRead > 0

NotBuilt ==   \* a model that lacks what the flag asks for
    \/ "trace" \notin builtWith /\ Len(Word) > 1 /\ Word[1] = "-" /\ Word[2] \in {"t", "tr"}
    \/ "events" \notin builtWith
       /\ \/ Word = Opt("e")
          \/ ToRead > 1 /\ \E u \in Units : Word = << "-", "e", "s", u >>

(* The commands that the next n words ask for.                             *)
Says(commands, n) ==
    /\ issued' = issued \o commands
    /\ said' = Append(said, SubSeq(Now.words, Now.at, Now.at + n - 1))
    /\ reading' = Advanced(n)
    /\ UNCHANGED << cut, stage >>

ParseOneEvent ==
    /\ Eventing /\ ~ NotBuilt
    /\ \/ /\ Word \in EventFlags /\ ToRead > 1
          /\ Says(<< EventOf(Word, Numeric[NextWord]) >>, 2)
       \/ Word = Opt("e") /\ Says(<< CMD_Events("on", "CYCLE_ONCE", 0) >>, 1)
       \/ Word = XCheck /\ ToRead > 1 /\ Says(<< >>, 2)
       \/ /\ IsTraced(Word) /\ ToRead > TraceNumberAfter
          /\ Says(<< CMD_Trace(OnceFor[Word[3]], Numeric[Now.words[Now.at + TraceNumberAfter]]) >>,
                  1 + TraceNumberAfter)

UnknownFlag ==
    /\ Eventing
    /\ \/ NotBuilt /\ Stops("error")
       \/ /\ ~ NotBuilt /\ Word # Opt("e")
          /\ ToRead = 1 \/ (Word \notin EventFlags \cup {XCheck} /\ ~ IsTraced(Word))
          /\ Stops("usage")
       \/ ~ NotBuilt /\ IsTraced(Word) /\ ToRead = 2 /\ TraceNumberAfter = 2 /\ Stops("crash")

EventsDone == stage = "events" /\ ToRead = 0 /\ Stops("runs")

ArgsNext ==
    \/ SwitchOwner \/ ParseConfigFile \/ EndOfConfigFile \/ Repeat \/ PassOn
    \/ ParseVariables \/ KeepArg \/ Partitioned
    \/ ParseOneEvent \/ UnknownFlag \/ EventsDone

-----------------------------------------------------------------------------
(***************************************************************************)
(* What the words mean: a file that is named stands for its words, and     *)
(* each word goes where the last "--" word before it says.                 *)
(***************************************************************************)
RECURSIVE Inlined(_, _)
Inlined(words, dir) ==
    IF words = << >> THEN << >>
    ELSE IF Head(words) # Opt("cfg") \/ Len(words) = 1
         THEN << Head(words) >> \o Inlined(Tail(words), dir)
         ELSE LET file == IF words[2] \in DOMAIN ArgFiles THEN words[2] ELSE dir \o words[2] IN
              Inlined(ArgFiles[file], Front(file))
                  \o Inlined(SubSeq(words, 3, Len(words)), dir)

WholeLine == IF program = "classic" THEN Inlined(typed, << >>) ELSE typed

(* What each owner is given of a line: the words that are not consumed.    *)
Divided(words) ==
    LET Consume(acc, i) ==
          LET w    == words[i]
              next == IF i < Len(words) THEN words[i + 1] ELSE << >>
          IN
          CASE i < acc.next -> acc
            [] i >= acc.next /\ w \in DOMAIN SwitchTo ->
                  [acc EXCEPT !.to = SwitchTo[w], !.next = i + 1]
            [] i >= acc.next /\ acc.to = "feeder" /\ program = "classic" /\ w = Opt("repeat") ->
                  [acc EXCEPT !.next = i + 2,
                              !.feeder = @ \o [k \in 1..Numeric[next] |-> Garbage]]
            [] i >= acc.next /\ acc.to = "awb" /\ Takes(program, w, next) > 0 ->
                  [acc EXCEPT !.next = i + Takes(program, w, next)]
            [] OTHER -> [acc EXCEPT ![acc.to] = Append(@, w), !.next = i + 1]
    IN FoldLeft(Consume, [to |-> "awb", next |-> 1, awb |-> << >>, system |-> << >>,
                          feeder |-> << >>], [i \in DOMAIN words |-> i])

(* The command line is divided as if the words of the files stood in it,   *)
(* in the places where they are named; no array overflows; the commands    *)
(* are told with the controller's words in their order, each used once; a  *)
(* file is not missed that stands beside the one that names it             *)
(* (PartitionArgs, ParseConfigFile, ParseEvents).  What -repeat copied may *)
(* be anything.                                                            *)
ArgsAsTyped ==
    /\ stage = "no file" => \A f \in DOMAIN ArgFiles : ~ IsSuffix(NextWord, f)
    /\ \A o \in Owners : Len(given[o]) <= room[o]
    /\ stage \in {"events", "usage", "runs"} =>
          LET meant == Divided(WholeLine) IN
          \A o \in Owners :
             /\ Len(given[o]) = Len(meant[o])
             /\ \A i \in DOMAIN given[o] : meant[o][i] \in {given[o][i], Garbage}
    /\ stage \in {"events", "usage"} => FlattenSeq(said) = SubSeq(given.awb, 1, Now.at - 1)
    /\ stage = "runs" /\ program = "classic" => FlattenSeq(said) = given.awb
=============================================================================
