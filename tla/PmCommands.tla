------------------------------ MODULE PmCommands ------------------------------
(***************************************************************************)
(* The three copies of the workbench's commands side by side.  A process   *)
(* has one of them; its user asks for the states of the model, component   *)
(* by component, or gives commands.                                        *)
(***************************************************************************)
EXTENDS PmProcess

Tcl    == INSTANCE TclCommands
Remote == INSTANCE RemoteCommands
NoTcl  == INSTANCE NoTclCommands

CONSTANTS
    StateLists,   \* what CMD_StateList may be, for the search
    CommandList,  \* and for the commands
    PmWords,      \* the commands
    PmDone        \* bound: the commands that are performed one after the other;
                  \* the others are only tried after each of them
Copies == {"Tcl", "remote", "no-Tcl"}

VARIABLES
    copy,    \* the copy of the commands that the process has
    pm,      \* the process
    search,  \* whether its user searches the states, or gives commands
    toAsk,    \* the paths the user has not yet asked for the states of
    shown    \* the states the user has been answered

pmVars == << copy, pm, search, toAsk, shown >>

-----------------------------------------------------------------------------
(* A command of the Tcl interpreter is one of its procedures.              *)
TclDoes(p, argv) ==
    CASE argv[1] = "PmState"    -> Tcl!PmStateCmd(p, argv)
      [] argv[1] = "PmEvent"    -> Tcl!PmEventCmd(p, argv)
      [] argv[1] = "PmStrip"    -> Tcl!PmStripCmd(p, argv)
      [] argv[1] = "PmTrace"    -> Tcl!PmTraceCmd(p, argv)
      [] argv[1] = "PmMarker"   -> Tcl!PmMarkerCmd(p, argv)
      [] argv[1] = "PmSymbol"   -> Tcl!PmSymbolCmd(p, argv)
      [] argv[1] = "PmSchedule" -> Tcl!PmScheduleCmd(p, argv)
      [] argv[1] = "PmControl"  -> Tcl!PmControlCmd(p, argv)

RemoteDoes(p, argv) ==
    CASE argv[1] = "PmState"    -> Remote!PmStateCmd(p, argv)
      [] argv[1] = "PmEvent"    -> Remote!PmEventCmd(p, argv)
      [] argv[1] = "PmStrip"    -> Remote!PmStripCmd(p, argv)
      [] argv[1] = "PmTrace"    -> Remote!PmTraceCmd(p, argv)
      [] argv[1] = "PmMarker"   -> Remote!PmMarkerCmd(p, argv)
      [] argv[1] = "PmSymbol"   -> Remote!PmSymbolCmd(p, argv)
      [] argv[1] = "PmSchedule" -> Remote!PmScheduleCmd(p, argv)
      [] argv[1] = "PmControl"  -> Remote!PmControlCmd(p, argv)

(* The function of the workbench without Tcl that stands for a command, or *)
(* none: not every command has one, and a function has its parameters.     *)
Is(argv, command, option, lengths) ==
    Len(argv) \in lengths /\ argv[1] = command /\ argv[2] = option

Numbers(argv, n) == [i \in 1..Len(argv) - n |-> Numeral[argv[n + i]]]

StopFunctions ==
    [now |-> "now", cycle_once |-> "cycle", nanosecond_once |-> "nanosecond",
     inst_once |-> "inst", macroinst_once |-> "macroinst"]

NoTclState(p, argv) ==
    LET which == IF Len(argv) = 2 THEN "all" ELSE argv[3] IN
    CASE Is(argv, "PmState", "suspend", {2, 3})   -> {NoTcl!PmStateSuspend(p, which)}
      [] Is(argv, "PmState", "unsuspend", {2, 3}) -> {NoTcl!PmStateUnsuspend(p, which)}
      [] Is(argv, "PmState", "dump", {3})         -> {NoTcl!PmStateDump(p, argv[3])}
      [] Is(argv, "PmState", "find", {3})         -> {NoTcl!PmStateFind(p, argv[3])}
      [] \E o \in {"path", "name", "desc"} : Is(argv, "PmState", o, {3}) ->
            {NoTcl!PmStateTold(p, argv[2], argv[3])}
      [] OTHER -> {}

NoTclSwitch(p, argv) ==
    CASE Is(argv, "PmEvent", "on", {2})        -> {NoTcl!PmEventOn(p)}
      [] Is(argv, "PmEvent", "off", {2})       -> {NoTcl!PmEventOff(p)}
      [] Is(argv, "PmEvent", "filename", {3})  -> {NoTcl!PmEventFilename(p, argv[3])}
      [] argv[1] = "PmStrip" /\ Len(argv) = 2  -> {NoTcl!PmStrip(p, argv[2])}
      [] argv[1] = "PmTrace" /\ Len(argv) = 2  -> {NoTcl!PmTrace(p, argv[2])}
      [] Is(argv, "PmMarker", "set", {6, 7})   ->
            {NoTcl!PmMarkerSet(p, argv[3], Numeral[argv[4]], argv[5], Numbers(argv, 5))}
      [] Is(argv, "PmMarker", "clear", {5, 6}) /\ (argv[5] = "pc" => Len(argv) = 6) ->
            {NoTcl!PmMarkerClear(p, argv[3], Numeral[argv[4]], argv[5], Numbers(argv, 5))}
      [] OTHER -> {}

NoTclSchedule(p, argv) ==
    LET last == argv[Len(argv)]
        time == IF last = "now" THEN 0 ELSE Numeral[last]
    IN CASE last \notin DOMAIN Numeral \cup {"now", "start"} -> {}
         [] Is(argv, "PmSchedule", "start", {2}) -> {NoTcl!PmScheduleStart(p)}
         [] Is(argv, "PmSchedule", "exit", {3}) -> {NoTcl!PmScheduleExitNow(p)}
         [] Is(argv, "PmSchedule", "stop", {3, 4}) ->
               {NoTcl!PmScheduleStop(p, StopFunctions[w], time) :
                   w \in {argv[3]} \cap DOMAIN StopFunctions}
         [] Is(argv, "PmSchedule", "schedthread", {4, 5}) ->
               {NoTcl!PmScheduleThread(p, argv[3], argv[4], time)}
         [] Is(argv, "PmSchedule", "unschedthread", {4, 5}) ->
               {NoTcl!PmUnscheduleThread(p, argv[3], argv[4], time)}
         [] Is(argv, "PmSchedule", "skipthread", {6, 7}) ->
               {NoTcl!PmScheduleSkipThread(p, argv[3], Numeral[argv[4]], Numeral[argv[5]],
                                           argv[6], time)}
         [] OTHER -> {}

NoTclControl(p, argv) ==
    CASE Len(argv) = 2 /\ argv[2] \in {"cycle", "globalcommitted", "numcpus",
                                      "committedMarkers", "receivedPkt"} ->
            {NoTcl!PmAsk(p, argv[2], 0)}
      [] \E o \in {"cpucycle", "committed"} : Is(argv, "PmControl", o, {3}) ->
            {NoTcl!PmAsk(p, argv[2], Numeral[argv[3]])}
      [] Is(argv, "PmControl", "commitWatchMarker", {3}) ->
            {NoTcl!PmCommittedWatchMarker(p, Numeral[argv[3]])}
      [] \E o \in {"beginDrain", "endDrain"} : Is(argv, "PmControl", o, {2}) ->
            {NoTcl!PmDrain(p, argv[2])}
      [] OTHER -> {}

NoTclDoes(p, argv) ==
    CASE Len(argv) < 2          -> {}
      [] argv[1] = "PmState"    -> NoTclState(p, argv)
      [] argv[1] = "PmSchedule" -> NoTclSchedule(p, argv)
      [] argv[1] = "PmControl"  -> NoTclControl(p, argv)
      [] OTHER                  -> NoTclSwitch(p, argv)

(* The process after a command, of any of the copies that have it.         *)
Outcomes(c, p, argv) ==
    CASE c = "Tcl"    -> {TclDoes(Begin(p), argv)}
      [] c = "remote" -> {RemoteDoes(Begin(p), argv)}
      [] c = "no-Tcl" -> NoTclDoes(Begin(p), argv)

-----------------------------------------------------------------------------
PmInit ==
    /\ \/ /\ copy \in Copies \ {"no-Tcl"}   \* its PmStateStates is not done yet
          /\ \E states \in StateLists : pm = NewProcess(states, FALSE)
          /\ search = TRUE /\ toAsk = << << >> >>
       \/ /\ copy \in Copies
          /\ \E events \in BOOLEAN : pm = NewProcess(CommandList, events)
          /\ search = FALSE /\ toAsk = << >>
    /\ shown = {}

(* The user asks for what is at a path, and later for each module there.   *)
AskForStates ==
    /\ toAsk # << >>
    /\ \E q \in Outcomes(copy, pm, << "PmState", "states", Head(toAsk) >>) :
         LET modules == SelectSeq(q.answer, LAMBDA e : e[1] = "MODULE__") IN
         /\ toAsk' = Tail(toAsk) \o [i \in DOMAIN modules |-> modules[i][2]]
         /\ shown' = shown \cup {e[2] : e \in ToSet(q.answer) \ ToSet(modules)}
    /\ UNCHANGED << copy, pm, search >>

GiveCommand ==
    /\ ~ search /\ ~ Ended(pm)
    /\ \E argv \in PmDone : pm' \in Outcomes(copy, pm, argv)
    /\ UNCHANGED << copy, search, toAsk, shown >>

PmNext == AskForStates \/ GiveCommand

PmSpec == PmInit /\ [][PmNext]_pmVars

-----------------------------------------------------------------------------
(* Going down from the empty path through the modules that are listed, one *)
(* comes to every state, whatever the paths and their cases (PmStateStates *)
(* lists a prefix once only and compares without case).                    *)
StatesFound == search /\ toAsk = << >> => shown = AllStates(pm)

(* That statistics are said to be off goes with what is suspended: they    *)
(* are not said to be on while everything is, nor, but for the copy whose  *)
(* PmStateUnsuspend says off too, to be off while nothing is.              *)
SaidAsSuspended ==
    /\ pm.suspended = AllStates(pm) => ~ pm.statsOn
    /\ pm.suspended = {} /\ copy # "no-Tcl" => pm.statsOn

(* Where the copies differ, and are known to.                              *)
Differs(argv) ==
    /\ Len(argv) > 1
    /\ \/ argv[1] = "PmTrace"                          \* nothing is done in Tcl's copy
       \/ argv[1] = "PmControl" /\ argv[2] \in {"nanosecond", "active", "cpucycle"}
       \/ argv[1] = "PmEvent" /\ argv[2] \notin {"on", "off", "filename"}
       \/ argv[1] = "PmSchedule" /\ Len(argv) > 2 /\ argv[3] = "all"
       \/ /\ argv[1] = "PmState" /\ argv[2] = "value" /\ Len(argv) = 3
          /\ \E s \in AllStates(pm) : argv[3] = StateDescs[s] /\ pm.states[s].type = "FP"

(* What a command that is not refused did, but for what is told of         *)
(* statistics by "unsuspend" and how the event library is started.         *)
Effect(p, argv) ==
    [flags  |-> [f \in Flags \ (IF argv[2] = "unsuspend" THEN {"statsOn"} ELSE {}) |-> p[f]],
     calls  |-> IF argv[1] = "PmEvent" /\ argv[2] = "on" THEN << >> ELSE p.calls,
     answer |-> p.answer]

NoEffect(p) == p.calls = << >> /\ \A f \in Flags : p[f] = pm[f]

(* A command means the same in all the copies: it is refused by all, and   *)
(* then nothing has changed, or it is done by all, with the same calls,    *)
(* the same flags and the same answer.                                     *)
SameMeaning ==
    ~ search => \A argv \in PmWords : ~ Differs(argv) =>
        LET all  == UNION {Outcomes(c, pm, argv) : c \in Copies}
            done == {p \in all : p.code = "ok"}
        IN \/ done = {} /\ \A p \in all : NoEffect(p)
           \/ done = all /\ Cardinality({Effect(p, argv) : p \in all}) = 1
=============================================================================
