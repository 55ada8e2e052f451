---------------------------- MODULE RemoteCommands ----------------------------
(***************************************************************************)
(* The workbench commands of a performance model whose Tcl interpreter is  *)
(* at the other end of a connection (awb_taratiTclBeamer.cpp).             *)
(***************************************************************************)
EXTENDS PmProcess

PmStateDescToPtr(desc) ==
    IF desc \in Range(StateDescs) THEN CHOOSE s \in DOMAIN StateDescs : StateDescs[s] = desc
    ELSE NullPtr

PmThreadDescToPtr(desc) == IF desc \in DOMAIN ThreadOf THEN ThreadOf[desc] ELSE NullPtr

(***************************************************************************)
(* PmState                                                                 *)
(***************************************************************************)
(* What a state whose path begins with path, but is longer, is listed as:  *)
(* the path up to the next component.                                      *)
NextPrefix(statePath, path) ==
    LET slashes == SlashesAfter(statePath, Len(path)) IN
    IF slashes = {} THEN statePath
    ELSE SubSeq(statePath, 1, (CHOOSE i \in slashes : \A j \in slashes : i <= j) - 1)

Begins(statePath, path) == PrefixNoCase(path, statePath)   \* strncasecmp

PmStateStates(p, path) ==
    LET List(found, s) ==
          LET statePath == p.states[s].path
              prefix    == NextPrefix(statePath, path)
          IN CASE path = AnyPath \/ SameNoCase(statePath, path) ->
                    [found EXCEPT !.answer = Append(@, << "STATE__", s >>)]
               [] ~ Begins(statePath, path) -> found
               [] SameNoCase(found.last, prefix) -> found
               [] OTHER -> [answer |-> Append(found.answer, << "MODULE__", prefix >>),
                            last |-> prefix]
    IN Reply(p, FoldLeft(List, [answer |-> << >>, last |-> << >>],
                         [s \in DOMAIN p.states |-> s]).answer)

PmStateFind(p, name) ==
    LET named == {s \in AllStates(p) : SameNoCase(p.states[s].name, name)} IN
    Reply(p, IF named = {} THEN << >>
             ELSE << << "STATE__", CHOOSE s \in named : \A t \in named : s <= t >> >>)

(* What is said of a histogram replaces an array of floating point         *)
(* numbers: there is no break.                                             *)
PmStateValue(p, desc) ==
    LET s == PmStateDescToPtr(desc)
        Values(tag) == [i \in 1..p.states[s].size |-> << tag, i >>]
        NotSupported(type) == << << "not supported", type >> >>
    IN IF s = NullPtr THEN Refused(p, "descriptor")
       ELSE Reply(p, CASE p.states[s].type = "UINT" -> Values("uint")
                       [] p.states[s].type = "FP" -> NotSupported("HISTOGRAM")
                       [] OTHER -> NotSupported(p.states[s].type))

PmStateDump(p, file) ==
    Calling(p, [s \in AllStates(p) |-> << "Update", s >>]
            \o << << "PrintModuleStats", file >>, << "DumpAllFeederStats", file >> >>)

PmStateSuspend(p, which) ==
    [p EXCEPT !.statsOn = FALSE, !.suspended = @ \cup which]

PmStateUnsuspend(p, which) ==
    [p EXCEPT !.statsOn = TRUE, !.suspended = @ \ which]

(* One state's descriptor, or none for all the states.                     *)
OfStates(p, argv, Do(_, _)) ==
    LET s == PmStateDescToPtr(argv[3]) IN
    CASE Len(argv) = 2 -> Do(p, AllStates(p))
      [] s = NullPtr      -> Refused(p, "descriptor")
      [] OTHER         -> Do(p, {s})

(* path, name and desc of a state.                                         *)
PmStateTold(p, option, desc) ==
    IF PmStateDescToPtr(desc) = NullPtr THEN Refused(p, "descriptor")
    ELSE Reply(p, << << option, PmStateDescToPtr(desc) >> >>)

(* The options, and the numbers of words that each is given with.          *)
StateOptions ==
    [states |-> {2, 3}, find |-> {3}, dump |-> {3}, suspend |-> {2, 3}, unsuspend |-> {2, 3},
     value |-> {3}, path |-> {3}, name |-> {3}, desc |-> {3}]

Misused(options, argv) ==
    CASE Len(argv) < 2 -> "usage"
      [] argv[2] \notin DOMAIN options -> "option"
      [] OTHER -> IF Len(argv) \in options[argv[2]] THEN "no" ELSE "usage"

PmStateCmd(p, argv) ==
    CASE Misused(StateOptions, argv) # "no" -> Refused(p, Misused(StateOptions, argv))
      [] argv[2] = "states"    -> PmStateStates(p, IF Len(argv) = 2 THEN AnyPath ELSE argv[3])
      [] argv[2] = "find"      -> PmStateFind(p, argv[3])
      [] argv[2] = "dump"      -> PmStateDump(p, argv[3])
      [] argv[2] = "suspend"   -> OfStates(p, argv, PmStateSuspend)
      [] argv[2] = "unsuspend" -> OfStates(p, argv, PmStateUnsuspend)
      [] argv[2] = "value"     -> PmStateValue(p, argv[3])
      [] OTHER                 -> PmStateTold(p, argv[2], argv[3])

-----------------------------------------------------------------------------
(***************************************************************************)
(* PmEvent, PmStrip, PmTrace, which take exactly the words they use.       *)
(***************************************************************************)
EventsOn(p) ==
    Calling([p EXCEPT !.eventsOn = TRUE, !.firstTurnedOn = FALSE],
         << << "TurnOn" >> >>
         \o (IF p.firstTurnedOn THEN << << "StartActivity", "default" >> >> ELSE << >>))

PmEventCmd(p, argv) ==
    CASE Len(argv) \notin {2, 3} -> Refused(p, "usage")
      [] ~ p.runWithEventsOn -> Refused(p, "no events")
      [] argv[2] = "on"      -> EventsOn(p)
      [] argv[2] = "off"     -> Calling([p EXCEPT !.eventsOn = FALSE], << << "TurnOff" >> >>)
      [] argv[2] = "filename" /\ Len(argv) = 3 -> Calling(p, << << "ChangeFileName", argv[3] >> >>)
      [] OTHER -> Refused(p, "usage")

PmStripCmd(p, argv) ==
    IF Len(argv) # 2 THEN Refused(p, "usage") ELSE [p EXCEPT !.stripsOn = argv[2] = "on"]

PmTraceCmd(p, argv) ==
    IF Len(argv) # 2 THEN Refused(p, "usage") ELSE [p EXCEPT !.traceOn = argv[2] = "on"]

-----------------------------------------------------------------------------
(***************************************************************************)
(* PmMarker and PmSymbol.  A thread's descriptor is not checked.           *)
(***************************************************************************)
(* The subcommands, the feeder's request and the words that follow.        *)
Markers ==
    [set   |-> [pc |-> << "SET_PC", 1 >>, inst |-> << "SET_INST", 2 >>],
     clear |-> [pc |-> << "CLEAR_PC", 1 >>, all |-> << "CLEAR_ALL", 0 >>]]

PmMarkerCmd(p, argv) ==
    LET known   == Len(argv) >= 2 /\ argv[2] \in DOMAIN Markers
        thread  == PmThreadDescToPtr(argv[3])
        request == Markers[argv[2]][argv[5]]
        Arg(i)  == Numeral[argv[5 + i]]
    IN CASE Len(argv) < 2 -> Refused(p, "usage")
         [] ~ known -> Refused(p, "option")
         [] Len(argv) < 5 -> Refused(p, "usage")
         [] argv[5] \notin DOMAIN Markers[argv[2]] -> Refused(p, "subcommand")
         [] Len(argv) # 5 + request[2] -> Refused(p, "usage")
         [] thread = NullPtr -> Dies(p, "crash")
         [] OTHER -> Calling(p, << << "Marker", request[1], thread, Numeral[argv[4]],
                                   [i \in 1..request[2] |-> Arg(i)] >> >>)

PmSymbolCmd(p, argv) ==
    LET byThread == argv[3] \notin DOMAIN Numeral   \* begins with THREAD__
    IN CASE Misused([find |-> {4}], argv) # "no" -> Refused(p, Misused([find |-> {4}], argv))
         [] byThread /\ PmThreadDescToPtr(argv[3]) = NullPtr -> Dies(p, "crash")
         [] ~ byThread /\ Numeral[argv[3]] # 0 -> Dies(p, "exit")   \* the ASSERT
         [] argv[4] \notin KnownSymbols -> Refused(p, "symbol")
         [] OTHER -> Reply(p, << << "address", argv[4] >> >>)

-----------------------------------------------------------------------------
(***************************************************************************)
(* PmSchedule                                                              *)
(***************************************************************************)
Triggers ==
    [cycle_once |-> "CYCLE_ONCE", cycle_period |-> "CYCLE_PERIOD",
     nanosecond_period |-> "NANOSECOND_PERIOD", nanosecond_once |-> "NANOSECOND_ONCE",
     inst_once |-> "INST_ONCE", inst_period |-> "INST_PERIOD",
     macroinst_once |-> "MACROINST_ONCE", macroinst_period |-> "MACROINST_PERIOD",
     packet_once |-> "PACKET_ONCE"]

(* The action and the time in the words from the at-th on, or nothing.     *)
DecodeActionTime(argv, at) ==
    IF argv[at] = "now" THEN << "NOW", 0 >>
    ELSE IF Len(argv) > at /\ argv[Len(argv)] \in DOMAIN Numeral /\ argv[at] \in DOMAIN Triggers
    THEN << Triggers[argv[at]], Numeral[argv[Len(argv)]] >>
    ELSE << >>

(* A call at a time, with what comes before the time.                      *)
CallAt(p, call, argv, at) ==
    LET when == DecodeActionTime(argv, at) IN
    IF when = << >> THEN Refused(p, "time") ELSE Calling(p, << call \o when >>)

(* What is reported, what triggers it, and what ends the reports.          *)
Periods ==
    [inst       |-> << "INST", "INST_PERIOD", "CLEARINST" >>,
     macroinst  |-> << "MACROINST", "MACROINST_PERIOD", "CLEARMACROINST" >>,
     cycle      |-> << "CYCLE", "CYCLE_PERIOD", "CLEARCYCLE" >>,
     nanosecond |-> << "NANOSECOND", "NANOSECOND_PERIOD", "CLEARNANOSECOND" >>]

ScheduleProgress(p, type, period) ==
    CASE type \notin DOMAIN Periods -> Refused(p, "action")
      [] period = "clear" -> Calling(p, << << "CMD_Progress", Periods[type][3], "NOW", 0 >> >>)
      [] OTHER -> Calling(p, << << "CMD_Progress", Periods[type][1], Periods[type][2],
                                Numeral[period] >> >>)

ScheduleThread(p, name, argv) ==
    LET thread == PmThreadDescToPtr(argv[3]) IN
    IF thread = NullPtr THEN Refused(p, "thread") ELSE CallAt(p, << name, thread >>, argv, 4)

(* "all" leaves the thread NULL.                                           *)
SkipThread(p, argv) ==
    LET thread == PmThreadDescToPtr(argv[3]) IN
    IF argv[3] # "all" /\ thread = NullPtr THEN Refused(p, "thread")
    ELSE CallAt(p, << "CMD_SkipThread", thread, Numeral[argv[4]], Numeral[argv[5]] >>, argv, 6)

ScheduleOptions ==
    [progress |-> {4}, start |-> {2}, stop |-> {3, 4}, exit |-> {3, 4},
     schedthread |-> {4, 5}, unschedthread |-> {4, 5}, skipthread |-> {6, 7}]

PmScheduleCmd(p, argv) ==
    CASE Misused(ScheduleOptions, argv) # "no" -> Refused(p, Misused(ScheduleOptions, argv))
      [] argv[2] = "progress"      -> ScheduleProgress(p, argv[3], argv[4])
      [] argv[2] = "start"         -> Calling(p, << << "CMD_Start" >> >>)
      [] argv[2] = "stop"          -> CallAt(p, << "CMD_Stop" >>, argv, 3)
      [] argv[2] = "exit"          -> CallAt(p, << "CMD_Exit" >>, argv, 3)
      [] argv[2] = "schedthread"   -> ScheduleThread(p, "CMD_ScheduleThread", argv)
      [] argv[2] = "unschedthread" -> ScheduleThread(p, "CMD_UnscheduleThread", argv)
      [] OTHER                     -> SkipThread(p, argv)

-----------------------------------------------------------------------------
(***************************************************************************)
(* PmControl.  "nanosecond" asks for a word more, which it does not use;   *)
(* "cpucycle" answers an interpreter that this copy does not have and is   *)
(* left out; getprogress and doneprogress are in Tarati.                   *)
(***************************************************************************)
ControlOptions ==
    [committed |-> {3}, committedmacros |-> {3}, nanosecond |-> {3}, commitWatchMarker |-> {3}]

Questions    == {"cycle", "nanosecond", "globalcommitted", "numcpus", "committedMarkers",
                 "receivedPkt"}
CpuQuestions == {"committed", "committedmacros"}

PmControlCmd(p, argv) ==
    LET option == argv[2] IN
    CASE Misused(ControlOptions, argv) = "usage" -> Refused(p, "usage")
      [] option \in Questions -> Reply(p, << << option, 0 >> >>)
      [] option \in CpuQuestions -> Reply(p, << << option, Numeral[argv[3]] >> >>)
      [] option = "commitWatchMarker" -> Calling(p, << << option, Numeral[argv[3]] >> >>)
      [] option \in {"beginDrain", "endDrain"} -> Calling(p, << << option >> >>)
      [] OTHER -> Refused(p, "option")
=============================================================================
