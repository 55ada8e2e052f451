-------------------------------- MODULE MCPm ----------------------------------
(***************************************************************************)
(* The workbench's commands for TLC.                                       *)
(***************************************************************************)
EXTENDS PmCommands, TLC

State(path, type, size) == [name |-> path, path |-> path, type |-> type, size |-> size]

(* Paths of one to three components, with a slash before them or not.      *)
Components == {<< "a" >>, << "A" >>, << "a", "b" >>}
Under(paths) == {p \o << "/" >> \o c : p \in paths, c \in Components}
ComponentPaths == Components \cup Under(Components) \cup Under({<< "a", "/", "b" >>})
AllPaths == ComponentPaths \cup {<< "/" >> \o p : p \in Components \cup Under({<< "a" >>})}

(* The list for the commands, and pairs for the search.                    *)
CommandStates == << State(<< "a" >>, "UINT", 2), State(<< "a", "/", "b" >>, "FP", 1) >>

AllStateLists ==
    {<< State(p, "UINT", 1), State(q, "HISTOGRAM", 1) >> : p, q \in AllPaths}
    \cup {<< State(p, "UINT", 1), State(<< "b" >>, "UINT", 1), State(p, "RESOURCE", 1) >>
            : p \in AllPaths}

Numbers10   == "0" :> 0 @@ "7" :> 7
OneThread   == "THREAD__1" :> 1
OneSymbol   == {"main"}

(* Words that are right and words that are wrong, in every place.          *)
Of(command, options, args) == {<< command, o >> \o a : o \in options, a \in args}

Descs   == {<< "STATE__1" >>, << "STATE__2" >>, << "nothing" >>}
Threads_ == {"THREAD__1", "THREAD__x"}
Times   == {<< "now" >>, << "cycle_once", "7" >>, << "nanosecond_once", "7" >>,
            << "inst_once", "0" >>, << "macroinst_once", "7" >>, << "cycle_period", "7" >>,
            << "packet_once", "7" >>, << "cycle_once", "x" >>, << "cycle_once" >>,
            << "later", "7" >>}
None_   == {<< >>}

PerformedWords ==
    Of("PmState", {"suspend", "unsuspend"}, Descs \cup None_)
    \cup Of("PmEvent", {"on", "off"}, None_)
    \cup Of("PmStrip", {"on", "off"}, None_) \cup Of("PmTrace", {"on"}, None_)

AllWords ==
    PerformedWords
    \cup {<< c >> : c \in {"PmState", "PmEvent", "PmStrip", "PmMarker", "PmSymbol",
                           "PmSchedule", "PmControl"}}
    \cup Of("PmState", {"value", "path", "name", "desc"}, Descs \cup None_)
    \cup Of("PmState", {"find", "states"}, {<< << "A" >> >>, << << "b" >> >>} \cup None_)
    \cup Of("PmState", {"dump"}, {<< "stats.out" >>} \cup None_)
    \cup Of("PmState", {"drop"}, None_)
    \cup Of("PmEvent", {"filename"}, {<< "events" >>} \cup None_)
    \cup Of("PmMarker", {"set", "clear"},
            {<< t, "7" >> \o s : t \in Threads_,
                 s \in {<< "pc", "7" >>, << "inst", "0", "7" >>, << "all" >>, << "pc" >>}})
    \cup Of("PmMarker", {"move", "set"}, None_)
    \cup {<< "PmSymbol", "find", t, s >> : t \in {"0", "7"} \cup Threads_, s \in {"main", "gone"}}
    \cup {<< "PmSymbol", "find", "0" >>, << "PmSymbol", "lose", "0", "main" >>}
    \cup {<< "PmSchedule", "progress", p, n >> :
              p \in {"inst", "macroinst", "cycle", "nanosecond", "packet"}, n \in {"clear", "7"}}
    \cup Of("PmSchedule", {"stop", "exit"}, Times)
    \cup Of("PmSchedule", {"schedthread", "unschedthread"},
            {<< t >> \o w : t \in Threads_, w \in Times})
    \cup Of("PmSchedule", {"skipthread"},
            {<< t, "7", "0" >> \o w : t \in Threads_ \cup {"all"}, w \in Times})
    \cup Of("PmSchedule", {"start"}, None_ \cup {<< "now" >>})
    \cup Of("PmControl", {"cycle", "globalcommitted", "numcpus", "committedMarkers",
                          "receivedPkt", "beginDrain", "endDrain", "wait"}, None_)
    \cup Of("PmControl", {"committed", "committedmacros", "commitWatchMarker"},
            {<< "7" >>} \cup None_)
=============================================================================
