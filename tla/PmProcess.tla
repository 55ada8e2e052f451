------------------------------ MODULE PmProcess -------------------------------
(***************************************************************************)
(* What a workbench command sees and changes of the performance model's    *)
(* process.  The commands (PmState, PmEvent, PmMarker, ...) exist in three *)
(* copies: TclCommands for the Tcl interpreter in the process, Remote-     *)
(* Commands for the one at the other end of a connection, NoTclCommands    *)
(* for the workbench without Tcl.  A copy is a set of operators that give, *)
(* for a process and the words of a command, the process after it.         *)
(*                                                                         *)
(* Words are strings; names and paths are sequences of letters.            *)
(***************************************************************************)
EXTENDS Integers, Sequences, FiniteSets, SequencesExt

CONSTANTS
    Numeral,       \* the words that are numbers, and what atoi_general makes of them
    ThreadOf,      \* the thread of every word that is a thread's descriptor
    KnownSymbols   \* the symbols that the feeder knows

NullPtr   == 0               \* for the pointers
AnyPath == << "NULL" >>    \* PmState states without a path

(* The states of the model (CMD_StateList), numbered; their descriptors.   *)
StateDescs == << "STATE__1", "STATE__2", "STATE__3" >>

(* A process: its states and what is suspended of them, its flags; and of  *)
(* the last command the calls it made of the rest of the model, its result *)
(* (ok, error, or the process' end: exit, crash) and its answer, a list.   *)
NewProcess(states, withEvents) ==
    [states |-> states, suspended |-> {}, statsOn |-> TRUE,
     runWithEventsOn |-> withEvents, eventsOn |-> FALSE, firstTurnedOn |-> TRUE,
     stripsOn |-> FALSE, traceOn |-> FALSE,
     calls |-> << >>, code |-> "ok", answer |-> << >>]

Flags == {"suspended", "statsOn", "eventsOn", "firstTurnedOn", "stripsOn", "traceOn"}

Begin(p)         == [p EXCEPT !.calls = << >>, !.code = "ok", !.answer = << >>]
Reply(p, answer) == [p EXCEPT !.answer = answer]
Calling(p, calls)   == [p EXCEPT !.calls = @ \o calls]
Refused(p, why)   == [p EXCEPT !.code = "error", !.answer = << << "error", why >> >>]
Dies(p, how)     == [p EXCEPT !.code = how]

Ended(p) == p.code \in {"exit", "crash"}

(* strcasecmp, strncasecmp: one letter stands for those with two cases.    *)
Fold(s)            == [i \in DOMAIN s |-> IF s[i] = "A" THEN "a" ELSE s[i]]
SameNoCase(s, t)   == Fold(s) = Fold(t)
PrefixNoCase(s, t) == IsPrefix(Fold(s), Fold(t))

(* One unsuspends or suspends a state, and all of them.                    *)
AllStates(p) == DOMAIN p.states

(* strchr(path + n + 1, '/'): the slashes of a path behind its n-th letter *)
(* and the next.                                                           *)
SlashesAfter(path, n) == {i \in DOMAIN path : i > n + 1 /\ path[i] = "/"}
=============================================================================
