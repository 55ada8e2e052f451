------------------------------ MODULE WorkList ------------------------------
(***************************************************************************)
(* Command work items and the lists the controller keeps them in           *)
(* (CMD_WORKITEM_CLASS and CMD_WORKLIST_CLASS of the classic controller).  *)
(* The C++ list is intrusive and singly linked; here a list is a sequence, *)
(* whose order is all that the controller can observe of it.               *)
(***************************************************************************)
EXTENDS Integers, Sequences, SequencesExt

CONSTANT Threads   \* the threads of the feeder

(***************************************************************************)
(* The five measures of simulated time.  Each has a schedule list of its   *)
(* own.                                                                    *)
(***************************************************************************)
Lists == {"cycle", "nanosecond", "inst", "macroInst", "packet"}

(***************************************************************************)
(* CMD_ACTIONTRIGGER: the moment an item asks for.  There is no periodic   *)
(* packet trigger, and ACTION_NEVER is never scheduled.                    *)
(***************************************************************************)
Triggers == {"NOW", "CYCLE_ONCE", "CYCLE_PERIOD",
             "NANOSECOND_ONCE", "NANOSECOND_PERIOD",
             "INST_ONCE", "INST_PERIOD",
             "MACROINST_ONCE", "MACROINST_PERIOD", "PACKET_ONCE"}

Periodic(trigger) ==
    trigger \in {"CYCLE_PERIOD", "NANOSECOND_PERIOD",
                 "INST_PERIOD", "MACROINST_PERIOD"}

(* The list an item with this trigger is put on; NOW items share the cycle *)
(* list.                                                                   *)
ListOf(trigger) ==
    CASE trigger \in {"NANOSECOND_ONCE", "NANOSECOND_PERIOD"} -> "nanosecond"
      [] trigger \in {"INST_ONCE", "INST_PERIOD"}             -> "inst"
      [] trigger \in {"MACROINST_ONCE", "MACROINST_PERIOD"}   -> "macroInst"
      [] trigger = "PACKET_ONCE"                              -> "packet"
      [] OTHER                                                -> "cycle"

(* The classes of work items, one per CMD_ function; CLEARPROGRESS is a    *)
(* PROGRESS whose type is one of the clearing ones.                        *)
Names == {"START", "STOP", "EXIT", "PROGRESS", "CLEARPROGRESS", "EMITSTATS",
          "RESETSTATS", "DEBUG", "TRACE", "STATS", "EVENTS", "STRIPCHART",
          "PROFILE", "THDBEGIN", "THDEND", "THDBLOCK", "THDUNBLOCK",
          "THDSKIP", "THDSCHED", "THDUNSCHED"}

NULL == "NULL"   \* no thread in particular: all of them

Args == Lists \cup Threads \cup {NULL, "on", "off", "none"}

(***************************************************************************)
(* Work items.  "arg" stands for the payload a kind of item carries: the   *)
(* progress type of a PROGRESS, the thread of a thread command, the new    *)
(* setting of a switch.  "id" is a history variable, the rank of the item  *)
(* among all the items ever created; no definition below looks at it.      *)
(***************************************************************************)
Items ==
    [id: Nat, name: Names, arg: Args, trigger: Triggers,
     actionTime: Nat, period: Nat]

WorkItems ==
    {i \in Items : /\ i.trigger = "NOW" => i.actionTime = 0
                   /\ Periodic(i.trigger) => i.period > 0
                   /\ i.name = "CLEARPROGRESS" => i.arg \in Lists}

(***************************************************************************)
(* InsertOrdered skips the leading items that are not later than wi and    *)
(* links wi behind them, so that items of one action time stay in the      *)
(* order in which they were inserted.                                      *)
(***************************************************************************)
NotLaterStrict(list, wi) ==   \* faulty variant: equals go in front
    CHOOSE k \in 0..Len(list) :
        /\ \A i \in 1..k : list[i].actionTime < wi.actionTime
        /\ k < Len(list) => list[k + 1].actionTime >= wi.actionTime

NotLater(list, wi) ==
    CHOOSE k \in 0..Len(list) :
        /\ \A i \in 1..k : list[i].actionTime <= wi.actionTime
        /\ k < Len(list) => list[k + 1].actionTime > wi.actionTime

InsertOrdered(list, wi) == InsertAt(list, NotLater(list, wi) + 1, wi)

(* A new item goes to the tail of the controller's work list.              *)
Add(list, wi) == Append(list, wi)

(***************************************************************************)
(* ClearProgress scans the list and unlinks the items named PROGRESS.  One *)
(* turn of its loop that finds such an item unlinks the first one left.    *)
(***************************************************************************)
ProgressAt(list) == {i \in 1..Len(list) : list[i].name = "PROGRESS"}

FirstProgress(list) ==
    CHOOSE i \in ProgressAt(list) : \A j \in ProgressAt(list) : i <= j

WithoutHead(list) == Tail(list)   \* faulty variant: unlinks the wrong item

WithoutFirstProgress(list) == RemoveAt(list, FirstProgress(list))

(* The order that ReadyEvent relies on: by time and, for one time, items   *)
(* that are not periodic in the order of their creation.                   *)
Precedes(a, b) ==
    /\ a.actionTime <= b.actionTime
    /\ a.actionTime = b.actionTime /\ ~Periodic(a.trigger) /\ ~Periodic(b.trigger)
         => a.id < b.id

InOrder(list) ==
    \A j \in 1..Len(list) : \A i \in 1..(j - 1) : Precedes(list[i], list[j])
=============================================================================
