-------------------------- MODULE ControllerProofs --------------------------
(***************************************************************************)
(* Theorems about the controller, for every set of commands, every         *)
(* behaviour of the clock and every bound.                                 *)
(***************************************************************************)
EXTENDS ControllerProperties, ScheduleProofs

AllCommands ==
    StartupCommands \cup WbCommands \cup FeederCommands \cup ChipCommands
        \cup {CMD_Stop("NOW", 0), CMD_Exit("NOW", 0)}

-----------------------------------------------------------------------------
(***************************************************************************)
(* Type correctness.                                                       *)
(***************************************************************************)

(* What a command must be for the item that is built of it to be one.      *)
Proper(c) ==
    /\ c \in CommandShape
    /\ Periodic(c.trigger) => c.n > 0
    /\ c.name = "CLEARPROGRESS" => c.arg \in Lists

LEMMA CommandsType == \A c \in AllCommands : Proper(c)
<1> SUFFICES ASSUME NEW c \in AllCommands
             PROVE  Proper(c)
  OBVIOUS
<1>1. CASE c = CMD_Stop("NOW", 0)
  <2>1. c = [name |-> "STOP", arg |-> "none", trigger |-> "NOW", n |-> 0]
    BY <1>1 DEF CMD_Stop, Command
  <2>2. c \in CommandShape
    <3>1. "STOP" \in Names /\ "none" \in Args
      BY DEF Names, Args
    <3>2. "NOW" \in Triggers /\ 0 \in Nat
      BY DEF Triggers
    <3> QED
      BY <2>1, <3>1, <3>2 DEF CommandShape
  <2>3. ~Periodic(c.trigger) /\ c.name # "CLEARPROGRESS"
    BY <2>1 DEF Periodic
  <2> QED
    BY <2>2, <2>3 DEF Proper
<1>2. CASE c = CMD_Exit("NOW", 0)
  <2>1. c = [name |-> "EXIT", arg |-> "none", trigger |-> "NOW", n |-> 0]
    BY <1>2 DEF CMD_Exit, Command
  <2>2. c \in CommandShape
    <3>1. "EXIT" \in Names /\ "none" \in Args
      BY DEF Names, Args
    <3>2. "NOW" \in Triggers /\ 0 \in Nat
      BY DEF Triggers
    <3> QED
      BY <2>1, <3>1, <3>2 DEF CommandShape
  <2>3. ~Periodic(c.trigger) /\ c.name # "CLEARPROGRESS"
    BY <2>1 DEF Periodic
  <2> QED
    BY <2>2, <2>3 DEF Proper
<1> QED
  BY <1>1, <1>2, CommandsAssumption DEF AllCommands, Proper

LEMMA ProperItem ==
    ASSUME NEW c, Proper(c), TypeOK
    PROVE  ItemOf(c) \in WorkItems
<1>1. /\ c \in CommandShape
      /\ Periodic(c.trigger) => c.n > 0
      /\ c.name = "CLEARPROGRESS" => c.arg \in Lists
  BY DEF Proper
<1>2. clock[ListOf(c.trigger)] \in Nat
  BY ListOfType DEF TypeOK, SysTypeOK
<1>3. ItemOf(c).actionTime \in Nat
  BY <1>1, <1>2 DEF ItemOf, CommandShape
<1>4. issued + 1 \in Nat
  BY DEF TypeOK
<1>5. ItemOf(c) \in Items
  BY <1>1, <1>3, <1>4 DEF ItemOf, Items, CommandShape
<1>6. c.trigger = "NOW" => ItemOf(c).actionTime = 0
  BY DEF ItemOf, Periodic
<1> QED
  BY <1>1, <1>5, <1>6 DEF WorkItems, ItemOf

LEMMA ItemOfType ==
    ASSUME NEW c \in AllCommands, TypeOK
    PROVE  ItemOf(c) \in WorkItems
BY CommandsType, ProperItem

(* What a call of a CMD_ function may change keeps its type.               *)
LEMMA EnlistType ==
    ASSUME NEW c \in AllCommands, TypeOK, Enlist(c)
    PROVE  issued' \in Nat /\ ctrlWorkList' \in Seq(WorkItems)
<1>1. ItemOf(c) \in WorkItems
  BY ItemOfType
<1>2. ctrlWorkList \in Seq(WorkItems) /\ issued \in Nat
  BY DEF TypeOK
<1>3. Append(ctrlWorkList, ItemOf(c)) \in Seq(WorkItems)
  BY <1>1, <1>2
<1> QED
  BY <1>2, <1>3 DEF Enlist, Add

LEMMA IssueType ==
    ASSUME NEW c \in AllCommands, TypeOK, Issue(c)
    PROVE  /\ issued' \in Nat
           /\ ctrlWorkList' \in Seq(WorkItems)
           /\ sysBreak' \in BOOLEAN
           /\ pmStopped' \in BOOLEAN
<1>1. Enlist(c) /\ sysBreak' = TRUE
  BY DEF Issue, SYS_Break
<1>2. pmStopped' \in BOOLEAN
  BY DEF Issue, TypeOK
<1> QED
  BY <1>1, <1>2, EnlistType

(* The commands that each caller may issue are commands.                   *)
LEMMA CallersIssueCommands ==
    /\ StartupCommands \subseteq AllCommands
    /\ WbCommands \subseteq AllCommands
    /\ FeederCommands \subseteq AllCommands
    /\ ChipCommands \subseteq AllCommands
    /\ CMD_Stop("NOW", 0) \in AllCommands
    /\ CMD_Exit("NOW", 0) \in AllCommands
BY DEF AllCommands

LEMMA ReadyOrderLists ==
    \A k \in 1..Len(ReadyOrder) : ReadyOrder[k] \in Lists
BY DEF ReadyOrder, Lists

LEMMA NextEventType ==
    ASSUME TypeOK, NEW l \in Lists
    PROVE  NextEvent(schedule, l, now) \in Nat
<1>1. schedule[l] \in Seq(WorkItems) /\ now[l] \in Nat
  BY DEF TypeOK
<1>2. CASE schedule[l] = << >>
  BY <1>2, NeverAssumption DEF NextEvent
<1>3. CASE schedule[l] # << >>
  <2>1. Head(schedule[l]) \in WorkItems
    BY <1>1, <1>3
  <2>2. Head(schedule[l]).actionTime \in Nat
    BY <2>1 DEF WorkItems, Items
  <2> QED
    BY <1>1, <1>3, <2>2 DEF NextEvent
<1> QED
  BY <1>2, <1>3

LEMMA ProcessEventType ==
    ASSUME TypeOK, NEW l \in Lists, ProcessEvent(l)
    PROVE  TypeOK'
<1> DEFINE item == Head(schedule[l])
           rest == [schedule EXCEPT ![l] = Tail(@)]
<1>1. schedule[l] \in Seq(WorkItems) /\ schedule[l] # << >>
  BY DEF TypeOK, ProcessEvent, Ready
<1>2. item \in WorkItems /\ Tail(schedule[l]) \in Seq(WorkItems)
  BY <1>1
<1>3. rest \in [Lists -> Seq(WorkItems)]
  BY <1>2 DEF TypeOK
<1>4. schedule' \in [Lists -> Seq(WorkItems)]
  <2>1. now \in [Lists -> Nat]
    BY DEF TypeOK
  <2>2. Scheduled(rest, item, now) \in [Lists -> Seq(WorkItems)]
    BY <1>2, <1>3, <2>1, ScheduledType
  <2> QED
    BY <1>3, <2>2 DEF ProcessEvent
<1>5. PmAction(item) /\ CmdAction(item)
  BY DEF ProcessEvent
<1> HIDE DEF item, rest
<1>6. item.name \in Names /\ item.arg \in Args
  BY <1>2 DEF WorkItems, Items
<1>7. pmStopped' \in BOOLEAN /\ pmExiting' \in BOOLEAN
  <2>1. pmStopped' \in BOOLEAN
    <3>1. pmStopped' = CASE item.name = "START" -> FALSE
                         [] item.name = "STOP"  -> TRUE
                         [] OTHER               -> pmStopped
      BY <1>5 DEF CmdAction
    <3> QED
      BY <3>1 DEF TypeOK
  <2>2. pmExiting' = (pmExiting \/ item.name = "EXIT")
    BY <1>5 DEF CmdAction
  <2> QED
    BY <2>1, <2>2
<1>8. pendingProgress' \in Seq(Reports)
  <2> DEFINE report == [type |-> ReportType(item), arg |-> item.arg]
  <2>1. report \in Reports
    BY <1>6 DEF ReportType, Reports, Args
  <2>2. pendingProgress \in Seq(Reports)
    BY DEF TypeOK
  <2>3. Append(pendingProgress, report) \in Seq(Reports)
    BY <2>1, <2>2
  <2> QED
    BY <1>5, <2>2, <2>3 DEF CmdAction, AWB_Progress
<1>9. switches' \in [Switches -> BOOLEAN]
  BY <1>5 DEF PmAction, TypeOK
<1>10. /\ issued' \in Nat
       /\ ctrlWorkList' \in Seq(WorkItems)
       /\ sysBreak' \in BOOLEAN
  <2>1. CASE UNCHANGED << ctrlWorkList, issued, sysBreak >>
    BY <2>1 DEF TypeOK, SysTypeOK
  <2>2. CASE \E c \in FeederCommands : Enlist(c) /\ SYS_Break
    BY <2>2, EnlistType, CallersIssueCommands DEF SYS_Break
  <2> QED
    BY <1>5, <2>1, <2>2 DEF PmAction
<1> QED
  BY <1>4, <1>7, <1>8, <1>9, <1>10 DEF ProcessEvent, TypeOK, SysTypeOK

LEMMA TypeInit == Init => TypeOK
<1> SUFFICES ASSUME Init
             PROVE  TypeOK
  OBVIOUS
<1>1. SysTypeOK
  BY DEF Init, SysInit, SysTypeOK
<1>2. pc \in Places
  BY DEF Init, Places
<1>3. schedule \in [Lists -> Seq(WorkItems)]
  BY DEF Init, EmptySchedule
<1>4. switches \in [Switches -> BOOLEAN] /\ now \in [Lists -> Nat]
  BY DEF Init
<1>5. ctrlWorkList \in Seq(WorkItems) /\ pendingProgress \in Seq(Reports)
  BY DEF Init
<1>6. pmStopped \in BOOLEAN /\ pmExiting \in BOOLEAN /\ issued \in Nat
  BY DEF Init
<1> QED
  BY <1>1, <1>2, <1>3, <1>4, <1>5, <1>6 DEF TypeOK

LEMMA TypeStep == TypeOK /\ [Next]_vars => TypeOK'
<1> SUFFICES ASSUME TypeOK, [Next]_vars
             PROVE  TypeOK'
  OBVIOUS
<1> USE DEF TypeOK, SysTypeOK
<1>1. ASSUME NEW c \in FeederCommands, FeederInit(c)
      PROVE  TypeOK'
  BY <1>1, EnlistType, CallersIssueCommands DEF FeederInit, sysVars
<1>2. ASSUME NEW success \in BOOLEAN, CMD_Init(success)
      PROVE  TypeOK'
  BY <1>2 DEF CMD_Init, ctrlVars, sysVars, Places
<1>3. ASSUME NEW c \in StartupCommands, Startup(c)
      PROVE  TypeOK'
  BY <1>3, IssueType, CallersIssueCommands DEF Startup
<1>4. CASE Activated \/ Usage
  BY <1>4 DEF Activated, Usage, ctrlVars, sysVars, Places
<1>5. CASE Sample
  BY <1>5 DEF Sample, sysVars, Places
<1>6. CASE DrainItem
  <2>1. Head(ctrlWorkList) \in WorkItems /\ Tail(ctrlWorkList) \in Seq(WorkItems)
    BY <1>6 DEF DrainItem
  <2>2. schedule' \in [Lists -> Seq(WorkItems)]
    BY <1>6, <2>1, ScheduledType DEF DrainItem
  <2> QED
    BY <1>6, <2>1, <2>2 DEF DrainItem, sysVars
<1>7. CASE DrainClearing
  <2> DEFINE l == Head(ctrlWorkList).arg
  <2>1. Head(ctrlWorkList) \in WorkItems /\ Tail(ctrlWorkList) \in Seq(WorkItems)
    BY <1>7 DEF DrainClearing
  <2>2. l \in Lists
    BY <1>7, <2>1 DEF DrainClearing, WorkItems
  <2> HIDE DEF l
  <2>3. ASSUME ProgressAt(schedule[l]) # {}
        PROVE  WithoutFirstProgress(schedule[l]) \in Seq(WorkItems)
    <3>1. schedule[l] \in Seq(WorkItems)
      BY <2>2
    <3> HIDE DEF TypeOK, SysTypeOK
    <3>2. FirstProgress(schedule[l]) \in 1..Len(schedule[l])
      BY <2>3, <3>1, FirstProgressProperties, WorkItemsAreItems DEF ProgressAt
    <3> QED
      BY <3>1, <3>2, RemoveAtProperties DEF WithoutFirstProgress
  <2>4. schedule' \in [Lists -> Seq(WorkItems)]
    BY <1>7, <2>2, <2>3 DEF DrainClearing, l
  <2>5. ctrlWorkList' \in Seq(WorkItems)
    BY <1>7, <2>1 DEF DrainClearing
  <2> QED
    BY <1>7, <2>4, <2>5 DEF DrainClearing, sysVars
<1>8. CASE ClearBreak
  BY <1>8 DEF ClearBreak, SYS_ClearBreak, ctrlVars, Places
<1>9. CASE ReadyEvent
  <2>1. PICK k \in 1..Len(ReadyOrder) :
            ProcessEvent(ReadyOrder[k]) \/ Dies(ReadyOrder[k])
    BY <1>9 DEF ReadyEvent
  <2>2. CASE ProcessEvent(ReadyOrder[k])
    BY <2>2, ReadyOrderLists, ProcessEventType
  <2>3. CASE Dies(ReadyOrder[k])
    BY <2>3 DEF Dies, ctrlVars, sysVars, Places
  <2> QED
    BY <2>1, <2>2, <2>3
<1>10. CASE NoEventReady
  BY <1>10 DEF NoEventReady, ctrlVars, sysVars, Places
<1>11. CASE AWB_InformProgress
  BY <1>11 DEF AWB_InformProgress, ctrlVars, sysVars, Places
<1>12. ASSUME NEW c \in WbCommands, BatchProgress(c)
       PROVE  TypeOK'
  BY <1>12, IssueType, CallersIssueCommands DEF BatchProgress
<1>13. CASE BatchDone
  BY <1>13 DEF BatchDone, sysVars, Places
<1>14. CASE Decide
  <2>1. Bounds \in [Lists -> Nat]
    BY NextEventType DEF Bounds
  <2>2. stopAt' \in [Lists -> Nat] /\ markerHit' \in BOOLEAN
    BY <1>14, <2>1 DEF Decide, SYS_ExecuteEnter
  <2> QED
    BY <1>14, <2>2 DEF Decide, ctrlVars, Places
<1>15. CASE BeginClock
  BY <1>15 DEF BeginClock, ctrlVars, sysVars, Places
<1>16. ASSUME NEW c \in ChipCommands, DuringClock(c)
       PROVE  TypeOK'
  BY <1>16, IssueType, CallersIssueCommands DEF DuringClock
<1>17. CASE CheckExitConditions
  BY <1>17, EnlistType, CallersIssueCommands DEF CheckExitConditions, sysVars
<1>18. ASSUME NEW d \in ClockSteps, EndClock(d)
       PROVE  TypeOK'
  <2>1. d \in [Lists -> Nat]
    BY ClockStepsAssumption
  <2>2. clock' \in [Lists -> Nat]
    BY <1>18, <2>1 DEF EndClock, Advance
  <2>3. markerHit' \in BOOLEAN
    BY <1>18 DEF EndClock, Advance
  <2> QED
    BY <1>18, <2>2, <2>3 DEF EndClock, ctrlVars, Places
<1>19. CASE ExecuteDone
  <2>1. /\ issued' \in Nat
        /\ ctrlWorkList' \in Seq(WorkItems)
        /\ sysBreak' \in BOOLEAN
        /\ pmStopped' \in BOOLEAN
    BY <1>19, IssueType, CallersIssueCommands DEF ExecuteDone
  <2> QED
    BY <1>19, <2>1 DEF ExecuteDone, Places
<1>20. CASE Exit
  BY <1>20 DEF Exit, EmptySchedule, sysVars, Places
<1>21. CASE UNCHANGED vars
  BY <1>21 DEF vars, ctrlVars, sysVars
<1> QED
  BY <1>1, <1>2, <1>3, <1>4, <1>5, <1>6, <1>7, <1>8, <1>9, <1>10, <1>11, <1>12,
     <1>13, <1>14, <1>15, <1>16, <1>17, <1>18, <1>19, <1>20, <1>21
     DEF Next, Loop, Calls

(***************************************************************************)
(* Whatever commands are issued and however the clock advances, every      *)
(* variable keeps its type: lists hold well-formed items, and every time   *)
(* a periodic item is given is a natural number (NextDue never goes below  *)
(* zero).                                                                  *)
(***************************************************************************)
THEOREM TypeCorrect == Spec => []TypeOK
<1> QED
  BY TypeInit, TypeStep, PTL DEF Spec

-----------------------------------------------------------------------------
(***************************************************************************)
(* No lost command.  From the moment SYS_ClearBreak is called on an empty  *)
(* work list until SYS_Execute returns, new work raises the break flag;    *)
(* only the exit that follows a thread's end, where STOP_THREAD is set,    *)
(* does not.                                                               *)
(***************************************************************************)
Covered == {"ready", "inform", "batch", "decide", "execute", "clock"}

BreakInv ==
    pc \in Covered =>
        /\ (\E i \in Pending : i.name # "EXIT") => sysBreak
        /\ ~STOP_THREAD /\ ctrlWorkList # << >> => sysBreak

LEMMA ToSetAppend ==
    ASSUME NEW S, NEW list \in Seq(S), NEW e \in S
    PROVE  ToSet(Append(list, e)) = ToSet(list) \cup {e}
<1>1. /\ DOMAIN list = 1..Len(list)
      /\ DOMAIN Append(list, e) = 1..(Len(list) + 1)
      /\ Len(list) \in Nat
      /\ \A k \in 1..Len(list) : Append(list, e)[k] = list[k]
      /\ Append(list, e)[Len(list) + 1] = e
  OBVIOUS
<1>2. \A k : k \in 1..(Len(list) + 1) <=> k \in 1..Len(list) \/ k = Len(list) + 1
  BY <1>1
<1> QED
  BY <1>1, <1>2, Zenon DEF ToSet

LEMMA BreakInit == Init => BreakInv
BY DEF Init, BreakInv, Covered

LEMMA BreakStep == TypeOK /\ BreakInv /\ [Next]_vars => BreakInv'
<1> SUFFICES ASSUME TypeOK, BreakInv, [Next]_vars
             PROVE  BreakInv'
  OBVIOUS
<1>1. ASSUME NEW c \in FeederCommands, FeederInit(c)
      PROVE  BreakInv'
  BY <1>1 DEF FeederInit, BreakInv, Covered
<1>2. ASSUME NEW success \in BOOLEAN, CMD_Init(success)
      PROVE  BreakInv'
  BY <1>2 DEF CMD_Init, BreakInv, Covered
<1>3. ASSUME NEW c \in StartupCommands, Startup(c)
      PROVE  BreakInv'
  BY <1>3 DEF Startup, BreakInv, Covered
<1>4. CASE Activated \/ Usage \/ Sample \/ DrainItem \/ DrainClearing
  BY <1>4 DEF Activated, Usage, Sample, DrainItem, DrainClearing, BreakInv, Covered
<1>5. CASE ClearBreak
  <2>1. ctrlWorkList' = << >> /\ Pending' = {}
    BY <1>5 DEF ClearBreak, ctrlVars, Pending, ToSet
  <2> QED
    BY <2>1 DEF BreakInv
<1>6. CASE ReadyEvent
  <2>1. PICK k \in 1..Len(ReadyOrder) :
            ProcessEvent(ReadyOrder[k]) \/ Dies(ReadyOrder[k])
    BY <1>6 DEF ReadyEvent
  <2>2. CASE ProcessEvent(ReadyOrder[k])
    <3>1. pc' = pc
      BY <2>2 DEF ProcessEvent
    <3>2. UNCHANGED << ctrlWorkList, issued, sysBreak >> \/ sysBreak'
      BY <2>2 DEF ProcessEvent, PmAction, SYS_Break
    <3> QED
      BY <3>1, <3>2 DEF BreakInv, Pending
  <2>3. CASE Dies(ReadyOrder[k])
    BY <2>3 DEF Dies, BreakInv, Covered
  <2> QED
    BY <2>1, <2>2, <2>3
<1>7. CASE NoEventReady \/ AWB_InformProgress \/ BatchDone \/ Decide \/ BeginClock
  <2>1. UNCHANGED << ctrlWorkList, sysBreak >>
    BY <1>7 DEF NoEventReady, AWB_InformProgress, BatchDone, Decide, BeginClock,
                ctrlVars, sysVars
  <2>2. pc \in Covered
    BY <1>7 DEF NoEventReady, AWB_InformProgress, BatchDone, Decide, BeginClock,
                Covered
  <2> QED
    BY <2>1, <2>2 DEF BreakInv, Pending
<1>8. ASSUME NEW c \in WbCommands, BatchProgress(c)
      PROVE  BreakInv'
  BY <1>8 DEF BatchProgress, Issue, SYS_Break, BreakInv
<1>9. ASSUME NEW c \in ChipCommands, DuringClock(c)
      PROVE  BreakInv'
  BY <1>9 DEF DuringClock, Issue, SYS_Break, BreakInv
<1>10. CASE CheckExitConditions
  <2> DEFINE exit == ItemOf(CMD_Exit("NOW", 0))
  <2>1. exit \in WorkItems
    BY ItemOfType, CallersIssueCommands
  <2>2. exit.name = "EXIT"
    BY DEF ItemOf, CMD_Exit, Command
  <2>3. ctrlWorkList' = Append(ctrlWorkList, exit)
    BY <1>10 DEF CheckExitConditions, Enlist, Add
  <2> HIDE DEF exit
  <2>4. Pending' = Pending \cup {exit}
    BY <2>1, <2>3, ToSetAppend DEF Pending, TypeOK
  <2>5. STOP_THREAD /\ pc = "clock" /\ UNCHANGED << pc, sysBreak >>
    BY <1>10 DEF CheckExitConditions, sysVars
  <2> QED
    BY <2>2, <2>4, <2>5 DEF BreakInv, Covered
<1>11. ASSUME NEW d \in ClockSteps, EndClock(d)
       PROVE  BreakInv'
  BY <1>11 DEF EndClock, ctrlVars, BreakInv, Covered, Pending
<1>12. CASE ExecuteDone \/ Exit
  BY <1>12 DEF ExecuteDone, Exit, BreakInv, Covered
<1>13. CASE UNCHANGED vars
  BY <1>13 DEF vars, ctrlVars, sysVars, BreakInv, Pending
<1> QED
  BY <1>1, <1>2, <1>3, <1>4, <1>5, <1>6, <1>7, <1>8, <1>9, <1>10, <1>11, <1>12,
     <1>13 DEF Next, Loop, Calls

(***************************************************************************)
(* SYS_Execute never tests its condition with a command on the work list   *)
(* and the break flag down, an exit after a thread's end excepted: no      *)
(* CMD_ call can go unnoticed while the chip runs.                         *)
(***************************************************************************)
THEOREM NoLostCommand == Spec => []BreakCoversCommands
<1>1. BreakInv => BreakCoversCommands
  BY DEF BreakInv, BreakCoversCommands, Covered
<1> QED
  BY <1>1, BreakInit, BreakStep, TypeCorrect, PTL DEF Spec

(***************************************************************************)
(* Where the parameter STOP_THREAD is off there is no exception at all.    *)
(***************************************************************************)
THEOREM NoLostWork == Spec => [](~STOP_THREAD => BreakCoversPending)
<1>1. BreakInv => (~STOP_THREAD => BreakCoversPending)
  BY DEF BreakInv, BreakCoversPending, Covered
<1> QED
  BY <1>1, BreakInit, BreakStep, TypeCorrect, PTL DEF Spec

-----------------------------------------------------------------------------
(***************************************************************************)
(* The order of the schedule.                                              *)
(***************************************************************************)
OrderInv ==
    /\ QueueInv(ctrlWorkList, issued)
    /\ SchedInv(schedule, ctrlWorkList, issued)

LEMMA EmptyOrder ==
    ASSUME NEW n
    PROVE  QueueInv(<< >>, n) /\ SchedInv(EmptySchedule, << >>, n)
<1>1. Len(<< >>) = 0 /\ \A l \in Lists : EmptySchedule[l] = << >>
  BY DEF EmptySchedule
<1> QED
  BY <1>1 DEF QueueInv, SchedInv, OlderThan, InOrder

LEMMA EnlistOrder ==
    ASSUME TypeOK, OrderInv, NEW c \in AllCommands, Enlist(c), UNCHANGED schedule
    PROVE  OrderInv'
<1> DEFINE item == ItemOf(c)
<1>1. item \in WorkItems
  BY ItemOfType
<1>2. item.id = issued + 1
  BY DEF ItemOf
<1>3. ctrlWorkList' = Append(ctrlWorkList, item) /\ issued' = issued + 1
  BY DEF Enlist, Add
<1> HIDE DEF item
<1>4. /\ schedule \in [Lists -> Seq(WorkItems)]
      /\ ctrlWorkList \in Seq(WorkItems)
      /\ issued \in Nat
  BY DEF TypeOK
<1>5. QueueInv(ctrlWorkList, issued) /\ SchedInv(schedule, ctrlWorkList, issued)
  BY DEF OrderInv
<1>6. /\ QueueInv(Append(ctrlWorkList, item), issued + 1)
      /\ SchedInv(schedule, Append(ctrlWorkList, item), issued + 1)
  BY <1>1, <1>2, <1>4, <1>5, AppendOrder
<1> QED
  BY <1>3, <1>6 DEF OrderInv

(* Performing an item, and giving a periodic one its next time.            *)
LEMMA ProcessEventOrder ==
    ASSUME TypeOK, OrderInv, NEW l \in Lists, ProcessEvent(l)
    PROVE  OrderInv'
<1> DEFINE item == Head(schedule[l])
           rest == [schedule EXCEPT ![l] = Tail(@)]
<1>1. /\ schedule \in [Lists -> Seq(WorkItems)]
      /\ ctrlWorkList \in Seq(WorkItems) /\ Len(ctrlWorkList) \in Nat
      /\ issued \in Nat /\ now \in [Lists -> Nat]
      /\ schedule[l] \in Seq(WorkItems) /\ schedule[l] # << >>
  BY DEF TypeOK, ProcessEvent, Ready
<1>2. item \in WorkItems /\ Tail(schedule[l]) \in Seq(WorkItems)
  BY <1>1
<1>3. rest \in [Lists -> Seq(WorkItems)]
  BY <1>1, <1>2
<1>4. item = schedule[l][1] /\ 1 \in 1..Len(schedule[l])
  BY <1>1, HeadTailProperties, EmptySeq
<1>5. /\ item.id <= issued
      /\ \A j \in 1..Len(ctrlWorkList) : item.id < ctrlWorkList[j].id
  <2>1. item.id < issued + 1
    BY <1>4 DEF OrderInv, SchedInv, OlderThan
  <2>2. item.id \in Nat
    BY <1>2 DEF WorkItems, Items
  <2>3. \A j \in 1..Len(ctrlWorkList) : item.id < ctrlWorkList[j].id
    BY <1>4 DEF OrderInv, SchedInv, OlderThan
  <2> QED
    BY <1>1, <2>1, <2>2, <2>3
<1>6. SchedInv(rest, ctrlWorkList, issued)
  BY <1>1, TailOrder DEF OrderInv
<1>7. ASSUME Periodic(item.trigger)
      PROVE  SchedInv(Scheduled(rest, item, now), ctrlWorkList, issued)
  <2> HIDE DEF item, rest
  <2> QED
    BY <1>1, <1>2, <1>3, <1>5, <1>6, <1>7, ScheduledOrder
<1>8. schedule' = IF Periodic(item.trigger) THEN Scheduled(rest, item, now) ELSE rest
  BY DEF ProcessEvent
<1>9. SchedInv(schedule', ctrlWorkList, issued)
  BY <1>6, <1>7, <1>8
<1>10. schedule' \in [Lists -> Seq(WorkItems)]
  BY ProcessEventType DEF TypeOK
<1>11. PmAction(item)
  BY DEF ProcessEvent
<1> HIDE DEF item, rest
<1>12. QueueInv(ctrlWorkList, issued)
  BY DEF OrderInv
<1>13. CASE UNCHANGED << ctrlWorkList, issued >>
  BY <1>9, <1>12, <1>13 DEF OrderInv
<1>14. ASSUME NEW c \in FeederCommands, Enlist(c)
       PROVE  OrderInv'
  <2> DEFINE told == ItemOf(c)
  <2>1. told \in WorkItems
    BY ItemOfType, CallersIssueCommands
  <2>2. told.id = issued + 1
    BY DEF ItemOf
  <2>3. ctrlWorkList' = Append(ctrlWorkList, told) /\ issued' = issued + 1
    BY <1>14 DEF Enlist, Add
  <2> HIDE DEF told
  <2>4. /\ QueueInv(Append(ctrlWorkList, told), issued + 1)
        /\ SchedInv(schedule', Append(ctrlWorkList, told), issued + 1)
    BY <1>1, <1>9, <1>10, <1>12, <2>1, <2>2, AppendOrder
  <2> QED
    BY <2>3, <2>4 DEF OrderInv
<1> QED
  BY <1>11, <1>13, <1>14 DEF PmAction

LEMMA OrderInit == Init => OrderInv
BY EmptyOrder DEF Init, OrderInv

LEMMA OrderStep == TypeOK /\ OrderInv /\ [Next]_vars => OrderInv'
<1> SUFFICES ASSUME TypeOK, OrderInv, [Next]_vars
             PROVE  OrderInv'
  OBVIOUS
<1>1. ASSUME UNCHANGED << ctrlWorkList, schedule, issued >>
      PROVE  OrderInv'
  BY <1>1 DEF OrderInv
<1>2. ASSUME NEW c \in AllCommands, Issue(c), UNCHANGED schedule
      PROVE  OrderInv'
  BY <1>2, EnlistOrder DEF Issue
<1>3. ASSUME NEW c \in FeederCommands, FeederInit(c)
      PROVE  OrderInv'
  BY <1>3, EnlistOrder, CallersIssueCommands DEF FeederInit
<1>4. ASSUME NEW success \in BOOLEAN, CMD_Init(success)
      PROVE  OrderInv'
  BY <1>1, <1>4 DEF CMD_Init, ctrlVars
<1>5. ASSUME NEW c \in StartupCommands, Startup(c)
      PROVE  OrderInv'
  BY <1>2, <1>5, CallersIssueCommands DEF Startup
<1>6. ASSUME NEW c \in WbCommands, BatchProgress(c)
      PROVE  OrderInv'
  BY <1>2, <1>6, CallersIssueCommands DEF BatchProgress
<1>7. ASSUME NEW c \in ChipCommands, DuringClock(c)
      PROVE  OrderInv'
  BY <1>2, <1>7, CallersIssueCommands DEF DuringClock
<1>8. CASE CheckExitConditions
  BY <1>8, EnlistOrder, CallersIssueCommands DEF CheckExitConditions
<1>9. CASE ExecuteDone
  BY <1>1, <1>2, <1>9, CallersIssueCommands DEF ExecuteDone
<1>10. CASE DrainItem
  <2>1. /\ schedule \in [Lists -> Seq(WorkItems)]
        /\ ctrlWorkList \in Seq(WorkItems) /\ ctrlWorkList # << >>
        /\ issued \in Nat /\ now \in [Lists -> Nat]
    BY <1>10 DEF TypeOK, DrainItem
  <2>2. /\ QueueInv(Tail(ctrlWorkList), issued)
        /\ SchedInv(Scheduled(schedule, Head(ctrlWorkList), now),
                    Tail(ctrlWorkList), issued)
    BY <2>1, DrainOrder DEF OrderInv
  <2> QED
    BY <1>10, <2>2 DEF DrainItem, OrderInv
<1>11. CASE DrainClearing
  <2> DEFINE l == Head(ctrlWorkList).arg
  <2>1. /\ schedule \in [Lists -> Seq(WorkItems)]
        /\ ctrlWorkList \in Seq(WorkItems) /\ ctrlWorkList # << >>
        /\ issued \in Nat /\ now \in [Lists -> Nat]
    BY <1>11 DEF TypeOK, DrainClearing
  <2>2. Head(ctrlWorkList) \in WorkItems
    BY <2>1
  <2>3. l \in Lists
    BY <1>11, <2>2 DEF DrainClearing, WorkItems
  <2> HIDE DEF l
  <2>4. CASE /\ ProgressAt(schedule[l]) # {}
             /\ schedule' = [schedule EXCEPT ![l] = WithoutFirstProgress(@)]
             /\ UNCHANGED << ctrlWorkList, issued >>
    BY <2>1, <2>3, <2>4, RemoveOrder DEF OrderInv
  <2>5. CASE /\ ctrlWorkList' = Tail(ctrlWorkList)
             /\ UNCHANGED << schedule, issued >>
    <3>1. /\ QueueInv(Tail(ctrlWorkList), issued)
          /\ SchedInv(schedule, Tail(ctrlWorkList), issued)
      BY <2>1, DrainOrder DEF OrderInv
    <3> QED
      BY <2>5, <3>1 DEF OrderInv
  <2> QED
    BY <1>11, <2>4, <2>5 DEF DrainClearing, l
<1>12. CASE ReadyEvent
  <2>1. PICK k \in 1..Len(ReadyOrder) :
            ProcessEvent(ReadyOrder[k]) \/ Dies(ReadyOrder[k])
    BY <1>12 DEF ReadyEvent
  <2>2. CASE ProcessEvent(ReadyOrder[k])
    BY <2>2, ReadyOrderLists, ProcessEventOrder
  <2>3. CASE Dies(ReadyOrder[k])
    BY <1>1, <2>3 DEF Dies, ctrlVars
  <2> QED
    BY <2>1, <2>2, <2>3
<1>13. CASE \/ Activated \/ Usage \/ Sample \/ ClearBreak \/ NoEventReady
            \/ AWB_InformProgress \/ BatchDone \/ Decide \/ BeginClock
  BY <1>1, <1>13 DEF Activated, Usage, Sample, ClearBreak, NoEventReady,
     AWB_InformProgress, BatchDone, Decide, BeginClock, ctrlVars
<1>14. ASSUME NEW d \in ClockSteps, EndClock(d)
       PROVE  OrderInv'
  BY <1>1, <1>14 DEF EndClock, ctrlVars
<1>15. CASE Exit
  BY <1>15, EmptyOrder DEF Exit, OrderInv
<1>16. CASE UNCHANGED vars
  BY <1>1, <1>16 DEF vars, ctrlVars
<1> QED
  BY <1>3, <1>4, <1>5, <1>6, <1>7, <1>8, <1>9, <1>10, <1>11, <1>12, <1>13, <1>14,
     <1>15, <1>16 DEF Next, Loop, Calls

(***************************************************************************)
(* Every list of the schedule is ordered by time, and commands that are    *)
(* not periodic and ask for the same time are in the order of their issue: *)
(* ReadyEvent, which looks at heads only, performs the right one first.    *)
(***************************************************************************)
THEOREM AlwaysOrdered == Spec => []Ordered
<1>1. OrderInv => Ordered
  BY DEF OrderInv, SchedInv, Ordered
<1> QED
  BY <1>1, OrderInit, OrderStep, TypeCorrect, PTL DEF Spec

-----------------------------------------------------------------------------
(***************************************************************************)
(* Where clocks advance time one unit at a time, the controller never      *)
(* finds an item whose time has passed, whatever commands are issued.      *)
(***************************************************************************)
(* The next time of a periodic item lies in the future.                    *)
LEMMA NextDueLater ==
    ASSUME NEW trigger, NEW current \in Nat, NEW period \in Nat, period > 0
    PROVE  NextDue(trigger, current, period) > current
<1>1. ASSUME NEW x \in Nat
      PROVE  (x \div period) * period + period > x
  <2>1. /\ x \div period \in Nat /\ x % period \in 0..(period - 1)
        /\ x = period * (x \div period) + (x % period)
    OBVIOUS
  <2>2. period * (x \div period) = (x \div period) * period
    BY <2>1
  <2>3. (x \div period) * period \in Nat
    BY <2>1
  <2> QED
    BY <2>1, <2>2, <2>3
<1>2. ASSUME NEW x \in Nat, x >= current + period
      PROVE  (x \div period) * period > current
  <2>1. (x \div period) * period \in Nat
    <3>1. x \div period \in Nat
      OBVIOUS
    <3> QED
      BY <3>1
  <2> QED
    BY <1>1, <1>2, <2>1
<1> QED
  BY <1>2 DEF NextDue

-----------------------------------------------------------------------------
(***************************************************************************)
(* The elements of a list after an item was inserted, or its head or one   *)
(* item removed.                                                           *)
(***************************************************************************)
LEMMA InsertElements ==
    ASSUME NEW seq \in Seq(WorkItems), NEW wi \in WorkItems,
           NEW i \in 1..Len(InsertOrdered(seq, wi))
    PROVE  \/ InsertOrdered(seq, wi)[i] = wi
           \/ \E k \in 1..Len(seq) : InsertOrdered(seq, wi)[i] = seq[k]
<1> DEFINE k == NotLater(seq, wi)
           new == InsertOrdered(seq, wi)
<1>1. /\ Len(new) = Len(seq) + 1
      /\ new[i] = IF i <= k THEN seq[i]
                  ELSE IF i = k + 1 THEN wi ELSE seq[i - 1]
  BY InsertOrderedProperties, WorkItemsAreItems
<1>2. k \in 0..Len(seq) /\ Len(seq) \in Nat
  BY NotLaterProperties, WorkItemsAreItems
<1> HIDE DEF k, new
<1>3. CASE i <= k
  BY <1>1, <1>2, <1>3 DEF new
<1>4. CASE i = k + 1
  BY <1>1, <1>2, <1>4 DEF new
<1>5. CASE i > k + 1
  <2>1. i - 1 \in 1..Len(seq) /\ new[i] = seq[i - 1]
    BY <1>1, <1>2, <1>5 DEF new
  <2> QED
    BY <2>1 DEF new
<1> QED
  BY <1>2, <1>3, <1>4, <1>5 DEF new

LEMMA TailElements ==
    ASSUME NEW seq \in Seq(WorkItems), seq # << >>, NEW i \in 1..Len(Tail(seq))
    PROVE  \E k \in 1..Len(seq) : Tail(seq)[i] = seq[k]
<1>1. /\ Len(Tail(seq)) = Len(seq) - 1 /\ Len(seq) \in Nat
      /\ Tail(seq)[i] = seq[i + 1]
  BY HeadTailProperties
<1>2. i + 1 \in 1..Len(seq)
  BY <1>1
<1> QED
  BY <1>1, <1>2

LEMMA RemoveElements ==
    ASSUME NEW seq \in Seq(WorkItems), ProgressAt(seq) # {},
           NEW i \in 1..Len(WithoutFirstProgress(seq))
    PROVE  \E k \in 1..Len(seq) : WithoutFirstProgress(seq)[i] = seq[k]
<1> DEFINE p == FirstProgress(seq)
           new == WithoutFirstProgress(seq)
<1>1. seq \in Seq(Items)
  BY WorkItemsAreItems, SeqMonotonic
<1>2. p \in 1..Len(seq) /\ Len(seq) \in Nat
  BY <1>1, FirstProgressProperties
<1>3. /\ Len(new) = Len(seq) - 1
      /\ new[i] = IF i < p THEN seq[i] ELSE seq[i + 1]
  BY <1>2, RemoveAtProperties DEF WithoutFirstProgress
<1>4. i \in 1..Len(seq) /\ i + 1 \in 1..Len(seq)
  BY <1>2, <1>3
<1> QED
  BY <1>3, <1>4

-----------------------------------------------------------------------------
(***************************************************************************)
(* What is known of time at each place of the loop.                        *)
(***************************************************************************)
Sampled == {"drain", "ready", "inform", "batch", "decide"}

(* Items that wait in, or for, an exact list are not behind the clock.     *)
NotBehind(item) ==
    ListOf(item.trigger) \in Exact /\ item.trigger # "NOW" /\ ~Periodic(item.trigger)
        => clock[ListOf(item.trigger)] <= item.actionTime

AheadOf(sched, time) ==
    \A l \in Exact : \A k \in 1..Len(sched[l]) :
        sched[l][k].trigger # "NOW" => time[l] <= sched[l][k].actionTime

OnTime ==
    /\ \A j \in 1..Len(ctrlWorkList) : NotBehind(ctrlWorkList[j])
    /\ AheadOf(schedule, clock)

(* While the chip is clocked the work list holds nothing but items for     *)
(* now; before that, an item for a later time has raised the break flag.   *)
Undrained ==
    /\ pc \in Covered =>
          \A j \in 1..Len(ctrlWorkList) : ctrlWorkList[j].trigger # "NOW" => sysBreak
    /\ pc = "clock" =>
          \A j \in 1..Len(ctrlWorkList) : ctrlWorkList[j].trigger = "NOW"

(* Once no event is ready, all of them lie in the future, and so SYS_Execute *)
(* is bounded by them.                                                     *)
Bounded ==
    /\ pc \in {"inform", "batch", "decide"} =>
          \A l \in Exact : \A k \in 1..Len(schedule[l]) :
              now[l] < schedule[l][k].actionTime
    /\ pc \in {"execute", "clock"} =>
          \A l \in Exact : \A k \in 1..Len(schedule[l]) :
              stopAt[l] <= schedule[l][k].actionTime
    /\ pc = "clock" => \A l \in Exact \cap Honoured : clock[l] < stopAt[l]

TimeInv ==
    /\ pc \in Sampled => now = clock
    /\ OnTime
    /\ Undrained
    /\ Bounded
    /\ pc # "aborted"

(* The items of a list that are for now have action time 0.                *)
LEMMA NowIsZero ==
    ASSUME NEW item \in WorkItems
    PROVE  item.actionTime \in Nat /\ item.id \in Nat
           /\ (item.trigger = "NOW" => item.actionTime = 0)
BY DEF WorkItems, Items

(* An item that ItemOf builds is not behind the clock.                     *)
LEMMA NewItemNotBehind ==
    ASSUME TypeOK, NEW c, Proper(c)
    PROVE  NotBehind(ItemOf(c)) /\ ItemOf(c).trigger = c.trigger
<1>1. c \in CommandShape
  BY DEF Proper
<1>2. c.n \in Nat
  BY <1>1 DEF CommandShape
<1>3. ItemOf(c).trigger = c.trigger
  BY DEF ItemOf
<1>4. ASSUME c.trigger # "NOW", ~Periodic(c.trigger)
      PROVE  ItemOf(c).actionTime = clock[ListOf(c.trigger)] + c.n
  BY <1>4 DEF ItemOf
<1>5. clock[ListOf(c.trigger)] \in Nat
  BY ListOfType DEF TypeOK, SysTypeOK
<1> QED
  BY <1>2, <1>3, <1>4, <1>5 DEF NotBehind

(* What is appended to the work list is a new item.                        *)
LEMMA EnlistTime ==
    ASSUME TypeOK, NEW c \in AllCommands, Enlist(c), OnTime
    PROVE  /\ Len(ctrlWorkList') = Len(ctrlWorkList) + 1
           /\ \A j \in 1..Len(ctrlWorkList) : ctrlWorkList'[j] = ctrlWorkList[j]
           /\ ctrlWorkList'[Len(ctrlWorkList) + 1].trigger = c.trigger
           /\ \A j \in 1..Len(ctrlWorkList') : NotBehind(ctrlWorkList'[j])
<1> DEFINE item == ItemOf(c)
<1>1. NotBehind(item) /\ item.trigger = c.trigger
  BY NewItemNotBehind, CommandsType
<1>2. ctrlWorkList' = Append(ctrlWorkList, item) /\ ctrlWorkList \in Seq(WorkItems)
  BY DEF Enlist, Add, TypeOK
<1> HIDE DEF item
<1>3. /\ Len(ctrlWorkList') = Len(ctrlWorkList) + 1 /\ Len(ctrlWorkList) \in Nat
      /\ \A j \in 1..Len(ctrlWorkList) : ctrlWorkList'[j] = ctrlWorkList[j]
      /\ ctrlWorkList'[Len(ctrlWorkList) + 1] = item
  BY <1>2
<1>4. ASSUME NEW j \in 1..Len(ctrlWorkList')
      PROVE  NotBehind(ctrlWorkList'[j])
  <2>1. CASE j \in 1..Len(ctrlWorkList)
    BY <1>3, <2>1 DEF OnTime
  <2>2. CASE j = Len(ctrlWorkList) + 1
    BY <1>1, <1>3, <2>2
  <2> QED
    BY <1>3, <2>1, <2>2
<1> QED
  BY <1>1, <1>3, <1>4

(* Scheduling an item, taking the head of a list or a progress item away.  *)
LEMMA ScheduledAhead ==
    ASSUME NEW sched \in [Lists -> Seq(WorkItems)], NEW time \in [Lists -> Nat],
           NEW item \in WorkItems, AheadOf(sched, time),
           ListOf(item.trigger) \in Exact /\ item.trigger # "NOW"
             /\ ~Periodic(item.trigger)
                 => time[ListOf(item.trigger)] <= item.actionTime
    PROVE  AheadOf(Scheduled(sched, item, time), time)
<1> DEFINE m == ListOf(item.trigger)
           w == Timed(item, time)
           new == InsertOrdered(sched[m], w)
<1>1. m \in Lists /\ w \in WorkItems /\ w.trigger = item.trigger
  BY ListOfType, TimedType, TimedKeeps
<1>2. m \in Exact /\ w.trigger # "NOW" => time[m] <= w.actionTime
  <2>1. CASE Periodic(item.trigger)
    <3>1. item.period \in Nat /\ item.period > 0 /\ time[m] \in Nat
      BY <1>1, <2>1 DEF WorkItems, Items
    <3> DEFINE due == NextDue(item.trigger, time[m], item.period)
    <3>2. due > time[m] /\ due \in Nat
      BY <3>1, NextDueLater, NextDueType
    <3> HIDE DEF due
    <3>3. w.actionTime = due
      <4>1. w = [item EXCEPT !.actionTime = due]
        BY <2>1 DEF Timed, due
      <4> QED
        BY <4>1 DEF WorkItems, Items
    <3> QED
      BY <3>1, <3>2, <3>3
  <2>2. CASE ~Periodic(item.trigger)
    BY <2>2 DEF Timed
  <2> QED
    BY <2>1, <2>2
<1>3. Scheduled(sched, item, time) = [sched EXCEPT ![m] = new]
  BY DEF Scheduled
<1> HIDE DEF m, w
<1>4. sched[m] \in Seq(WorkItems)
  BY <1>1
<1>5. ASSUME NEW i \in 1..Len(new), m \in Exact, new[i].trigger # "NOW"
      PROVE  time[m] <= new[i].actionTime
  <2>1. new[i] = w \/ \E k \in 1..Len(sched[m]) : new[i] = sched[m][k]
    BY <1>1, <1>4, InsertElements
  <2> QED
    BY <1>2, <1>5, <2>1 DEF AheadOf
<1> HIDE DEF new
<1> QED
  BY <1>1, <1>3, <1>5 DEF AheadOf, Exact, Lists

LEMMA ThinnedAhead ==
    ASSUME NEW sched \in [Lists -> Seq(WorkItems)], NEW time, AheadOf(sched, time),
           NEW m \in Lists, NEW new,
           \A i \in 1..Len(new) : \E k \in 1..Len(sched[m]) : new[i] = sched[m][k]
    PROVE  AheadOf([sched EXCEPT ![m] = new], time)
<1> DEFINE after == [sched EXCEPT ![m] = new]
<1>1. /\ after[m] = new
      /\ \A l \in Exact : l # m => after[l] = sched[l]
  BY DEF Exact, Lists
<1> HIDE DEF after
<1>2. ASSUME NEW l \in Exact, NEW i \in 1..Len(after[l]), after[l][i].trigger # "NOW"
      PROVE  time[l] <= after[l][i].actionTime
  <2>1. PICK k \in 1..Len(sched[l]) : after[l][i] = sched[l][k]
    BY <1>1
  <2> QED
    BY <1>2, <2>1 DEF AheadOf
<1>3. AheadOf(after, time)
  BY <1>2 DEF AheadOf
<1> QED
  BY <1>3 DEF after

LEMMA ProcessEventAhead ==
    ASSUME TypeOK, NEW l \in Lists, ProcessEvent(l), AheadOf(schedule, now)
    PROVE  AheadOf(schedule', now)
<1> DEFINE item == Head(schedule[l])
           rest == [schedule EXCEPT ![l] = Tail(@)]
<1>1. /\ schedule \in [Lists -> Seq(WorkItems)] /\ now \in [Lists -> Nat]
      /\ schedule[l] \in Seq(WorkItems) /\ schedule[l] # << >>
  BY DEF TypeOK, ProcessEvent, Ready
<1>2. item \in WorkItems /\ Tail(schedule[l]) \in Seq(WorkItems)
  BY <1>1
<1>3. rest \in [Lists -> Seq(WorkItems)]
  BY <1>1, <1>2
<1>4. AheadOf(rest, now)
  BY <1>1, TailElements, ThinnedAhead
<1>5. schedule' = IF Periodic(item.trigger) THEN Scheduled(rest, item, now) ELSE rest
  BY DEF ProcessEvent
<1> HIDE DEF item, rest
<1>6. Periodic(item.trigger) => AheadOf(Scheduled(rest, item, now), now)
  BY <1>1, <1>2, <1>3, <1>4, ScheduledAhead
<1> QED
  BY <1>4, <1>5, <1>6

-----------------------------------------------------------------------------
(***************************************************************************)
(* The invariant, step by step.                                            *)
(***************************************************************************)
LEMMA TimeInit == Init => TimeInv
<1> SUFFICES ASSUME Init
             PROVE  TimeInv
  OBVIOUS
<1>1. Len(ctrlWorkList) = 0 /\ \A l \in Lists : Len(schedule[l]) = 0
  BY DEF Init, EmptySchedule
<1>2. OnTime
  BY <1>1 DEF OnTime, AheadOf, Exact, Lists
<1> QED
  BY <1>2 DEF Init, TimeInv, Undrained, Bounded, Sampled, Covered

(* A CMD_ function that breaks the performance model, called where no      *)
(* clock is under way.                                                     *)
LEMMA IssueTime ==
    ASSUME TypeOK, TimeInv, NEW c \in AllCommands, Enlist(c),
           pc \in Covered => sysBreak', c.trigger = "NOW" \/ pc # "clock",
           UNCHANGED << pc, schedule, now, clock, stopAt >>
    PROVE  TimeInv'
<1>1. /\ Len(ctrlWorkList') = Len(ctrlWorkList) + 1
      /\ \A j \in 1..Len(ctrlWorkList) : ctrlWorkList'[j] = ctrlWorkList[j]
      /\ ctrlWorkList'[Len(ctrlWorkList) + 1].trigger = c.trigger
      /\ \A j \in 1..Len(ctrlWorkList') : NotBehind(ctrlWorkList'[j])
  BY EnlistTime DEF TimeInv
<1>2. Len(ctrlWorkList) \in Nat
  BY DEF TypeOK
<1>3. OnTime'
  BY <1>1 DEF TimeInv, OnTime, NotBehind, AheadOf
<1>4. Undrained'
  <2>1. pc = "clock" => c.trigger = "NOW"
    OBVIOUS
  <2>2. ASSUME pc = "clock", NEW j \in 1..Len(ctrlWorkList')
        PROVE  ctrlWorkList'[j].trigger = "NOW"
    <3>1. CASE j \in 1..Len(ctrlWorkList)
      BY <1>1, <2>2, <3>1 DEF TimeInv, Undrained
    <3>2. CASE j = Len(ctrlWorkList) + 1
      BY <1>1, <2>1, <2>2, <3>2
    <3> QED
      BY <1>1, <1>2, <3>1, <3>2
  <2> QED
    BY <2>2 DEF Undrained
<1> QED
  BY <1>3, <1>4 DEF TimeInv, Bounded

LEMMA ReadyTime ==
    ASSUME TypeOK, TimeInv, ReadyEvent
    PROVE  TimeInv'
<1>1. PICK k \in 1..Len(ReadyOrder) :
          ProcessEvent(ReadyOrder[k]) \/ Dies(ReadyOrder[k])
  BY DEF ReadyEvent
<1> DEFINE l == ReadyOrder[k]
<1>2. l \in Lists
  BY ReadyOrderLists
<1> HIDE DEF l
<1>3. pc = "ready" /\ now = clock /\ AheadOf(schedule, clock)
  BY DEF ReadyEvent, TimeInv, Sampled, OnTime
<1>4. CASE ProcessEvent(l)
  <2>1. AheadOf(schedule', clock)
    BY <1>2, <1>3, <1>4, ProcessEventAhead
  <2>2. UNCHANGED << pc, now, clock, stopAt >>
    BY <1>4 DEF ProcessEvent
  <2>3. PICK item : PmAction(item)
    BY <1>4 DEF ProcessEvent
  <2>4. CASE UNCHANGED << ctrlWorkList, sysBreak >>
    BY <1>3, <2>1, <2>2, <2>4
       DEF TimeInv, OnTime, Undrained, Bounded, NotBehind, AheadOf, Covered
  <2>5. ASSUME NEW c \in FeederCommands, Enlist(c), SYS_Break
        PROVE  TimeInv'
    <3>1. \A j \in 1..Len(ctrlWorkList') : NotBehind(ctrlWorkList'[j])
      BY <2>5, EnlistTime, CallersIssueCommands DEF TimeInv
    <3> QED
      BY <1>3, <2>1, <2>2, <2>5, <3>1
         DEF TimeInv, OnTime, Undrained, Bounded, NotBehind, AheadOf, SYS_Break
  <2> QED
    BY <2>3, <2>4, <2>5 DEF PmAction
<1>5. CASE Dies(l)
  <2>1. ~Overrun(schedule, l, now)
    <3> SUFFICES ASSUME Overrun(schedule, l, now)
                 PROVE  FALSE
      OBVIOUS
    <3>1. /\ schedule[l] # << >> /\ schedule[l] \in Seq(WorkItems)
          /\ now[l] \in Nat
      BY <1>2 DEF Overrun, TypeOK
    <3>2. /\ Head(schedule[l]) = schedule[l][1] /\ 1 \in 1..Len(schedule[l])
          /\ Head(schedule[l]) \in WorkItems
      BY <3>1, HeadTailProperties, EmptySeq
    <3>3. Head(schedule[l]).actionTime \in Nat
      BY <3>2, NowIsZero
    <3>4. /\ ~Ready(schedule, l, now)
          /\ Head(schedule[l]).actionTime < now[l]
      BY DEF Overrun
    <3>5. CASE l \in Exact
      BY <1>3, <3>1, <3>2, <3>3, <3>4, <3>5 DEF Ready, AheadOf
    <3>6. CASE l \notin Exact
      BY <3>1, <3>3, <3>4, <3>6 DEF Ready
    <3> QED
      BY <3>5, <3>6
  <2>2. pc' = "crashed" /\ UNCHANGED << ctrlVars, sysVars >>
    BY <1>5, <2>1 DEF Dies
  <2> QED
    BY <2>2 DEF TimeInv, OnTime, NotBehind, AheadOf, Undrained, Bounded,
                Sampled, Covered, ctrlVars, sysVars
<1> QED
  BY <1>1, <1>4, <1>5 DEF l

(* When no event is ready, every item of an exact list lies in the future. *)
LEMMA NoEventReadyTime ==
    ASSUME TypeOK, OrderInv, NoEventReady, NEW l \in Exact,
           NEW k \in 1..Len(schedule[l])
    PROVE  now[l] < schedule[l][k].actionTime
<1>1. /\ schedule[l] \in Seq(WorkItems) /\ schedule[l] # << >>
      /\ now[l] \in Nat /\ l \in Lists
  BY EmptySeq DEF TypeOK, Exact, Lists
<1>2. /\ Head(schedule[l]) = schedule[l][1] /\ 1 \in 1..Len(schedule[l])
      /\ \A i \in 1..Len(schedule[l]) : schedule[l][i].actionTime \in Nat
  <2>1. \A i \in 1..Len(schedule[l]) : schedule[l][i] \in WorkItems
    BY <1>1, ElementOfSeq
  <2> QED
    BY <1>1, <2>1, HeadTailProperties, EmptySeq, NowIsZero
<1>3. ~Ready(schedule, l, now) /\ ~Overrun(schedule, l, now)
  <2>1. PICK m \in 1..Len(ReadyOrder) : ReadyOrder[m] = l
    BY DEF ReadyOrder, Exact
  <2> QED
    BY <2>1 DEF NoEventReady, StopsSearch
<1>4. now[l] < schedule[l][1].actionTime
  BY <1>1, <1>2, <1>3 DEF Ready, Overrun
<1>5. schedule[l][1].actionTime <= schedule[l][k].actionTime
  <2>1. CASE k = 1
    BY <1>2, <2>1
  <2>2. CASE k # 1
    <3>1. 1 \in 1..(k - 1)
      BY <2>2
    <3> QED
      BY <1>1, <3>1 DEF OrderInv, SchedInv, InOrder, Precedes
  <2> QED
    BY <2>1, <2>2
<1> QED
  BY <1>1, <1>2, <1>4, <1>5

(* The bounds of SYS_Execute.                                              *)
LEMMA DecideTime ==
    ASSUME TypeOK, OrderInv, TimeInv, Decide, NEW l \in Exact,
           NEW k \in 1..Len(schedule[l])
    PROVE  Bounds[l] <= schedule[l][k].actionTime
<1>1. /\ schedule[l] \in Seq(WorkItems) /\ schedule[l] # << >>
      /\ now[l] \in Nat /\ l \in Lists
  BY EmptySeq DEF TypeOK, Exact, Lists
<1>2. /\ Head(schedule[l]) = schedule[l][1] /\ 1 \in 1..Len(schedule[l])
      /\ schedule[l][1] \in WorkItems /\ schedule[l][k] \in WorkItems
  BY <1>1, HeadTailProperties, EmptySeq, ElementOfSeq
<1>3. /\ schedule[l][1].actionTime \in Nat /\ schedule[l][k].actionTime \in Nat
      /\ schedule[l][1].trigger = "NOW" => schedule[l][1].actionTime = 0
  BY <1>2, NowIsZero
<1>4. now[l] < schedule[l][1].actionTime
  BY <1>2 DEF TimeInv, Bounded, Decide
<1>5. Bounds[l] = schedule[l][1].actionTime
  BY <1>1, <1>2, <1>3, <1>4 DEF Bounds, NextEvent
<1>6. schedule[l][1].actionTime <= schedule[l][k].actionTime
  <2>1. CASE k = 1
    BY <1>3, <2>1
  <2>2. CASE k # 1
    <3>1. 1 \in 1..(k - 1)
      BY <2>2
    <3> QED
      BY <1>1, <3>1 DEF OrderInv, SchedInv, InOrder, Precedes
  <2> QED
    BY <2>1, <2>2
<1> QED
  BY <1>3, <1>5, <1>6

LEMMA DrainItemTime ==
    ASSUME TypeOK, TimeInv, DrainItem
    PROVE  TimeInv'
<1> DEFINE item == Head(ctrlWorkList)
<1>1. /\ ctrlWorkList \in Seq(WorkItems) /\ ctrlWorkList # << >>
      /\ schedule \in [Lists -> Seq(WorkItems)] /\ now \in [Lists -> Nat]
      /\ now = clock /\ pc = "drain"
  BY DEF TypeOK, DrainItem, TimeInv, Sampled
<1>2. /\ item = ctrlWorkList[1] /\ 1 \in 1..Len(ctrlWorkList)
      /\ item \in WorkItems
  BY <1>1, HeadTailProperties, EmptySeq
<1>3. NotBehind(item)
  BY <1>2 DEF TimeInv, OnTime
<1>4. schedule' = Scheduled(schedule, item, now)
  BY DEF DrainItem
<1> HIDE DEF item
<1>5. AheadOf(schedule', clock)
  BY <1>1, <1>2, <1>3, <1>4, ScheduledAhead DEF NotBehind, TimeInv, OnTime
<1>6. ASSUME NEW i \in 1..Len(Tail(ctrlWorkList))
      PROVE  NotBehind(Tail(ctrlWorkList)[i])
  BY <1>1, TailElements DEF TimeInv, OnTime
<1> QED
  BY <1>1, <1>5, <1>6
     DEF DrainItem, sysVars, TimeInv, OnTime, NotBehind, AheadOf, Undrained,
         Bounded, Covered, Sampled

LEMMA DrainClearingTime ==
    ASSUME TypeOK, TimeInv, DrainClearing
    PROVE  TimeInv'
<1> DEFINE l == Head(ctrlWorkList).arg
<1>1. /\ ctrlWorkList \in Seq(WorkItems) /\ ctrlWorkList # << >>
      /\ schedule \in [Lists -> Seq(WorkItems)]
      /\ now = clock /\ pc = "drain"
  BY DEF TypeOK, DrainClearing, TimeInv, Sampled
<1>2. l \in Lists
  <2>1. Head(ctrlWorkList) \in WorkItems
    BY <1>1
  <2> QED
    BY <2>1 DEF DrainClearing, WorkItems
<1> HIDE DEF l
<1>3. \/ ctrlWorkList' = ctrlWorkList \/ ctrlWorkList' = Tail(ctrlWorkList)
  BY DEF DrainClearing
<1>4. \A i \in 1..Len(ctrlWorkList') : NotBehind(ctrlWorkList'[i])
  BY <1>1, <1>3, TailElements DEF TimeInv, OnTime
<1>5. AheadOf(schedule', clock)
  <2>1. CASE UNCHANGED schedule
    BY <2>1 DEF TimeInv, OnTime
  <2>2. CASE /\ ProgressAt(schedule[l]) # {}
             /\ schedule' = [schedule EXCEPT ![l] = WithoutFirstProgress(@)]
    <3>1. \A i \in 1..Len(WithoutFirstProgress(schedule[l])) :
             \E k \in 1..Len(schedule[l]) :
                 WithoutFirstProgress(schedule[l])[i] = schedule[l][k]
      BY <1>1, <1>2, <2>2, RemoveElements
    <3> QED
      BY <1>1, <1>2, <2>2, <3>1, ThinnedAhead DEF TimeInv, OnTime
  <2> QED
    BY <2>1, <2>2 DEF DrainClearing, l
<1> QED
  BY <1>1, <1>4, <1>5
     DEF DrainClearing, sysVars, TimeInv, OnTime, NotBehind, AheadOf, Undrained,
         Bounded, Covered, Sampled

(* The clock moves: by one at most, and no further than the bounds.        *)
LEMMA EndClockTime ==
    ASSUME TypeOK, TimeInv, OneByOne, NEW d \in ClockSteps, EndClock(d)
    PROVE  TimeInv'
<1>1. /\ pc = "clock" /\ pc' = "execute"
      /\ UNCHANGED << ctrlWorkList, schedule, now, sysBreak, stopAt >>
      /\ clock' = [l \in Lists |-> clock[l] + d[l]]
  BY DEF EndClock, Advance, ctrlVars
<1>2. /\ clock \in [Lists -> Nat] /\ stopAt \in [Lists -> Nat]
      /\ d \in [Lists -> Nat] /\ schedule \in [Lists -> Seq(WorkItems)]
  BY ClockStepsAssumption DEF TypeOK, SysTypeOK
<1>3. ASSUME NEW l \in Exact, NEW k \in 1..Len(schedule[l]),
             schedule[l][k].trigger # "NOW"
      PROVE  clock'[l] <= schedule[l][k].actionTime
  <2>1. l \in Lists /\ clock'[l] = clock[l] + d[l]
    BY <1>1 DEF Exact, Lists
  <2>2. schedule[l][k] \in WorkItems
    BY <1>2, <2>1, ElementOfSeq
  <2>3. schedule[l][k].actionTime \in Nat
    BY <2>2, NowIsZero
  <2>4. CASE d[l] = 0
    BY <1>2, <1>3, <2>1, <2>4 DEF TimeInv, OnTime, AheadOf
  <2>5. CASE d[l] = 1 /\ l \in Honoured
    <3>1. clock[l] < stopAt[l] /\ stopAt[l] <= schedule[l][k].actionTime
      BY <1>1, <2>5 DEF TimeInv, Bounded
    <3> QED
      BY <1>2, <2>1, <2>3, <2>5, <3>1
  <2> QED
    BY <2>4, <2>5 DEF OneByOne
<1>4. \A j \in 1..Len(ctrlWorkList) : ctrlWorkList[j].trigger = "NOW"
  BY <1>1 DEF TimeInv, Undrained
<1> QED
  BY <1>1, <1>3, <1>4
     DEF TimeInv, OnTime, NotBehind, AheadOf, Undrained, Bounded, Sampled, Covered

LEMMA TimeStep ==
    OneByOne /\ TypeOK /\ OrderInv /\ TimeInv /\ [Next]_vars => TimeInv'
<1> SUFFICES ASSUME OneByOne, TypeOK, OrderInv, TimeInv, [Next]_vars
             PROVE  TimeInv'
  OBVIOUS
<1>1. ASSUME UNCHANGED << ctrlWorkList, schedule, now, clock, sysBreak, stopAt >>,
             pc' # "aborted", pc' # "clock",
             pc' \in Sampled => pc \in Sampled,
             pc' \in Covered => pc \in Covered,
             pc' \in {"inform", "batch", "decide"} => pc \in {"inform", "batch", "decide"},
             pc' \in {"execute", "clock"} => pc \in {"execute", "clock"}
      PROVE  TimeInv'
  BY <1>1 DEF TimeInv, OnTime, NotBehind, AheadOf, Undrained, Bounded
<1>2. ASSUME NEW c \in FeederCommands, FeederInit(c)
      PROVE  TimeInv'
  BY <1>2, IssueTime, CallersIssueCommands DEF FeederInit, sysVars, Covered
<1>3. ASSUME NEW success \in BOOLEAN, CMD_Init(success)
      PROVE  TimeInv'
  BY <1>1, <1>3 DEF CMD_Init, ctrlVars, sysVars, Sampled, Covered
<1>4. ASSUME NEW c \in StartupCommands, Startup(c)
      PROVE  TimeInv'
  BY <1>4, IssueTime, CallersIssueCommands DEF Startup, Issue, Covered
<1>5. CASE Activated \/ Usage
  BY <1>1, <1>5 DEF Activated, Usage, ctrlVars, sysVars, Sampled, Covered
<1>6. CASE Sample
  BY <1>6 DEF Sample, sysVars, TimeInv, OnTime, NotBehind, AheadOf, Undrained,
              Bounded, Covered
<1>7. CASE DrainItem \/ DrainClearing
  BY <1>7, DrainItemTime, DrainClearingTime
<1>8. CASE ClearBreak
  <2>1. Len(ctrlWorkList') = 0
    BY <1>8 DEF ClearBreak, ctrlVars
  <2> QED
    BY <1>8, <2>1 DEF ClearBreak, ctrlVars, TimeInv, OnTime, NotBehind, AheadOf,
                      Undrained, Bounded, Sampled
<1>9. CASE ReadyEvent
  BY <1>9, ReadyTime
<1>10. CASE NoEventReady
  <2>1. /\ pc = "ready" /\ pc' = "inform"
        /\ UNCHANGED << ctrlWorkList, schedule, now, clock, sysBreak, stopAt >>
    BY <1>10 DEF NoEventReady, ctrlVars, sysVars
  <2>2. \A l \in Exact : \A k \in 1..Len(schedule[l]) :
            now[l] < schedule[l][k].actionTime
    BY <1>10, NoEventReadyTime
  <2> QED
    BY <2>1, <2>2 DEF TimeInv, OnTime, NotBehind, AheadOf, Undrained, Bounded,
                      Sampled, Covered
<1>11. CASE AWB_InformProgress
  BY <1>1, <1>11 DEF AWB_InformProgress, ctrlVars, sysVars, Sampled, Covered
<1>12. ASSUME NEW c \in WbCommands, BatchProgress(c)
       PROVE  TimeInv'
  BY <1>12, IssueTime, CallersIssueCommands DEF BatchProgress, Issue, SYS_Break
<1>13. CASE BatchDone
  BY <1>1, <1>13 DEF BatchDone, sysVars, Sampled, Covered
<1>14. CASE Decide
  <2>1. CASE pc' = "loop"
    BY <1>1, <1>14, <2>1 DEF Decide, ctrlVars, Sampled, Covered
  <2>2. CASE pc' = "execute" /\ stopAt' = Bounds
    <3>1. \A l \in Exact : \A k \in 1..Len(schedule[l]) :
              Bounds[l] <= schedule[l][k].actionTime
      BY <1>14, DecideTime
    <3>2. /\ pc = "decide"
          /\ UNCHANGED << ctrlWorkList, schedule, now, clock, sysBreak >>
      BY <1>14 DEF Decide, ctrlVars
    <3> QED
      BY <2>2, <3>1, <3>2
         DEF TimeInv, OnTime, NotBehind, AheadOf, Undrained, Bounded, Sampled, Covered
  <2> QED
    BY <1>14, <2>1, <2>2 DEF Decide, SYS_ExecuteEnter
<1>15. CASE BeginClock
  <2>1. /\ pc = "execute" /\ pc' = "clock" /\ ~sysBreak
        /\ \A l \in Honoured : clock[l] < stopAt[l]
        /\ UNCHANGED << ctrlWorkList, schedule, now, clock, sysBreak, stopAt >>
    BY <1>15 DEF BeginClock, Running, ctrlVars, sysVars
  <2> QED
    BY <2>1 DEF TimeInv, OnTime, NotBehind, AheadOf, Undrained, Bounded, Sampled,
                Covered
<1>16. ASSUME NEW c \in ChipCommands, DuringClock(c)
       PROVE  TimeInv'
  BY <1>16, IssueTime, CallersIssueCommands, CallbacksAssumption
     DEF DuringClock, Issue, SYS_Break
<1>17. CASE CheckExitConditions
  <2> DEFINE exit == CMD_Exit("NOW", 0)
  <2>1. exit \in AllCommands /\ exit.trigger = "NOW"
    BY CallersIssueCommands DEF CMD_Exit, Command
  <2>2. Enlist(exit)
    BY <1>17 DEF CheckExitConditions
  <2> HIDE DEF exit
  <2>3. /\ pc = "clock"
        /\ UNCHANGED << pc, schedule, now, clock, sysBreak, stopAt >>
    BY <1>17 DEF CheckExitConditions, sysVars
  <2>4. /\ Len(ctrlWorkList') = Len(ctrlWorkList) + 1
        /\ \A j \in 1..Len(ctrlWorkList) : ctrlWorkList'[j] = ctrlWorkList[j]
        /\ ctrlWorkList'[Len(ctrlWorkList) + 1].trigger = exit.trigger
        /\ \A j \in 1..Len(ctrlWorkList') : NotBehind(ctrlWorkList'[j])
    BY <2>1, <2>2, EnlistTime DEF TimeInv
  <2>5. Len(ctrlWorkList) \in Nat
    BY DEF TypeOK
  <2>6. \A j \in 1..Len(ctrlWorkList') : ctrlWorkList'[j].trigger = "NOW"
    BY <2>1, <2>3, <2>4, <2>5 DEF TimeInv, Undrained
  <2> QED
    BY <2>3, <2>4, <2>6 DEF TimeInv, OnTime, NotBehind, AheadOf, Undrained, Bounded
<1>18. ASSUME NEW d \in ClockSteps, EndClock(d)
       PROVE  TimeInv'
  BY <1>18, EndClockTime
<1>19. CASE ExecuteDone
  <2>1. /\ pc = "execute" /\ pc' = "loop"
        /\ UNCHANGED << schedule, now, clock, stopAt >>
    BY <1>19 DEF ExecuteDone
  <2>2. \A j \in 1..Len(ctrlWorkList') : NotBehind(ctrlWorkList'[j])
    <3>1. CASE UNCHANGED ctrlWorkList
      BY <3>1 DEF TimeInv, OnTime
    <3>2. CASE Enlist(CMD_Stop("NOW", 0))
      BY <3>2, EnlistTime, CallersIssueCommands DEF TimeInv
    <3> QED
      BY <1>19, <3>1, <3>2 DEF ExecuteDone, Issue
  <2> QED
    BY <2>1, <2>2 DEF TimeInv, OnTime, NotBehind, AheadOf, Undrained, Bounded,
                      Sampled, Covered
<1>20. CASE Exit
  <2>1. Len(ctrlWorkList') = 0 /\ \A l \in Lists : Len(schedule'[l]) = 0
    BY <1>20 DEF Exit, EmptySchedule
  <2> QED
    BY <1>20, <2>1 DEF Exit, sysVars, TimeInv, OnTime, AheadOf, Undrained, Bounded,
                       Sampled, Covered, Exact, Lists
<1>21. CASE UNCHANGED vars
  BY <1>21 DEF vars, ctrlVars, sysVars, TimeInv, OnTime, NotBehind, AheadOf,
               Undrained, Bounded
<1> QED
  BY <1>2, <1>3, <1>4, <1>5, <1>6, <1>7, <1>8, <1>9, <1>10, <1>11, <1>12, <1>13,
     <1>14, <1>15, <1>16, <1>17, <1>18, <1>19, <1>20, <1>21
     DEF Next, Loop, Calls

(***************************************************************************)
(* Where cycles and nanoseconds are stepped through one by one and their   *)
(* bounds are honoured, no VERIFYX of ReadyEvent ever fails, whatever is   *)
(* scheduled and whenever.                                                 *)
(***************************************************************************)
THEOREM NeverAborts == Spec => [](OneByOne => NoAbort)
<1>1. Init => (OneByOne => TimeInv)
  BY TimeInit
<1>2. TypeOK /\ OrderInv /\ (OneByOne => TimeInv) /\ [Next]_vars
          => (OneByOne => TimeInv)'
  BY TimeStep DEF OneByOne
<1>3. (OneByOne => TimeInv) => (OneByOne => NoAbort)
  BY DEF TimeInv, NoAbort
<1>4. TypeOK /\ [Next]_vars => TypeOK'
  BY TypeStep
<1>5. TypeOK /\ OrderInv /\ [Next]_vars => OrderInv'
  BY OrderStep
<1> QED
  BY <1>1, <1>2, <1>3, <1>4, <1>5, TypeInit, OrderInit, PTL DEF Spec

-----------------------------------------------------------------------------
(***************************************************************************)
(* The bounds of SYS_Execute, on every system.                             *)
(***************************************************************************)

(* From the moment no event is ready until SYS_Execute is entered, every   *)
(* head waits for a time to come.                                          *)
HeadsAhead ==
    pc \in {"inform", "batch", "decide"} =>
        \A l \in Lists : schedule[l] # << >> =>
            /\ Head(schedule[l]).trigger # "NOW"
            /\ now[l] < Head(schedule[l]).actionTime

LEMMA NoEventReadyHeads ==
    ASSUME TypeOK, NoEventReady, NEW l \in Lists, schedule[l] # << >>
    PROVE  /\ Head(schedule[l]).trigger # "NOW"
           /\ now[l] < Head(schedule[l]).actionTime
<1>1. schedule[l] \in Seq(WorkItems) /\ now[l] \in Nat
  BY DEF TypeOK
<1>2. Head(schedule[l]) \in WorkItems
  BY <1>1
<1>3. Head(schedule[l]).actionTime \in Nat
  BY <1>2, NowIsZero
<1>4. ~Ready(schedule, l, now) /\ ~Overrun(schedule, l, now)
  <2>1. PICK m \in 1..Len(ReadyOrder) : ReadyOrder[m] = l
    BY DEF ReadyOrder, Lists
  <2> QED
    BY <2>1 DEF NoEventReady, StopsSearch
<1> QED
  BY <1>1, <1>3, <1>4 DEF Ready, Overrun

LEMMA HeadsStep == TypeOK /\ HeadsAhead /\ [Next]_vars => HeadsAhead'
<1> SUFFICES ASSUME TypeOK, HeadsAhead, [Next]_vars
             PROVE  HeadsAhead'
  OBVIOUS
<1>1. ASSUME UNCHANGED << schedule, now >>,
             pc' \in {"inform", "batch", "decide"} => pc \in {"inform", "batch", "decide"}
      PROVE  HeadsAhead'
  BY <1>1 DEF HeadsAhead
<1>2. CASE NoEventReady
  <2>1. UNCHANGED << schedule, now >>
    BY <1>2 DEF NoEventReady, ctrlVars
  <2> QED
    BY <1>2, <2>1, NoEventReadyHeads DEF HeadsAhead
<1>3. CASE ReadyEvent
  <2>1. pc' \notin {"inform", "batch", "decide"}
    BY <1>3 DEF ReadyEvent, ProcessEvent, Dies
  <2> QED
    BY <2>1 DEF HeadsAhead
<1>4. CASE Sample \/ DrainItem \/ DrainClearing \/ Exit
  BY <1>4 DEF Sample, DrainItem, DrainClearing, Exit, HeadsAhead
<1>5. CASE \/ Activated \/ ClearBreak \/ AWB_InformProgress \/ BatchDone
           \/ Decide \/ BeginClock \/ ExecuteDone \/ Usage
  BY <1>1, <1>5 DEF Activated, ClearBreak, AWB_InformProgress, BatchDone, Decide,
                    BeginClock, ExecuteDone, Usage, ctrlVars
<1>6. CASE \E d \in ClockSteps : EndClock(d)
  BY <1>1, <1>6 DEF EndClock, ctrlVars
<1>7. CASE Calls
  BY <1>1, <1>7 DEF Calls, FeederInit, CMD_Init, Startup, Usage, BatchProgress,
                    DuringClock, CheckExitConditions, ctrlVars
<1>8. CASE UNCHANGED vars
  BY <1>1, <1>8 DEF vars, ctrlVars
<1> QED
  BY <1>2, <1>3, <1>4, <1>5, <1>6, <1>7, <1>8 DEF Next, Loop

(* The time that stands for "no event" is not reached: the code compares   *)
(* 64-bit counters with the largest of them.                               *)
NeverIsNever == \A l \in Lists : now[l] < UINT64_MAX

(***************************************************************************)
(* Whatever the system does, also where clocks step over the times of      *)
(* items, each of the five bounds lies ahead of the sampled time when      *)
(* SYS_Execute may be entered: the assertion before the call cannot fail,  *)
(* and the performance model always has something to do.                   *)
(***************************************************************************)
THEOREM BoundsLieAhead == Spec => [](NeverIsNever => BoundsAhead)
<1>1. Init => HeadsAhead
  BY DEF Init, HeadsAhead
<1>2. HeadsAhead => (NeverIsNever => BoundsAhead)
  BY DEF HeadsAhead, NeverIsNever, BoundsAhead, Bounds, NextEvent
<1> QED
  BY <1>1, <1>2, HeadsStep, TypeCorrect, PTL DEF Spec
=============================================================================
