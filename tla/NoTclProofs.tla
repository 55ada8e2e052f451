----------------------------- MODULE NoTclProofs -----------------------------
(***************************************************************************)
(* Theorems about the workbench without Tcl, for every script, every set   *)
(* of threads and every behaviour of the clock.                            *)
(***************************************************************************)
EXTENDS NoTclProperties, ControllerProofs

(* The program has not ended by a call of exit() in the workbench, which   *)
(* is no place of the controller.                                          *)
Live == pc \notin {"exit0", "exit1"}

Script(lines) ==
    /\ lines \in Seq(Lines)
    /\ \A k \in DOMAIN lines : lines[k].cmd = "run" => lines[k].arg \in RunTypes

WbTypeOK ==
    /\ wb \in Routines
    /\ Script(tokens)
    /\ bmStopType \in RunTypes \cup {""}
    /\ bmStopTime \in Nat
    /\ threads \in Seq([thread : Args, state : ThreadStates])
    /\ markers \in Nat

(* Whatever waits on the work list has raised the break flag since the     *)
(* list was last found empty; nobody here enlists work behind its back.    *)
Cover == pc \in Covered /\ ctrlWorkList # << >> => sysBreak

(* BatchProgress stays where it is until it has been through.              *)
Placed == wb # "reports" => pc \in {"batch", "crashed"}

BaseInv ==
    Live => /\ TypeOK
            /\ WbTypeOK
            /\ Placed
            /\ OrderInv
            /\ Cover
            /\ OneByOne => TimeInv

-----------------------------------------------------------------------------
OrderlyLines(lines) ==
    \A k \in DOMAIN lines :
        /\ lines[k].cmd = "run" /\ lines[k].arg # "marker" => lines[k].n > 0
        /\ lines[k].cmd = "exit" => k = Len(lines)

TokensInv ==
    Orderly => /\ OrderlyLines(tokens)
               /\ wb = "check" => tokens = << >> \/ ~TimeHasCome
               /\ wb = "commands" => tokens = << >>

-----------------------------------------------------------------------------
Named(list, name) == \E k \in 1..Len(list) : list[k].name = name

Once(list, name) ==
    \A i, j \in 1..Len(list) : list[i].name = name /\ list[j].name = name => i = j

(* What is known of an item by its name.                                   *)
Kind(i) ==
    /\ i.name = "PROGRESS" => i.arg \in Lists
    /\ i.name \in {"START", "EXIT"} => i.trigger = "NOW"
    /\ i.name = "STOP" => ~Periodic(i.trigger)

-----------------------------------------------------------------------------
(***************************************************************************)
(* What the workbench asks of the controller.                              *)
(***************************************************************************)
Asked == {c \in CommandShape : Proper(c) /\ Kind(c)}

LEMMA AskedCommand ==
    ASSUME NEW name \in Names, NEW arg \in Args, NEW trigger \in Triggers, NEW n \in Nat,
           Periodic(trigger) => n > 0,
           name = "CLEARPROGRESS" => arg \in Lists,
           name = "PROGRESS" => arg \in Lists,
           name \in {"START", "EXIT"} => trigger = "NOW",
           name = "STOP" => ~Periodic(trigger)
    PROVE  Command(name, arg, trigger, n) \in Asked
<1> DEFINE c == Command(name, arg, trigger, n)
<1>1. c = [name |-> name, arg |-> arg, trigger |-> trigger, n |-> n]
  BY DEF Command
<1>2. c \in CommandShape
  BY <1>1 DEF CommandShape
<1>3. c.name = name /\ c.arg = arg /\ c.trigger = trigger /\ c.n = n
  BY <1>1
<1> HIDE DEF c
<1>4. Proper(c) /\ Kind(c)
  BY <1>2, <1>3 DEF Proper, Kind
<1> QED
  BY <1>2, <1>4 DEF Asked, c

LEMMA AskedStart == CMD_Start \in Asked /\ CMD_Start.name = "START"
<1>1. "START" \in Names /\ "none" \in Args /\ "NOW" \in Triggers /\ ~Periodic("NOW")
  BY DEF Names, Args, Triggers, Periodic
<1>2. Command("START", "none", "NOW", 0) \in Asked
  BY <1>1, AskedCommand
<1> QED
  BY <1>2 DEF CMD_Start, Command

LEMMA AskedStop ==
    ASSUME NEW trigger \in {"NOW", "CYCLE_ONCE", "INST_ONCE"}, NEW n \in Nat
    PROVE  /\ CMD_Stop(trigger, n) \in Asked
           /\ CMD_Stop(trigger, n).name = "STOP"
           /\ CMD_Stop(trigger, n).trigger = trigger
           /\ CMD_Stop(trigger, n).n = n
<1>1. "STOP" \in Names /\ "none" \in Args /\ trigger \in Triggers /\ ~Periodic(trigger)
  BY DEF Names, Args, Triggers, Periodic
<1>2. Command("STOP", "none", trigger, n) \in Asked
  BY <1>1, AskedCommand
<1> QED
  BY <1>2 DEF CMD_Stop, Command

LEMMA AskedExit == CMD_Exit("NOW", 0) \in Asked /\ CMD_Exit("NOW", 0).name = "EXIT"
<1>1. "EXIT" \in Names /\ "none" \in Args /\ "NOW" \in Triggers /\ ~Periodic("NOW")
  BY DEF Names, Args, Triggers, Periodic
<1>2. Command("EXIT", "none", "NOW", 0) \in Asked
  BY <1>1, AskedCommand
<1> QED
  BY <1>2 DEF CMD_Exit, Command

(* Of threads and of the progress it asks only what neither stops, starts  *)
(* nor ends the model.                                                     *)
Harmless == {c \in Asked : c.name \notin {"STOP", "START", "EXIT"}}

LEMMA AskedOfThread ==
    ASSUME NEW t \in Args, NEW trigger \in {"NOW", "CYCLE_ONCE"}, NEW n \in Nat
    PROVE  /\ CMD_ScheduleThread(t, trigger, n) \in Harmless
           /\ CMD_UnscheduleThread(t, trigger, n) \in Harmless
           /\ CMD_SkipThread(t, trigger, n) \in Harmless
<1>1. /\ {"THDSCHED", "THDUNSCHED", "THDSKIP"} \subseteq Names
      /\ trigger \in Triggers /\ ~Periodic(trigger)
  BY DEF Names, Triggers, Periodic
<1>2. \A name \in {"THDSCHED", "THDUNSCHED", "THDSKIP"} :
          Command(name, t, trigger, n) \in Asked
  BY <1>1, AskedCommand
<1>3. \A name : Command(name, t, trigger, n).name = name
  BY DEF Command
<1> QED
  BY <1>2, <1>3 DEF CMD_ScheduleThread, CMD_UnscheduleThread, CMD_SkipThread, Harmless

LEMMA AskedProgress ==
    ASSUME NEW l \in ProgressTypes, NEW n \in Nat
    PROVE  /\ CMD_ClearProgress(l) \in Harmless
           /\ n > 0 => \A t \in {"CYCLE_PERIOD", "MACROINST_PERIOD"} :
                           CMD_Progress(l, t, n) \in Harmless
<1>1. /\ {"PROGRESS", "CLEARPROGRESS"} \subseteq Names
      /\ {"NOW", "CYCLE_PERIOD", "MACROINST_PERIOD"} \subseteq Triggers
      /\ ~Periodic("NOW") /\ l \in Lists /\ l \in Args
  BY DEF Names, Triggers, Periodic, ProgressTypes, Lists, Args
<1>2. Command("CLEARPROGRESS", l, "NOW", 0) \in Asked
  BY <1>1, AskedCommand
<1>3. ASSUME n > 0, NEW t \in {"CYCLE_PERIOD", "MACROINST_PERIOD"}
      PROVE  Command("PROGRESS", l, t, n) \in Asked
  BY <1>1, <1>3, AskedCommand
<1>4. \A name, t, m : Command(name, l, t, m).name = name
  BY DEF Command
<1> QED
  BY <1>2, <1>3, <1>4 DEF CMD_ClearProgress, CMD_Progress, Harmless

-----------------------------------------------------------------------------
(***************************************************************************)
(* What IssueAll leaves behind, item by item.                              *)
(***************************************************************************)
Enlisted(cmds) ==
    /\ issued' = issued + Len(cmds)
    /\ ctrlWorkList' \in Seq(WorkItems)
    /\ Len(ctrlWorkList') = Len(ctrlWorkList) + Len(cmds)
    /\ \A j \in 1..Len(ctrlWorkList) : ctrlWorkList'[j] = ctrlWorkList[j]
    /\ \A k \in 1..Len(cmds) :
          ctrlWorkList'[Len(ctrlWorkList) + k] =
              [ItemOf(cmds[k]) EXCEPT !.id = issued + k]
    /\ sysBreak' \in BOOLEAN /\ (sysBreak' <=> sysBreak \/ Len(cmds) > 0)
    /\ pmStopped' \in BOOLEAN /\ (pmStopped' <=> pmStopped /\ ~Named(cmds, "START"))

LEMMA IdGiven ==
    ASSUME NEW i \in WorkItems, NEW n \in Nat
    PROVE  /\ [i EXCEPT !.id = n] \in WorkItems
           /\ [i EXCEPT !.id = n].id = n
           /\ [i EXCEPT !.id = n].name = i.name
           /\ [i EXCEPT !.id = n].arg = i.arg
           /\ [i EXCEPT !.id = n].trigger = i.trigger
           /\ [i EXCEPT !.id = n].actionTime = i.actionTime
BY DEF WorkItems, Items

LEMMA IssueAllEnlists ==
    ASSUME TypeOK, NEW cmds \in Seq(Asked), IssueAll(cmds)
    PROVE  Enlisted(cmds)
<1> DEFINE new == [k \in 1..Len(cmds) |-> [ItemOf(cmds[k]) EXCEPT !.id = issued + k]]
<1>1. ctrlWorkList \in Seq(WorkItems) /\ issued \in Nat /\ Len(cmds) \in Nat
      /\ sysBreak \in BOOLEAN /\ pmStopped \in BOOLEAN
  BY DEF TypeOK, SysTypeOK
<1>2. ASSUME NEW k \in 1..Len(cmds)
      PROVE  [ItemOf(cmds[k]) EXCEPT !.id = issued + k] \in WorkItems
  <2>1. Proper(cmds[k])
    BY DEF Asked
  <2>2. ItemOf(cmds[k]) \in WorkItems
    BY <2>1, ProperItem
  <2>3. issued + k \in Nat
    BY <1>1
  <2> QED
    BY <2>2, <2>3, IdGiven
<1>3. new \in Seq(WorkItems) /\ Len(new) = Len(cmds)
  BY <1>1, <1>2
<1>4. \A k \in 1..Len(cmds) : new[k] = [ItemOf(cmds[k]) EXCEPT !.id = issued + k]
  OBVIOUS
<1>5. /\ issued' = issued + Len(cmds)
      /\ ctrlWorkList' = ctrlWorkList \o new
      /\ sysBreak' = (sysBreak \/ cmds # << >>)
      /\ pmStopped' = (pmStopped /\ \A c \in ToSet(cmds) : c.name # "START")
  BY DEF IssueAll
<1> HIDE DEF new
<1>6. /\ ctrlWorkList' \in Seq(WorkItems)
      /\ Len(ctrlWorkList') = Len(ctrlWorkList) + Len(cmds)
      /\ \A j \in 1..Len(ctrlWorkList) : ctrlWorkList'[j] = ctrlWorkList[j]
      /\ \A k \in 1..Len(new) : ctrlWorkList'[Len(ctrlWorkList) + k] = new[k]
  <2> DEFINE n == Len(ctrlWorkList)
  <2>1. /\ ctrlWorkList \o new \in Seq(WorkItems)
        /\ Len(ctrlWorkList \o new) = n + Len(new)
        /\ \A i \in 1..(n + Len(new)) :
              (ctrlWorkList \o new)[i] = IF i <= n THEN ctrlWorkList[i] ELSE new[i - n]
    BY <1>1, <1>3, ConcatProperties
  <2>2. n \in Nat
    BY <1>1
  <2> HIDE DEF n
  <2>3. ASSUME NEW k \in 1..Len(new)
        PROVE  (ctrlWorkList \o new)[n + k] = new[k]
    <3>1. n + k \in 1..(n + Len(new)) /\ ~(n + k <= n) /\ (n + k) - n = k
      BY <1>1, <1>3, <2>2
    <3> QED
      BY <2>1, <3>1
  <2>4. \A j \in 1..n : (ctrlWorkList \o new)[j] = ctrlWorkList[j]
    BY <1>1, <1>3, <2>1, <2>2
  <2> QED
    BY <1>3, <1>5, <2>1, <2>3, <2>4 DEF n
<1>7. cmds # << >> <=> Len(cmds) > 0
  BY EmptySeq
<1>8. (\A c \in ToSet(cmds) : c.name # "START") <=> ~Named(cmds, "START")
  BY DEF ToSet, Named
<1> QED
  BY <1>1, <1>3, <1>4, <1>5, <1>6, <1>7, <1>8 DEF Enlisted

LEMMA IssueNothingEnlists ==
    ASSUME TypeOK, IssueNothing
    PROVE  << >> \in Seq(Asked) /\ Enlisted(<< >>)
<1>1. ctrlWorkList \in Seq(WorkItems) /\ issued \in Nat
      /\ sysBreak \in BOOLEAN /\ pmStopped \in BOOLEAN
  BY DEF TypeOK, SysTypeOK
<1>2. Len(<< >>) = 0 /\ << >> \in Seq(Asked)
  OBVIOUS
<1>3. ~Named(<< >>, "START")
  BY <1>2 DEF Named
<1> QED
  BY <1>1, <1>2, <1>3 DEF IssueNothing, Enlisted

-----------------------------------------------------------------------------
(***************************************************************************)
(* The invariants of the controller, when the workbench asked something.   *)
(***************************************************************************)
LEMMA EnlistedType ==
    ASSUME TypeOK, NEW cmds \in Seq(Asked), Enlisted(cmds), pc' \in Places,
           pendingProgress' \in Seq(Reports), switches' \in [Switches -> BOOLEAN],
           UNCHANGED << schedule, now, pmExiting, clock, stopAt, markerHit >>
    PROVE  TypeOK'
<1>1. issued' \in Nat
  BY DEF TypeOK, Enlisted
<1> QED
  BY <1>1 DEF TypeOK, SysTypeOK, Enlisted

LEMMA EnlistedOrder ==
    ASSUME TypeOK, OrderInv, NEW cmds \in Seq(Asked), Enlisted(cmds), UNCHANGED schedule
    PROVE  OrderInv'
<1> DEFINE n == Len(ctrlWorkList)
           m == Len(cmds)
<1>1. n \in Nat /\ m \in Nat /\ issued \in Nat
  BY DEF TypeOK
<1>2. /\ Len(ctrlWorkList') = n + m /\ issued' = issued + m
      /\ \A j \in 1..n : ctrlWorkList'[j] = ctrlWorkList[j]
  BY DEF Enlisted
<1>3. ASSUME NEW k \in 1..m
      PROVE  ctrlWorkList'[n + k].id = issued + k
  <2>1. Proper(cmds[k])
    BY DEF Asked
  <2>2. ItemOf(cmds[k]) \in WorkItems
    BY <2>1, ProperItem
  <2>3. [ItemOf(cmds[k]) EXCEPT !.id = issued + k].id = issued + k
    BY <1>1, <2>2, IdGiven
  <2> QED
    BY <2>3 DEF Enlisted
<1>4. \A j \in 1..n : ctrlWorkList[j].id \in Nat /\ ctrlWorkList[j].id <= issued
  BY DEF TypeOK, OrderInv, QueueInv, WorkItems, Items
<1> HIDE DEF n, m
<1>5. \A j \in 1..(n + m) :
          \/ j \in 1..n
          \/ j - n \in 1..m /\ ctrlWorkList'[j].id = issued + (j - n)
  <2> SUFFICES ASSUME NEW j \in 1..(n + m), j \notin 1..n
               PROVE  j - n \in 1..m /\ ctrlWorkList'[j].id = issued + (j - n)
    OBVIOUS
  <2>1. j - n \in 1..m
    BY <1>1
  <2>2. n + (j - n) = j
    BY <1>1
  <2> QED
    BY <1>3, <2>1, <2>2
<1>6. QueueInv(ctrlWorkList', issued')
  <2>1. ASSUME NEW j \in 1..(n + m)
        PROVE  ctrlWorkList'[j].id <= issued + m
    BY <1>1, <1>2, <1>4, <1>5
  <2>2. ASSUME NEW j \in 1..(n + m), NEW i \in 1..(j - 1)
        PROVE  ctrlWorkList'[i].id < ctrlWorkList'[j].id
    <3>1. i \in 1..(n + m) /\ i < j
      BY <1>1
    <3>2. CASE j \in 1..n
      <4>1. i \in 1..n /\ ctrlWorkList[i].id < ctrlWorkList[j].id
        BY <1>1, <3>1, <3>2 DEF OrderInv, QueueInv, n
      <4> QED
        BY <1>2, <3>2, <4>1
    <3>3. CASE j - n \in 1..m /\ ctrlWorkList'[j].id = issued + (j - n)
      <4>1. CASE i \in 1..n
        <5>1. ctrlWorkList'[i].id <= issued /\ ctrlWorkList'[i].id \in Nat
          BY <1>2, <1>4, <4>1
        <5> QED
          BY <1>1, <3>3, <5>1
      <4>2. CASE i - n \in 1..m /\ ctrlWorkList'[i].id = issued + (i - n)
        BY <1>1, <3>1, <3>3, <4>2
      <4> QED
        BY <1>5, <3>1, <4>1, <4>2
    <3> QED
      BY <1>5, <3>2, <3>3
  <2> QED
    BY <1>2, <2>1, <2>2 DEF QueueInv
<1>7. SchedInv(schedule, ctrlWorkList', issued')
  <2> SUFFICES ASSUME NEW l \in Lists
               PROVE  /\ InOrder(schedule[l])
                      /\ OlderThan(schedule[l], issued' + 1)
                      /\ \A j \in 1..(n + m) : OlderThan(schedule[l], ctrlWorkList'[j].id)
    BY <1>2 DEF SchedInv
  <2>1. /\ InOrder(schedule[l]) /\ OlderThan(schedule[l], issued + 1)
        /\ \A j \in 1..n : OlderThan(schedule[l], ctrlWorkList[j].id)
    BY DEF OrderInv, SchedInv, n
  <2>2. \A k \in 1..Len(schedule[l]) : schedule[l][k].id \in Nat
    BY DEF TypeOK, WorkItems, Items
  <2>3. ASSUME NEW id \in Nat, id > issued
        PROVE  OlderThan(schedule[l], id)
    BY <1>1, <2>1, <2>2, <2>3 DEF OlderThan
  <2>4. ASSUME NEW j \in 1..(n + m)
        PROVE  OlderThan(schedule[l], ctrlWorkList'[j].id)
    <3>1. CASE j \in 1..n
      BY <1>2, <2>1, <3>1
    <3>2. CASE j - n \in 1..m /\ ctrlWorkList'[j].id = issued + (j - n)
      BY <1>1, <2>3, <3>2
    <3> QED
      BY <1>5, <3>1, <3>2
  <2> QED
    BY <1>1, <1>2, <2>1, <2>3, <2>4
<1> QED
  BY <1>6, <1>7 DEF OrderInv

LEMMA EnlistedItem ==
    ASSUME TypeOK, NEW cmds \in Seq(Asked), Enlisted(cmds), NEW k \in 1..Len(cmds)
    PROVE  LET i == ctrlWorkList'[Len(ctrlWorkList) + k] IN
           /\ i.name = cmds[k].name /\ i.arg = cmds[k].arg
           /\ i.trigger = cmds[k].trigger
           /\ i.actionTime = ItemOf(cmds[k]).actionTime
           /\ NotBehind(i)
<1>1. Proper(cmds[k])
  BY DEF Asked
<1>2. ItemOf(cmds[k]) \in WorkItems /\ NotBehind(ItemOf(cmds[k]))
  BY <1>1, ProperItem, NewItemNotBehind
<1>3. issued + k \in Nat
  BY DEF TypeOK
<1>4. /\ ItemOf(cmds[k]).name = cmds[k].name /\ ItemOf(cmds[k]).arg = cmds[k].arg
      /\ ItemOf(cmds[k]).trigger = cmds[k].trigger
  BY DEF ItemOf
<1> DEFINE w == [ItemOf(cmds[k]) EXCEPT !.id = issued + k]
<1>5. ctrlWorkList'[Len(ctrlWorkList) + k] = w
  BY DEF Enlisted
<1>6. /\ w.name = cmds[k].name /\ w.arg = cmds[k].arg /\ w.trigger = cmds[k].trigger
      /\ w.actionTime = ItemOf(cmds[k]).actionTime
      /\ w.trigger = ItemOf(cmds[k]).trigger
  BY <1>2, <1>3, <1>4, IdGiven
<1> HIDE DEF w
<1>7. NotBehind(w)
  BY <1>2, <1>6 DEF NotBehind
<1> QED
  BY <1>5, <1>6, <1>7

(* A position of the new list is one of the old list or of the commands.   *)
LEMMA EnlistedAt ==
    ASSUME TypeOK, NEW cmds \in Seq(Asked), Enlisted(cmds),
           NEW j \in 1..Len(ctrlWorkList')
    PROVE  \/ j \in 1..Len(ctrlWorkList) /\ ctrlWorkList'[j] = ctrlWorkList[j]
           \/ \E k \in 1..Len(cmds) : j = Len(ctrlWorkList) + k
<1>1. Len(ctrlWorkList) \in Nat /\ Len(cmds) \in Nat
  BY DEF TypeOK
<1>2. /\ Len(ctrlWorkList') = Len(ctrlWorkList) + Len(cmds)
      /\ \A i \in 1..Len(ctrlWorkList) : ctrlWorkList'[i] = ctrlWorkList[i]
  BY DEF Enlisted
<1>3. CASE j \in 1..Len(ctrlWorkList)
  BY <1>2, <1>3
<1>4. CASE j \notin 1..Len(ctrlWorkList)
  <2>1. j - Len(ctrlWorkList) \in 1..Len(cmds)
        /\ j = Len(ctrlWorkList) + (j - Len(ctrlWorkList))
    BY <1>1, <1>2, <1>4
  <2> QED
    BY <2>1
<1> QED
  BY <1>3, <1>4

LEMMA EnlistedCover ==
    ASSUME TypeOK, Cover, NEW cmds \in Seq(Asked), Enlisted(cmds),
           pc' \in Covered => pc \in Covered
    PROVE  Cover'
<1>1. Len(ctrlWorkList) \in Nat /\ Len(cmds) \in Nat
  BY DEF TypeOK
<1>2. ctrlWorkList' # << >> => ctrlWorkList # << >> \/ Len(cmds) > 0
  BY <1>1, EmptySeq DEF Enlisted, TypeOK
<1> QED
  BY <1>2 DEF Cover, Enlisted

LEMMA EnlistedTime ==
    ASSUME TypeOK, TimeInv, NEW cmds \in Seq(Asked), Enlisted(cmds),
           pc \in {"batch", "activate"}, pc' \in {"batch", "decide", "loop", "crashed"},
           pc = "activate" => pc' = "loop",
           UNCHANGED << schedule, now, clock, stopAt >>
    PROVE  TimeInv'
<1>1. \A j \in 1..Len(ctrlWorkList') : NotBehind(ctrlWorkList'[j])
  BY EnlistedItem, EnlistedAt DEF TimeInv, OnTime
<1>3. OnTime'
  <2>1. \A j \in 1..Len(ctrlWorkList') :
            LET i == ctrlWorkList'[j] IN
            ListOf(i.trigger) \in Exact /\ i.trigger # "NOW" /\ ~Periodic(i.trigger)
                => clock'[ListOf(i.trigger)] <= i.actionTime
    BY <1>1 DEF NotBehind
  <2>2. AheadOf(schedule', clock')
    BY DEF TimeInv, OnTime
  <2> QED
    BY <2>1, <2>2 DEF OnTime, NotBehind
<1>4. pc' # "clock" /\ pc' # "execute" /\ pc' # "aborted"
  OBVIOUS
<1>5. Undrained'
  <2>1. pc' \in Covered => pc \in Covered
    BY DEF Covered
  <2>2. ASSUME pc' \in Covered, NEW j \in 1..Len(ctrlWorkList'),
               ctrlWorkList'[j].trigger # "NOW"
        PROVE  sysBreak'
    <3>1. CASE j \in 1..Len(ctrlWorkList) /\ ctrlWorkList'[j] = ctrlWorkList[j]
      BY <2>1, <2>2, <3>1 DEF TimeInv, Undrained, Enlisted
    <3>2. CASE \E k \in 1..Len(cmds) : j = Len(ctrlWorkList) + k
      <4>1. Len(cmds) > 0
        BY <3>2
      <4> QED
        BY <4>1 DEF Enlisted
    <3> QED
      BY <2>2, <3>1, <3>2, EnlistedAt
  <2> QED
    BY <1>4, <2>2 DEF Undrained
<1>6. Bounded'
  BY <1>4 DEF TimeInv, Bounded
<1>7. pc' \in Sampled => now' = clock'
  BY DEF TimeInv, Sampled
<1> QED
  BY <1>3, <1>4, <1>5, <1>6, <1>7 DEF TimeInv

-----------------------------------------------------------------------------
(***************************************************************************)
(* What a line of the script asks.                                         *)
(***************************************************************************)
Gentle(cmds) == ~Named(cmds, "STOP") /\ (Named(cmds, "START") => Named(cmds, "EXIT"))

ThreadRecords == [thread : Args, state : ThreadStates]

RunAsked(line, cmds) ==
    /\ line.cmd = "run"
    /\ bmStopType' = line.arg
    /\ UNCHANGED << pc, threads >>
    /\ IF line.arg = "marker"
       THEN /\ cmds = << CMD_Start >>
            /\ bmStopTime' = markers + 1
            /\ watching' = TRUE
       ELSE /\ cmds = << CMD_Stop(IF line.arg = "cycle" THEN "CYCLE_ONCE"
                                                        ELSE "INST_ONCE", line.n),
                         CMD_Start >>
            /\ bmStopTime' = clock[line.arg] + line.n
            /\ UNCHANGED watching

OtherAsked(line, cmds) ==
    /\ line.cmd # "run"
    /\ Gentle(cmds)
    /\ UNCHANGED << bmStopType, bmStopTime, watching >>
    /\ pc' \in {pc, "exit1", "crashed"}
    /\ threads' \in Seq(ThreadRecords)

LEMMA HarmlessGentle ==
    ASSUME NEW cmds \in Seq(Harmless)
    PROVE  cmds \in Seq(Asked) /\ Gentle(cmds)
<1>1. Harmless \subseteq Asked
  BY DEF Harmless
<1>2. \A k \in 1..Len(cmds) : cmds[k] \in Harmless
  OBVIOUS
<1> QED
  BY <1>1, <1>2, SeqMonotonic DEF Gentle, Named, Harmless

LEMMA NothingGentle ==
    << >> \in Seq(Asked) /\ Gentle(<< >>)
<1>1. << >> \in Seq(Harmless)
  OBVIOUS
<1> QED
  BY <1>1, HarmlessGentle

LEMMA RunAsks ==
    ASSUME TypeOK, WbTypeOK, NEW line \in Lines, line.cmd = "run", line.arg \in RunTypes,
           DoRun(line), UNCHANGED << pc, threads >>
    PROVE  \E cmds \in Seq(Asked) : Enlisted(cmds) /\ RunAsked(line, cmds)
<1>1. line.n \in Nat /\ clock \in [Lists -> Nat]
  BY DEF Lines, TypeOK, SysTypeOK
<1>2. CASE line.arg = "marker"
  <2> DEFINE cmds == << CMD_Start >>
  <2>1. cmds \in Seq(Asked)
    BY AskedStart
  <2>2. IssueAll(cmds) /\ bmStopTime' = markers + 1 /\ watching' = TRUE /\ bmStopType' = line.arg
    BY <1>2 DEF DoRun
  <2>3. RunAsked(line, cmds)
    BY <1>2, <2>2 DEF RunAsked
  <2> HIDE DEF cmds
  <2> QED
    BY <2>1, <2>2, <2>3, IssueAllEnlists
<1>3. CASE line.arg # "marker"
  <2> DEFINE trigger == IF line.arg = "cycle" THEN "CYCLE_ONCE" ELSE "INST_ONCE"
             cmds == << CMD_Stop(trigger, line.n), CMD_Start >>
  <2>1. cmds \in Seq(Asked)
    BY <1>1, AskedStart, AskedStop
  <2>2. clock[line.arg] \in Nat
    BY <1>1, <1>3 DEF RunTypes, Lists
  <2>3. (clock[line.arg] + line.n) - clock[line.arg] = line.n
    BY <1>1, <2>2
  <2>4. /\ IssueAll(<< CMD_Stop(trigger, (clock[line.arg] + line.n) - clock[line.arg]),
                       CMD_Start >>)
        /\ bmStopTime' = clock[line.arg] + line.n /\ UNCHANGED watching
        /\ bmStopType' = line.arg
    BY <1>3 DEF DoRun
  <2>5. IssueAll(cmds)
    BY <2>3, <2>4
  <2>6. RunAsked(line, cmds)
    BY <1>3, <2>4 DEF RunAsked
  <2> HIDE DEF cmds
  <2> QED
    BY <2>1, <2>5, <2>6, IssueAllEnlists
<1> QED
  BY <1>2, <1>3

LEMMA SkipAsks ==
    ASSUME TypeOK, WbTypeOK, NEW uid \in Nat, DoSkip(uid)
    PROVE  \E cmds \in Seq(Asked) :
               Enlisted(cmds) /\ Gentle(cmds) /\ threads' \in Seq(ThreadRecords)
<1> DEFINE t == threads[uid + 1].thread
           cmds == << CMD_UnscheduleThread(t, "CYCLE_ONCE", 0),
                      CMD_SkipThread(t, "CYCLE_ONCE", 1),
                      CMD_ScheduleThread(t, "CYCLE_ONCE", 2) >>
<1>1. threads \in Seq(ThreadRecords) /\ uid + 1 \in DOMAIN threads
  BY DEF WbTypeOK, DoSkip, Known, ThreadRecords
<1>2. threads[uid + 1] \in ThreadRecords /\ DOMAIN threads = 1..Len(threads)
  BY <1>1
<1>3. t \in Args
  BY <1>2 DEF ThreadRecords
<1>4. cmds \in Seq(Harmless)
  BY <1>3, AskedOfThread
<1>5. IssueAll(cmds) /\ threads' = [threads EXCEPT ![uid + 1].state = "running"]
  BY DEF DoSkip, Thd
<1> HIDE DEF cmds, t
<1>6. [threads[uid + 1] EXCEPT !.state = "running"] \in ThreadRecords
  BY <1>2 DEF ThreadRecords, ThreadStates
<1>7. threads' \in Seq(ThreadRecords)
  BY <1>1, <1>2, <1>5, <1>6
<1> QED
  BY <1>4, <1>5, <1>7, HarmlessGentle, IssueAllEnlists

LEMMA ProgressAsks ==
    ASSUME TypeOK, NEW line \in Lines, line.arg \in ProgressTypes, ScheduleProgress(line)
    PROVE  \E cmds \in Seq(Asked) : Enlisted(cmds) /\ Gentle(cmds)
<1> DEFINE trigger == IF line.arg = "cycle" THEN "CYCLE_PERIOD" ELSE "MACROINST_PERIOD"
           c == IF line.n = 0 THEN CMD_ClearProgress(line.arg)
                              ELSE CMD_Progress(line.arg, trigger, line.n)
<1>1. line.n \in Nat /\ trigger \in {"CYCLE_PERIOD", "MACROINST_PERIOD"}
  BY DEF Lines
<1>2. c \in Harmless
  <2>1. CASE line.n = 0
    BY <1>1, <2>1, AskedProgress
  <2>2. CASE line.n # 0
    <3>1. line.n > 0
      BY <1>1, <2>2
    <3> QED
      BY <1>1, <2>2, <3>1, AskedProgress
  <2> QED
    BY <2>1, <2>2
<1>3. IssueAll(<< c >>)
  BY DEF ScheduleProgress
<1> HIDE DEF c
<1>4. << c >> \in Seq(Harmless)
  BY <1>2
<1> QED
  BY <1>3, <1>4, HarmlessGentle, IssueAllEnlists

LEMMA ExitAsks ==
    /\ << CMD_Exit("NOW", 0), CMD_Start >> \in Seq(Asked)
    /\ Gentle(<< CMD_Exit("NOW", 0), CMD_Start >>)
<1> DEFINE x == CMD_Exit("NOW", 0)
<1>1. /\ x \in Asked /\ CMD_Start \in Asked
      /\ x.name = "EXIT" /\ CMD_Start.name = "START"
  BY AskedExit, AskedStart
<1> HIDE DEF x
<1>2. Len(<< x, CMD_Start >>) = 2 /\ << x, CMD_Start >>[1] = x
      /\ << x, CMD_Start >>[2] = CMD_Start
  OBVIOUS
<1>3. ~Named(<< x, CMD_Start >>, "STOP")
  BY <1>1, <1>2 DEF Named
<1>4. Named(<< x, CMD_Start >>, "EXIT")
  BY <1>1, <1>2 DEF Named
<1> QED
  BY <1>1, <1>3, <1>4 DEF Gentle, x

LEMMA DispatchAsks ==
    ASSUME TypeOK, WbTypeOK, NEW line \in Lines,
           line.cmd = "run" => line.arg \in RunTypes,
           Dispatch(line)
    PROVE  /\ switches' \in [Switches -> BOOLEAN]
           /\ \E cmds \in Seq(Asked) :
                 /\ Enlisted(cmds)
                 /\ RunAsked(line, cmds) \/ OtherAsked(line, cmds)
<1> DEFINE Goal == \E cmds \in Seq(Asked) :
                      /\ Enlisted(cmds)
                      /\ RunAsked(line, cmds) \/ OtherAsked(line, cmds)
<1>0. /\ switches \in [Switches -> BOOLEAN] /\ threads \in Seq(ThreadRecords)
      /\ line.n \in Nat
  BY DEF TypeOK, WbTypeOK, ThreadRecords, Lines
<1>1. CASE line.cmd = "run" /\ DoRun(line) /\ UNCHANGED << pc, threads, switches >>
  BY <1>0, <1>1, RunAsks
<1>2. CASE /\ line.cmd = "exit" /\ IssueAll(<< CMD_Exit("NOW", 0), CMD_Start >>)
           /\ UNCHANGED << pc, bmStopType, bmStopTime, watching, threads, switches >>
  <2> DEFINE cmds == << CMD_Exit("NOW", 0), CMD_Start >>
  <2>1. cmds \in Seq(Asked) /\ Gentle(cmds) /\ IssueAll(cmds)
    BY <1>2, ExitAsks
  <2> HIDE DEF cmds
  <2>2. Enlisted(cmds) /\ OtherAsked(line, cmds)
    BY <1>0, <1>2, <2>1, IssueAllEnlists DEF OtherAsked
  <2> QED
    BY <1>0, <1>2, <2>1, <2>2
<1>3. CASE /\ line.cmd = "progress" /\ ~Rejected(line) /\ ScheduleProgress(line)
           /\ UNCHANGED << pc, bmStopType, bmStopTime, watching, threads, switches >>
  <2>1. line.arg \in ProgressTypes
    BY <1>3 DEF Rejected
  <2>2. PICK cmds \in Seq(Asked) : Enlisted(cmds) /\ Gentle(cmds)
    BY <1>3, <2>1, ProgressAsks
  <2>3. OtherAsked(line, cmds)
    BY <1>0, <1>3, <2>2 DEF OtherAsked
  <2> QED
    BY <1>0, <1>3, <2>2, <2>3
<1>4. CASE /\ line.cmd = "skip" /\ DoSkip(line.n)
           /\ UNCHANGED << pc, bmStopType, bmStopTime, watching, switches >>
  <2>2. PICK cmds \in Seq(Asked) :
             Enlisted(cmds) /\ Gentle(cmds) /\ threads' \in Seq(ThreadRecords)
    BY <1>0, <1>4, SkipAsks
  <2>3. OtherAsked(line, cmds)
    BY <1>4, <2>2 DEF OtherAsked
  <2> QED
    BY <1>0, <1>4, <2>2, <2>3
<1>5. CASE /\ line.cmd # "run" /\ IssueNothing
           /\ UNCHANGED << bmStopType, bmStopTime, watching, threads >>
           /\ pc' \in {pc, "exit1", "crashed"}
           /\ switches' \in [Switches -> BOOLEAN]
  <2>1. Enlisted(<< >>) /\ OtherAsked(line, << >>)
    BY <1>0, <1>5, IssueNothingEnlists, NothingGentle DEF OtherAsked
  <2> QED
    BY <1>5, <2>1, NothingGentle
<1>6. CASE line.cmd = "stats" /\ DoStats(line)
           /\ UNCHANGED << pc, bmStopType, bmStopTime, watching, threads >>
  <2>1. switches' \in [Switches -> BOOLEAN]
    BY <1>0, <1>6 DEF DoStats
  <2> QED
    BY <1>5, <1>6, <2>1 DEF DoStats
<1>7. CASE /\ Rejected(line) \/ Crashing(line)
           /\ pc' \in {"exit1", "crashed"} /\ IssueNothing
           /\ UNCHANGED << bmStopType, bmStopTime, watching, threads, switches >>
  <2>1. line.cmd # "run"
    BY <1>7 DEF Rejected, Crashing
  <2> QED
    BY <1>0, <1>5, <1>7, <2>1
<1>8. CASE /\ line.cmd = "sample" /\ IssueNothing
           /\ UNCHANGED << pc, bmStopType, bmStopTime, watching, threads, switches >>
  BY <1>0, <1>5, <1>8
<1> QED
  BY <1>1, <1>2, <1>3, <1>4, <1>6, <1>7, <1>8 DEF Dispatch

-----------------------------------------------------------------------------
(***************************************************************************)
(* The controller's invariants, and the types of what the workbench keeps, *)
(* over all its steps.                                                     *)
(***************************************************************************)
LEMMA AskingKeepsBase ==
    ASSUME Live, BaseInv, NEW cmds \in Seq(Asked), Enlisted(cmds),
           pc \in {"batch", "activate"}, pc' \in {"batch", "decide", "loop", "crashed", "exit1"},
           pc = "activate" => pc' = "loop",
           pc' = "exit1" \/ WbTypeOK', pc' = "exit1" \/ Placed',
           pendingProgress' \in Seq(Reports), switches' \in [Switches -> BOOLEAN],
           UNCHANGED << schedule, now, pmExiting, clock, stopAt, markerHit >>
    PROVE  BaseInv'
<1>1. CASE pc' = "exit1"
  BY <1>1 DEF BaseInv, Live
<1>2. CASE pc' # "exit1"
  <2>1. TypeOK /\ WbTypeOK /\ OrderInv /\ Cover /\ (OneByOne => TimeInv)
    BY DEF BaseInv
  <2>2. pc' \in {"batch", "decide", "loop", "crashed"}
    BY <1>2
  <2>3. TypeOK'
    BY <2>1, <2>2, EnlistedType DEF Places
  <2>4. OrderInv'
    BY <2>1, EnlistedOrder
  <2>5. Cover'
    BY <2>1, <2>2, EnlistedCover DEF Covered
  <2>6. OneByOne => TimeInv'
    BY <2>1, <2>2, EnlistedTime
  <2>7. (OneByOne => TimeInv)'
    BY <2>6 DEF OneByOne
  <2> QED
    BY <1>2, <2>3, <2>4, <2>5, <2>7 DEF BaseInv
<1> QED
  BY <1>1, <1>2

(* A step that is one of the controller's own.                             *)
LEMMA ControllerKeepsBase ==
    ASSUME Live, BaseInv, Next, pc' \notin {"exit0", "exit1"}, WbTypeOK', Placed', Cover'
    PROVE  BaseInv'
<1>1. TypeOK /\ OrderInv /\ (OneByOne => TimeInv)
  BY DEF BaseInv
<1>2. TypeOK'
  BY <1>1, TypeStep
<1>3. OrderInv'
  BY <1>1, OrderStep
<1>4. OneByOne => TimeInv'
  BY <1>1, TimeStep
<1>5. (OneByOne => TimeInv)'
  BY <1>4 DEF OneByOne
<1> QED
  BY <1>2, <1>3, <1>5 DEF BaseInv

(* The list of tokens without its first line.                              *)
LEMMA ScriptTail ==
    ASSUME NEW lines, Script(lines), lines # << >>
    PROVE  /\ Script(Tail(lines))
           /\ Head(lines) \in Lines
           /\ Head(lines).cmd = "run" => Head(lines).arg \in RunTypes
<1>1. lines \in Seq(Lines) /\ DOMAIN lines = 1..Len(lines) /\ Len(lines) > 0
  BY EmptySeq DEF Script
<1>2. /\ Tail(lines) \in Seq(Lines) /\ Len(Tail(lines)) = Len(lines) - 1
      /\ \A k \in 1..Len(Tail(lines)) : Tail(lines)[k] = lines[k + 1]
      /\ Head(lines) = lines[1] /\ lines[1] \in Lines
      /\ DOMAIN Tail(lines) = 1..Len(Tail(lines))
  BY <1>1, HeadTailProperties
<1>3. \A k \in 1..Len(Tail(lines)) : k + 1 \in 1..Len(lines)
  BY <1>1, <1>2
<1> QED
  BY <1>1, <1>2, <1>3 DEF Script

LEMMA ReportKnown ==
    ASSUME TypeOK, pendingProgress # << >>
    PROVE  /\ Report \in Reports /\ Report = pendingProgress[1]
           /\ Tail(pendingProgress) \in Seq(Reports)
<1>1. pendingProgress \in Seq(Reports)
  BY DEF TypeOK
<1> QED
  BY <1>1, HeadTailProperties DEF Report

LEMMA BegunAsks ==
    ASSUME TypeOK, WbTypeOK, ReportThreadBegin
    PROVE  /\ threads' \in Seq(ThreadRecords) /\ pc' \in {pc, "crashed"}
           /\ \E cmds \in Seq(Asked) : Enlisted(cmds) /\ Gentle(cmds)
<1> DEFINE uid   == Uid[Report.arg]
           begun == Append(threads, [thread |-> Report.arg, state |-> "idle"])
<1>1. Report.arg \in Args
  BY ReportKnown DEF ReportThreadBegin, Reports
<1>2. [thread |-> Report.arg, state |-> "idle"] \in ThreadRecords
  BY <1>1 DEF ThreadRecords, ThreadStates
<1>3. begun \in Seq(ThreadRecords)
  <2>1. threads \in Seq(ThreadRecords)
    BY DEF WbTypeOK, ThreadRecords
  <2> QED
    BY <1>2, <2>1, AppendProperties
<1>4. IF uid + 1 \in DOMAIN begun
      THEN /\ threads' = [begun EXCEPT ![uid + 1].state = "running"]
           /\ IssueAll(<< CMD_ScheduleThread(begun[uid + 1].thread, "NOW", 0) >>)
           /\ UNCHANGED pc
      ELSE /\ threads' = begun
           /\ IssueNothing
           /\ pc' = "crashed"
  BY DEF ReportThreadBegin
<1> HIDE DEF begun, uid
<1>5. CASE uid + 1 \in DOMAIN begun
  <2>1. begun[uid + 1] \in ThreadRecords
    BY <1>3, <1>5
  <2>2. [begun[uid + 1] EXCEPT !.state = "running"] \in ThreadRecords
    BY <2>1 DEF ThreadRecords, ThreadStates
  <2>3. threads' \in Seq(ThreadRecords)
    BY <1>3, <1>4, <1>5, <2>2
  <2> DEFINE c == CMD_ScheduleThread(begun[uid + 1].thread, "NOW", 0)
  <2>4. c \in Harmless
    BY <2>1, AskedOfThread DEF ThreadRecords
  <2>5. IssueAll(<< c >>)
    BY <1>4, <1>5
  <2> HIDE DEF c
  <2>6. << c >> \in Seq(Harmless)
    BY <2>4
  <2> QED
    BY <1>4, <1>5, <2>3, <2>5, <2>6, HarmlessGentle, IssueAllEnlists
<1>6. CASE uid + 1 \notin DOMAIN begun
  BY <1>3, <1>4, <1>6, IssueNothingEnlists, NothingGentle
<1> QED
  BY <1>5, <1>6

LEMMA EndedAsks ==
    ASSUME TypeOK, WbTypeOK, ReportThreadEnd
    PROVE  /\ threads' \in Seq(ThreadRecords) /\ pc' \in {pc, "crashed"}
           /\ \E cmds \in Seq(Asked) : Enlisted(cmds) /\ Gentle(cmds)
<1> DEFINE uid  == Uid[Report.arg]
           left == (activeThreads - 1) % UINT32
           u    == CMD_UnscheduleThread(Thd(uid).thread, "NOW", 0)
           x    == CMD_Exit("NOW", 0)
<1>1. threads \in Seq(ThreadRecords)
  BY DEF WbTypeOK, ThreadRecords
<1>2. IF Known(uid)
      THEN /\ threads' = [threads EXCEPT ![uid + 1].state = "idle"]
           /\ IssueAll(<< u >> \o IF left = 0 THEN << x, CMD_Start >> ELSE << >>)
           /\ UNCHANGED pc
      ELSE /\ pc' = "crashed" /\ IssueNothing /\ UNCHANGED threads
  BY DEF ReportThreadEnd
<1> HIDE DEF left
<1>3. CASE Known(uid)
  <2>1. threads[uid + 1] \in ThreadRecords
    BY <1>1, <1>3 DEF Known
  <2>2. [threads[uid + 1] EXCEPT !.state = "idle"] \in ThreadRecords
    BY <2>1 DEF ThreadRecords, ThreadStates
  <2>3. threads' \in Seq(ThreadRecords)
    BY <1>1, <1>2, <1>3, <2>2
  <2>4. u \in Harmless /\ u \in Asked /\ u.name \notin {"STOP", "START", "EXIT"}
    BY <2>1, AskedOfThread DEF Thd, ThreadRecords, Harmless
  <2>5. x \in Asked /\ CMD_Start \in Asked /\ x.name = "EXIT" /\ CMD_Start.name = "START"
    BY AskedExit, AskedStart
  <2> HIDE DEF u, x, uid
  <2>6. CASE left = 0
    <3> DEFINE first == << u >>
               rest  == << x, CMD_Start >>
               cmds  == first \o rest
    <3>1. /\ first \in Seq(Asked) /\ Len(first) = 1 /\ first[1] = u
          /\ rest \in Seq(Asked) /\ Len(rest) = 2 /\ rest[1] = x /\ rest[2] = CMD_Start
      BY <2>4, <2>5
    <3>2. IssueAll(cmds)
      BY <1>2, <1>3, <2>6
    <3> HIDE DEF first, rest
    <3>3. /\ cmds \in Seq(Asked) /\ Len(cmds) = 3
          /\ \A i \in 1..3 : cmds[i] = IF i <= 1 THEN first[i] ELSE rest[i - 1]
      BY <3>1, ConcatProperties
    <3>4. cmds[1] = u /\ cmds[2] = x /\ cmds[3] = CMD_Start
      BY <3>1, <3>3
    <3> HIDE DEF cmds
    <3>5. Gentle(cmds)
      BY <2>4, <2>5, <3>3, <3>4 DEF Gentle, Named
    <3>6. Enlisted(cmds)
      BY <3>2, <3>3, IssueAllEnlists
    <3> QED
      BY <1>2, <1>3, <2>3, <3>3, <3>5, <3>6
  <2>7. CASE left # 0
    <3>1. << u >> \o << >> = << u >> /\ << u >> \in Seq(Harmless)
      BY <2>4
    <3>2. IssueAll(<< u >>)
      BY <1>2, <1>3, <2>7, <3>1
    <3> QED
      BY <1>2, <1>3, <2>3, <3>1, <3>2, HarmlessGentle, IssueAllEnlists
  <2> QED
    BY <2>6, <2>7
<1>4. CASE ~Known(uid)
  BY <1>1, <1>2, <1>4, IssueNothingEnlists, NothingGentle
<1> QED
  BY <1>3, <1>4

WbNext == WbStep \/ WbCalls

LEMMA BaseInit == WbInit => BaseInv
<1> SUFFICES ASSUME WbInit
             PROVE  BaseInv
  OBVIOUS
<1>1. Init /\ pc = "main"
  BY DEF WbInit, Init
<1>2. TypeOK /\ OrderInv /\ TimeInv
  BY <1>1, TypeInit, OrderInit, TimeInit
<1>3. WbTypeOK
  <2>1. script \in Scripts /\ tokens = script
    BY DEF WbInit
  <2>2. Script(tokens)
    BY <2>1, ScriptsAssumption DEF Script, Lines
  <2>3. threads \in Seq([thread : Args, state : ThreadStates])
    <3>1. threads = << >>
      BY DEF WbInit
    <3> QED
      BY <3>1
  <2>4. wb = "reports" /\ bmStopType = "" /\ bmStopTime = 0 /\ markers = 0
    BY DEF WbInit
  <2> QED
    BY <2>2, <2>3, <2>4 DEF WbTypeOK, Routines
<1>4. Placed /\ Cover
  BY <1>1 DEF WbInit, Placed, Cover, Covered
<1> QED
  BY <1>2, <1>3, <1>4 DEF BaseInv

(* The steps in which nothing of the workbench's own changes.              *)
LEMMA QuietBase ==
    ASSUME Live, BaseInv, Next, pc' \notin {"exit0", "exit1"}, Cover',
           UNCHANGED << wb, tokens, bmStopType, bmStopTime, threads >>,
           markers' \in Nat, pc \notin {"batch", "crashed"}
    PROVE  BaseInv'
<1>1. WbTypeOK'
  BY DEF BaseInv, WbTypeOK, Script
<1>2. Placed'
  BY DEF BaseInv, Placed
<1> QED
  BY <1>1, <1>2, ControllerKeepsBase

LEMMA ReportsBase ==
    ASSUME Live, BaseInv,
           \/ ReportStop \/ ReportShown \/ ReportThreadBegin \/ ReportThreadEnd
           \/ ReportUnknown \/ ReportsDone
    PROVE  BaseInv'
<1>1. /\ TypeOK /\ WbTypeOK /\ Placed
      /\ switches \in [Switches -> BOOLEAN] /\ pendingProgress \in Seq(Reports)
  BY DEF BaseInv, TypeOK
<1>2. /\ pc = "batch" /\ wb = "reports" /\ wb' \in {"reports", "file"}
      /\ UNCHANGED << switches, tokens, bmStopType, bmStopTime >>
      /\ UNCHANGED << schedule, now, pmExiting, clock, stopAt, markerHit, markers >>
  BY DEF ReportStop, ReportShown, ReportThreadBegin, ReportThreadEnd, ReportUnknown,
         ReportsDone, InBatch, Untouched, KeepScript
<1>3. pendingProgress' \in Seq(Reports)
  BY <1>1, ReportKnown DEF ReportStop, ReportShown, ReportThreadBegin, ReportThreadEnd,
         ReportUnknown, ReportsDone, Drop
<1>4. /\ pc' \in {"batch", "decide", "crashed", "exit1"}
      /\ pc' = "decide" => wb' = "reports"
      /\ threads' \in Seq(ThreadRecords)
      /\ \E cmds \in Seq(Asked) : Enlisted(cmds)
  <2>1. CASE ReportThreadBegin
    BY <1>1, <1>2, <2>1, BegunAsks
  <2>2. CASE ReportThreadEnd
    BY <1>1, <1>2, <2>2, EndedAsks
  <2>3. CASE ReportStop \/ ReportShown \/ ReportUnknown \/ ReportsDone
    <3>1. IssueNothing /\ UNCHANGED threads
      BY <2>3 DEF ReportStop, ReportShown, ReportUnknown, ReportsDone
    <3>2. Enlisted(<< >>) /\ << >> \in Seq(Asked)
      BY <1>1, <3>1, IssueNothingEnlists
    <3>3. /\ pc' \in {"batch", "decide", "exit1"}
          /\ pc' = "decide" => wb' = "reports"
      BY <1>2, <2>3 DEF ReportStop, ReportShown, ReportUnknown, ReportsDone
    <3> QED
      BY <1>1, <3>1, <3>2, <3>3 DEF WbTypeOK, ThreadRecords
  <2> QED
    BY <2>1, <2>2, <2>3
<1>5. WbTypeOK'
  BY <1>1, <1>2, <1>4 DEF WbTypeOK, Script, ThreadRecords, Routines
<1>6. pc' = "exit1" \/ Placed'
  BY <1>2, <1>4 DEF Placed
<1>7. PICK cmds \in Seq(Asked) : Enlisted(cmds)
  BY <1>4
<1> QED
  BY <1>1, <1>2, <1>3, <1>4, <1>5, <1>6, <1>7, AskingKeepsBase

LEMMA LinesBase ==
    ASSUME Live, BaseInv, ProcessFile \/ ProcessBmCmds
    PROVE  BaseInv'
<1>1. /\ TypeOK /\ WbTypeOK /\ Placed
      /\ switches \in [Switches -> BOOLEAN] /\ pendingProgress \in Seq(Reports)
  BY DEF BaseInv, TypeOK
<1> DEFINE line == Head(tokens)
<1>2. /\ pc = "batch" /\ tokens # << >> /\ tokens' = Tail(tokens)
      /\ UNCHANGED << pendingProgress, schedule, now, pmExiting, clock, stopAt,
                      markerHit, markers >>
      /\ wb' \in Routines
  BY <1>1 DEF ProcessFile, ProcessBmCmds, InBatch, Untouched, WbTypeOK, Routines
<1>3. /\ Script(tokens') /\ line \in Lines /\ (line.cmd = "run" => line.arg \in RunTypes)
  BY <1>1, <1>2, ScriptTail DEF WbTypeOK
<1>4. \/ Dispatch(line)
      \/ /\ IssueNothing /\ UNCHANGED << bmStopType, bmStopTime, threads, switches >>
         /\ pc' \in {"batch", "exit1", "crashed"}
  BY <1>2 DEF ProcessFile, ProcessBmCmds
<1> HIDE DEF line
<1>5. /\ pc' \in {"batch", "crashed", "exit1"}
      /\ switches' \in [Switches -> BOOLEAN]
      /\ bmStopType' \in RunTypes \cup {""} /\ bmStopTime' \in Nat
      /\ threads' \in Seq(ThreadRecords)
      /\ \E cmds \in Seq(Asked) : Enlisted(cmds)
  <2>1. CASE Dispatch(line)
    <3>1. switches' \in [Switches -> BOOLEAN]
      BY <1>1, <1>3, <2>1, DispatchAsks
    <3>2. PICK cmds \in Seq(Asked) :
                /\ Enlisted(cmds)
                /\ RunAsked(line, cmds) \/ OtherAsked(line, cmds)
      BY <1>1, <1>3, <2>1, DispatchAsks
    <3>3. CASE RunAsked(line, cmds)
      <4>1. bmStopTime' \in Nat
        <5>1. CASE line.arg = "marker"
          <6>1. markers \in Nat
            BY <1>1 DEF WbTypeOK
          <6>2. markers + 1 \in Nat
            BY <6>1
          <6>3. bmStopTime' = markers + 1
            BY <3>3, <5>1 DEF RunAsked
          <6> QED
            BY <6>2, <6>3
        <5>2. CASE line.arg # "marker"
          <6>1. line.arg \in Lists /\ line.cmd = "run"
            BY <1>3, <3>3, <5>2 DEF RunAsked, RunTypes, Lists
          <6>2. clock[line.arg] \in Nat /\ line.n \in Nat
            BY <1>1, <1>3, <6>1 DEF TypeOK, SysTypeOK, Lines
          <6>3. clock[line.arg] + line.n \in Nat
            BY <6>2
          <6> QED
            BY <3>3, <5>2, <6>3 DEF RunAsked
        <5> QED
          BY <5>1, <5>2
      <4> QED
        BY <1>1, <1>2, <1>3, <3>1, <3>2, <3>3, <4>1 DEF RunAsked, WbTypeOK, ThreadRecords
    <3>4. CASE OtherAsked(line, cmds)
      BY <1>1, <1>2, <3>1, <3>2, <3>4 DEF OtherAsked, WbTypeOK
    <3> QED
      BY <3>2, <3>3, <3>4
  <2>2. CASE /\ IssueNothing /\ UNCHANGED << bmStopType, bmStopTime, threads, switches >>
             /\ pc' \in {"batch", "exit1", "crashed"}
    BY <1>1, <2>2, IssueNothingEnlists DEF WbTypeOK, ThreadRecords
  <2> QED
    BY <1>4, <2>1, <2>2
<1>6. WbTypeOK'
  BY <1>1, <1>2, <1>3, <1>5 DEF WbTypeOK, ThreadRecords
<1>7. pc' = "exit1" \/ Placed'
  BY <1>5 DEF Placed
<1>8. PICK cmds \in Seq(Asked) : Enlisted(cmds)
  BY <1>5
<1> QED
  BY <1>1, <1>2, <1>5, <1>6, <1>7, <1>8, AskingKeepsBase

LEMMA BookkeepingBase ==
    ASSUME Live, BaseInv, AWB_Activate \/ FileDone \/ CheckBmCmds \/ BmCmdsDone
    PROVE  BaseInv'
<1>1. /\ TypeOK /\ WbTypeOK /\ Placed
      /\ switches \in [Switches -> BOOLEAN] /\ pendingProgress \in Seq(Reports)
  BY DEF BaseInv, TypeOK
<1>2. /\ UNCHANGED << pendingProgress, schedule, now, pmExiting, clock, stopAt,
                      markerHit, markers, switches, tokens, bmStopType, bmStopTime,
                      threads >>
      /\ wb' \in Routines
  BY <1>1 DEF AWB_Activate, FileDone, CheckBmCmds, BmCmdsDone, Untouched, KeepScript,
              wbVars, WbTypeOK, Routines
<1>3. WbTypeOK'
  BY <1>1, <1>2 DEF WbTypeOK, Script
<1>4. CASE AWB_Activate
  <2> DEFINE cmds == << CMD_Stop("CYCLE_ONCE", 0), CMD_Start >>
  <2>1. cmds \in Seq(Asked)
    BY AskedStart, AskedStop
  <2>2. IssueAll(cmds) /\ pc = "activate" /\ pc' = "loop" /\ UNCHANGED wb
    BY <1>4 DEF AWB_Activate, wbVars
  <2> HIDE DEF cmds
  <2>3. Placed'
    BY <1>1, <2>2 DEF Placed
  <2> QED
    BY <1>1, <1>2, <1>3, <2>1, <2>2, <2>3, IssueAllEnlists, AskingKeepsBase
<1>5. CASE FileDone \/ CheckBmCmds \/ BmCmdsDone
  <2>1. pc = "batch" /\ pc' = "batch"
    BY <1>5 DEF FileDone, CheckBmCmds, BmCmdsDone, InBatch
  <2>2. \E cmds \in Seq(Asked) : Enlisted(cmds)
    <3>1. CASE IssueNothing
      BY <1>1, <3>1, IssueNothingEnlists
    <3>2. CASE IssueAll(<< CMD_Start, CMD_Stop("NOW", 0) >>)
      <4>1. << CMD_Start, CMD_Stop("NOW", 0) >> \in Seq(Asked)
        BY AskedStart, AskedStop
      <4> QED
        BY <1>1, <3>2, <4>1, IssueAllEnlists
    <3> QED
      BY <1>5, <3>1, <3>2 DEF FileDone, CheckBmCmds, BmCmdsDone
  <2>3. PICK cmds \in Seq(Asked) : Enlisted(cmds)
    BY <2>2
  <2>4. Placed'
    BY <2>1 DEF Placed
  <2> QED
    BY <1>1, <1>2, <1>3, <2>1, <2>3, <2>4, AskingKeepsBase
<1> QED
  BY <1>4, <1>5

LEMMA ControllerStepBase ==
    ASSUME Live, BaseInv, ControllerStep
    PROVE  BaseInv'
<1>1. Next
  BY DEF ControllerStep, Next, Loop
<1>2. /\ pc' \notin {"exit0", "exit1"} /\ pc \notin {"batch", "crashed"}
      /\ UNCHANGED wbVars
  BY DEF ControllerStep, Sample, DrainItem, DrainClearing, ClearBreak, ReadyEvent,
         ProcessEvent, Dies, NoEventReady, AWB_InformProgress, Decide, BeginClock, Exit
<1>3. markers' \in Nat
  BY <1>2 DEF BaseInv, WbTypeOK, wbVars
<1>4. Cover'
  <2>1. Cover
    BY DEF BaseInv
  <2>2. CASE Sample \/ DrainItem \/ DrainClearing \/ Exit
    BY <2>2 DEF Sample, DrainItem, DrainClearing, Exit, Cover, Covered
  <2>3. CASE ClearBreak
    BY <2>3 DEF ClearBreak, ctrlVars, Cover
  <2>4. CASE ReadyEvent
    <3>1. PICK k \in 1..Len(ReadyOrder) :
              ProcessEvent(ReadyOrder[k]) \/ Dies(ReadyOrder[k])
      BY <2>4 DEF ReadyEvent
    <3>2. CASE Dies(ReadyOrder[k])
      BY <3>2 DEF Dies, Cover, Covered
    <3>3. CASE ProcessEvent(ReadyOrder[k])
      <4>1. PmAction(Head(schedule[ReadyOrder[k]])) /\ UNCHANGED pc
        BY <3>3 DEF ProcessEvent
      <4> QED
        BY <2>1, <4>1 DEF PmAction, SYS_Break, Cover
    <3> QED
      BY <3>1, <3>2, <3>3
  <2>5. CASE NoEventReady \/ AWB_InformProgress \/ Decide \/ BeginClock
    <3>1. UNCHANGED << ctrlWorkList, sysBreak >> /\ pc \in Covered
      BY <2>5 DEF NoEventReady, AWB_InformProgress, Decide, BeginClock, ctrlVars,
                  sysVars, Covered
    <3> QED
      BY <2>1, <3>1 DEF Cover
  <2> QED
    BY <2>2, <2>3, <2>4, <2>5 DEF ControllerStep
<1> QED
  BY <1>1, <1>2, <1>3, <1>4, QuietBase DEF wbVars

LEMMA OtherStepsBase ==
    ASSUME Live, BaseInv,
           \/ \E d \in ClockSteps : WatchedClock(d)
           \/ WatchedExecuteDone
           \/ CMD_Init(TRUE) /\ UNCHANGED wbVars
           \/ WbCalls
    PROVE  BaseInv'
<1>1. Next
  BY DEF WatchedClock, WatchedExecuteDone, WbCalls, Next, Loop, Calls
<1>2. Cover /\ markers \in Nat
  BY DEF BaseInv, WbTypeOK
<1>3. /\ pc' \notin {"exit0", "exit1"} /\ pc \notin {"batch", "crashed"}
      /\ UNCHANGED << wb, tokens, bmStopType, bmStopTime, threads >>
  BY DEF WatchedClock, EndClock, WatchedExecuteDone, ExecuteDone, CMD_Init, WbCalls,
         FeederInit, DuringClock, wbVars
<1>4. Cover'
  BY <1>2 DEF WatchedClock, EndClock, WatchedExecuteDone, ExecuteDone, CMD_Init, WbCalls,
         FeederInit, DuringClock, Issue, SYS_Break, ctrlVars, sysVars, Cover, Covered
<1>5. markers' \in Nat
  <2>1. markers' \in {markers, markers + 1}
    BY DEF WatchedClock, WatchedExecuteDone, WbCalls, wbVars
  <2> QED
    BY <1>2, <2>1
<1> QED
  BY <1>1, <1>3, <1>4, <1>5, QuietBase

LEMMA BaseStep == BaseInv /\ [WbNext]_allVars => BaseInv'
<1> SUFFICES ASSUME BaseInv, [WbNext]_allVars
             PROVE  BaseInv'
  OBVIOUS
<1>1. CASE WbNext
  <2>1. Live
    BY <1>1 DEF WbNext, WbStep, WbCalls, WbLoop, AWB_Activate, ReportStop, ReportShown,
       ReportThreadBegin, ReportThreadEnd, ReportUnknown, ReportsDone, ProcessFile,
       FileDone, CheckBmCmds, ProcessBmCmds, BmCmdsDone, WbExit, ControllerStep, Sample,
       DrainItem, DrainClearing, ClearBreak, ReadyEvent, NoEventReady,
       AWB_InformProgress, Decide, BeginClock, Exit, WatchedClock, EndClock,
       WatchedExecuteDone, ExecuteDone, CMD_Init, FeederInit, DuringClock, InBatch, Live
  <2>2. CASE WbExit
    BY <2>2 DEF WbExit, BaseInv, Live
  <2>3. CASE \/ ReportStop \/ ReportShown \/ ReportThreadBegin \/ ReportThreadEnd
             \/ ReportUnknown \/ ReportsDone
    BY <2>1, <2>3, ReportsBase
  <2>4. CASE ProcessFile \/ ProcessBmCmds
    BY <2>1, <2>4, LinesBase
  <2>5. CASE AWB_Activate \/ FileDone \/ CheckBmCmds \/ BmCmdsDone
    BY <2>1, <2>5, BookkeepingBase
  <2>6. CASE ControllerStep
    BY <2>1, <2>6, ControllerStepBase
  <2>7. CASE \/ \E d \in ClockSteps : WatchedClock(d)
             \/ WatchedExecuteDone
             \/ CMD_Init(TRUE) /\ UNCHANGED wbVars
             \/ WbCalls
    BY <2>1, <2>7, OtherStepsBase
  <2> QED
    BY <1>1, <2>2, <2>3, <2>4, <2>5, <2>6, <2>7 DEF WbNext, WbStep, WbLoop
<1>2. CASE UNCHANGED allVars
  <2>1. UNCHANGED vars /\ UNCHANGED wbVars
    BY <1>2 DEF allVars
  <2>2. [Next]_vars
    BY <2>1
  <2>3. CASE Live
    <3>1. TypeOK /\ WbTypeOK /\ Placed /\ OrderInv /\ Cover /\ (OneByOne => TimeInv)
      BY <2>3 DEF BaseInv
    <3>2. TypeOK' /\ OrderInv' /\ (OneByOne => TimeInv')
      BY <2>2, <3>1, TypeStep, OrderStep, TimeStep
    <3>3. (OneByOne => TimeInv)'
      BY <3>2 DEF OneByOne
    <3>4. WbTypeOK' /\ Placed' /\ Cover'
      BY <2>1, <3>1 DEF wbVars, vars, ctrlVars, sysVars, WbTypeOK, Script, Placed, Cover
    <3> QED
      BY <3>2, <3>3, <3>4 DEF BaseInv
  <2>4. CASE ~Live
    BY <2>1, <2>4 DEF vars, Live, BaseInv
  <2> QED
    BY <2>3, <2>4
<1> QED
  BY <1>1, <1>2

(* The workbench never lets a work item go unnoticed: its items have       *)
(* raised the break flag when SYS_Execute is about to test it.             *)
THEOREM ScriptLosesNoWork == WbSpec => []BreakCoversPending
<1>1. BaseInv => BreakCoversPending
  BY DEF BaseInv, Live, Cover, Covered, BreakCoversPending
<1> QED
  BY <1>1, BaseInit, BaseStep, PTL DEF WbSpec, WbNext

(* Where cycles and nanoseconds are stepped through one by one, no script  *)
(* makes a VERIFYX of ReadyEvent fail: what the workbench asks for, the    *)
(* stops at remembered times included, is never asked for too late.        *)
THEOREM ScriptNeverAborts == WbSpec => [](OneByOne => NoAbort)
<1>1. BaseInv => (OneByOne => NoAbort)
  BY DEF BaseInv, Live, TimeInv, NoAbort
<1> QED
  BY <1>1, BaseInit, BaseStep, PTL DEF WbSpec, WbNext

-----------------------------------------------------------------------------
(***************************************************************************)
(* The lines that are left of an orderly script.                           *)
(***************************************************************************)
LEMMA OrderlyTail ==
    ASSUME NEW lines \in Seq(Lines), lines # << >>, OrderlyLines(lines)
    PROVE  /\ OrderlyLines(Tail(lines))
           /\ Head(lines).cmd = "run" /\ Head(lines).arg # "marker" => Head(lines).n > 0
           /\ Head(lines).cmd = "exit" => Tail(lines) = << >>
<1>1. Len(lines) \in Nat /\ Len(lines) > 0 /\ DOMAIN lines = 1..Len(lines)
  BY EmptySeq
<1>2. /\ Tail(lines) \in Seq(Lines) /\ Len(Tail(lines)) = Len(lines) - 1
      /\ \A k \in 1..Len(Tail(lines)) : Tail(lines)[k] = lines[k + 1]
      /\ Head(lines) = lines[1]
      /\ DOMAIN Tail(lines) = 1..Len(Tail(lines))
  BY <1>1, HeadTailProperties
<1>3. \A k \in 1..Len(Tail(lines)) : k + 1 \in 1..Len(lines)
  BY <1>1, <1>2
<1>4. ASSUME NEW k \in 1..Len(Tail(lines))
      PROVE  /\ Tail(lines)[k].cmd = "run" /\ Tail(lines)[k].arg # "marker"
                   => Tail(lines)[k].n > 0
             /\ Tail(lines)[k].cmd = "exit" => k = Len(Tail(lines))
  <2>1. k + 1 \in DOMAIN lines /\ Tail(lines)[k] = lines[k + 1] /\ k \in Nat
    BY <1>1, <1>2, <1>3
  <2>2. \A m \in DOMAIN lines :
           /\ lines[m].cmd = "run" /\ lines[m].arg # "marker" => lines[m].n > 0
           /\ lines[m].cmd = "exit" => m = Len(lines)
    BY DEF OrderlyLines
  <2>3. /\ lines[k + 1].cmd = "run" /\ lines[k + 1].arg # "marker" => lines[k + 1].n > 0
        /\ lines[k + 1].cmd = "exit" => k + 1 = Len(lines)
    BY <2>1, <2>2
  <2> DEFINE n == Len(lines)
             m == Len(Tail(lines))
  <2>6. n \in Nat /\ m = n - 1
    BY <1>1, <1>2
  <2> HIDE DEF n, m
  <2>7. k + 1 = n => k = m
    BY <2>1, <2>6
  <2>4. k + 1 = Len(lines) => k = Len(Tail(lines))
    BY <2>7 DEF n, m
  <2>5. /\ Tail(lines)[k].cmd = lines[k + 1].cmd /\ Tail(lines)[k].arg = lines[k + 1].arg
        /\ Tail(lines)[k].n = lines[k + 1].n
    BY <2>1
  <2> QED
    BY <2>3, <2>4, <2>5
<1>5. 1 \in DOMAIN lines
  BY <1>1
<1>6. Head(lines).cmd = "exit" => Len(Tail(lines)) = 0
  BY <1>1, <1>2, <1>5 DEF OrderlyLines
<1> QED
  BY <1>1, <1>2, <1>4, <1>5, <1>6, EmptySeq DEF OrderlyLines

LEMMA TokensInit == WbInit => TokensInv
BY DEF WbInit, TokensInv, Orderly, OrderlyLines

(* A run that was just asked for is not over.                              *)
LEMMA RunNotOver ==
    ASSUME TypeOK, WbTypeOK, NEW line \in Lines, NEW cmds, RunAsked(line, cmds),
           line.arg \in RunTypes, line.arg # "marker" => line.n > 0,
           UNCHANGED << clock, markers >>
    PROVE  ~TimeHasCome'
<1>1. CASE line.arg = "marker"
  <2>1. markers \in Nat /\ bmStopType' = "marker" /\ bmStopTime' = markers + 1
    BY <1>1 DEF WbTypeOK, RunAsked
  <2> QED
    BY <2>1 DEF TimeHasCome
<1>2. CASE line.arg \in {"cycle", "inst"}
  <2>1. /\ bmStopType' = line.arg /\ bmStopTime' = clock[line.arg] + line.n
        /\ line.n \in Nat /\ line.n > 0
    BY <1>2 DEF RunAsked, Lines
  <2>2. clock[line.arg] \in Nat
    BY <1>2 DEF TypeOK, SysTypeOK, Lists
  <2>3. clock'[line.arg] = clock[line.arg]
    OBVIOUS
  <2>4. clock'[line.arg] < bmStopTime'
    BY <2>1, <2>2, <2>3
  <2>5. clock'[line.arg] # bmStopTime' /\ ~(clock'[line.arg] >= bmStopTime')
    BY <2>1, <2>2, <2>3
  <2> QED
    BY <1>2, <2>1, <2>5 DEF TimeHasCome
<1> QED
  BY <1>1, <1>2 DEF RunTypes

LEMMA TokensStep == BaseInv /\ TokensInv /\ [WbNext]_allVars => TokensInv'
<1> SUFFICES ASSUME BaseInv, TokensInv, [WbNext]_allVars
             PROVE  TokensInv'
  OBVIOUS
<1>a. script' = script
  <2>1. CASE WbNext
    BY <2>1 DEF WbNext, WbStep, WbCalls
  <2>2. CASE UNCHANGED allVars
    BY <2>2 DEF allVars
  <2> QED
    BY <2>1, <2>2
<1>b. Orderly' = Orderly
  BY <1>a DEF Orderly
<1> SUFFICES ASSUME Orderly
             PROVE  /\ OrderlyLines(tokens')
                    /\ wb' = "check" => tokens' = << >> \/ ~TimeHasCome'
                    /\ wb' = "commands" => tokens' = << >>
  BY <1>b DEF TokensInv
<1>0. /\ OrderlyLines(tokens)
      /\ wb = "check" => tokens = << >> \/ ~TimeHasCome
      /\ wb = "commands" => tokens = << >>
  BY DEF TokensInv
<1>1. CASE UNCHANGED << tokens, wb >> /\ wb # "check"
  BY <1>0, <1>1
<1>2. CASE UNCHANGED << tokens, wb, bmStopType, bmStopTime, clock, markers >>
  BY <1>0, <1>2 DEF TimeHasCome
<1>3. CASE UNCHANGED tokens /\ wb' \in {"reports", "file"}
  BY <1>0, <1>3
<1>4. CASE ProcessFile
  <2>1. TypeOK /\ WbTypeOK /\ tokens \in Seq(Lines)
    BY <1>4 DEF ProcessFile, InBatch, Live, BaseInv, WbTypeOK, Script
  <2> DEFINE line == Head(tokens)
  <2>2. /\ tokens # << >> /\ tokens' = Tail(tokens) /\ wb = "file"
        /\ UNCHANGED << clock, markers >>
        /\ \/ wb' = "file"
           \/ wb' = "check" /\ line.cmd \in {"run", "exit"} /\ Dispatch(line)
    BY <1>4 DEF ProcessFile, InBatch, Untouched, EndsBatch
  <2>3. /\ OrderlyLines(tokens')
        /\ line.cmd = "run" /\ line.arg # "marker" => line.n > 0
        /\ line.cmd = "exit" => tokens' = << >>
    BY <1>0, <2>1, <2>2, OrderlyTail
  <2>4. line \in Lines /\ (line.cmd = "run" => line.arg \in RunTypes)
    BY <2>1, <2>2, ScriptTail DEF WbTypeOK
  <2> HIDE DEF line
  <2>5. CASE wb' = "check" /\ line.cmd = "run" /\ Dispatch(line)
    <3>1. PICK cmds \in Seq(Asked) :
              /\ Enlisted(cmds)
              /\ RunAsked(line, cmds) \/ OtherAsked(line, cmds)
      BY <2>1, <2>4, <2>5, DispatchAsks
    <3>2. RunAsked(line, cmds)
      BY <2>5, <3>1 DEF OtherAsked
    <3>3. ~TimeHasCome'
      BY <2>1, <2>2, <2>3, <2>4, <2>5, <3>2, RunNotOver
    <3> QED
      BY <2>3, <2>5, <3>3
  <2> QED
    BY <2>2, <2>3, <2>5
<1>5. CASE FileDone
  BY <1>0, <1>5 DEF FileDone, KeepScript
<1>6. CASE CheckBmCmds
  BY <1>0, <1>6 DEF CheckBmCmds, KeepScript, InBatch
<1>7. CASE ProcessBmCmds
  BY <1>0, <1>7 DEF ProcessBmCmds, InBatch
<1>8. CASE BmCmdsDone \/ ReportStop \/ ReportShown \/ ReportThreadBegin \/ ReportThreadEnd
           \/ ReportUnknown \/ ReportsDone
  <2>1. UNCHANGED tokens /\ wb' \in {"reports", "file"}
    BY <1>8 DEF BmCmdsDone, ReportStop, ReportShown, ReportThreadBegin, ReportThreadEnd,
                ReportUnknown, ReportsDone, InBatch, KeepScript
  <2> QED
    BY <1>3, <2>1
<1>9. CASE \/ AWB_Activate \/ WbExit \/ ControllerStep
           \/ \E d \in ClockSteps : WatchedClock(d)
           \/ WatchedExecuteDone \/ WbCalls
           \/ CMD_Init(TRUE) /\ UNCHANGED wbVars
  <2>1. /\ UNCHANGED << tokens, wb >> /\ pc \notin {"batch", "crashed"} /\ Live
    BY <1>9 DEF AWB_Activate, WbExit, ControllerStep, Sample, DrainItem, DrainClearing,
       ClearBreak, ReadyEvent, NoEventReady, AWB_InformProgress, Decide, BeginClock, Exit,
       WatchedClock, EndClock, WatchedExecuteDone, ExecuteDone, CMD_Init, WbCalls,
       FeederInit, DuringClock, wbVars, Live
  <2>2. wb # "check"
    BY <2>1 DEF BaseInv, Placed
  <2> QED
    BY <1>1, <2>1, <2>2
<1>10. CASE UNCHANGED allVars
  BY <1>2, <1>10 DEF allVars, wbVars, vars, sysVars
<1> QED
  BY <1>4, <1>5, <1>6, <1>7, <1>8, <1>9, <1>10 DEF WbNext, WbStep, WbLoop

(* ProcessBmCmds never has a line to take off the list, and so never reads *)
(* one that is gone, provided that every run is to last and that nothing   *)
(* follows an AwbExit: process_file, which comes first, leaves lines       *)
(* behind only when the run it stopped at is not over.                     *)
THEOREM NoUseAfterPopHolds == WbSpec => []NoUseAfterPop
<1>1. TokensInv => NoUseAfterPop
  BY DEF TokensInv, NoUseAfterPop, InBatch
<1> QED
  BY <1>1, BaseInit, BaseStep, TokensInit, TokensStep, PTL DEF WbSpec, WbNext

-----------------------------------------------------------------------------
(***************************************************************************)
(* The runs of a script.  At any time the stop that ends a run is in one   *)
(* place at most: asked for, on one list of the schedule, reported, in the *)
(* hands of CheckBmCmds, which is about to ask for the next one, or still  *)
(* to be asked for when a marker is committed.                             *)
(***************************************************************************)
StopReports(list) == {k \in 1..Len(list) : list[k].type = "stop"}

NoRun == ""   \* bm_stop_type before the first AwbRun

InHand == wb = "file" \/ (wb \in {"check", "commands"} /\ bmStopType = NoRun)

Holders == Lists \cup {"work", "report", "hand", "watch"}

Holds(p) ==
    \/ p = "work"   /\ Named(ctrlWorkList, "STOP")
    \/ p \in Lists  /\ Named(schedule[p], "STOP")
    \/ p = "report" /\ StopReports(pendingProgress) # {}
    \/ p = "hand"   /\ InHand
    \/ p = "watch"  /\ watching

Solo == \A p, q \in Holders : Holds(p) /\ Holds(q) => p = q

Counted ==
    /\ Once(ctrlWorkList, "STOP")
    /\ \A l \in Lists : Once(schedule[l], "STOP")
    /\ \A j, k \in StopReports(pendingProgress) : j = k

(* Every item is on the list of its trigger.                               *)
Kinds ==
    /\ \A k \in 1..Len(ctrlWorkList) : Kind(ctrlWorkList[k])
    /\ \A l \in Lists : \A k \in 1..Len(schedule[l]) :
          Kind(schedule[l][k]) /\ ListOf(schedule[l][k].trigger) = l

(* The end and the start of the model, asked for or under way.             *)
Ending ==
    pmExiting \/ Named(ctrlWorkList, "EXIT") \/ Named(schedule["cycle"], "EXIT")

Starting == Named(ctrlWorkList, "START") \/ Named(schedule["cycle"], "START")

Due(i, at) == i.name = "STOP" => i.trigger = "CYCLE_ONCE" /\ i.actionTime = at

AllDue(at) ==
    /\ \A k \in 1..Len(ctrlWorkList) : Due(ctrlWorkList[k], at)
    /\ \A l \in Lists : \A k \in 1..Len(schedule[l]) : Due(schedule[l][k], at)

(* How far a run of cycles is: its stop is asked for, is scheduled, or has *)
(* been; the model is only started while the stop lies ahead.              *)
StopAsked     == Named(ctrlWorkList, "STOP") /\ clock["cycle"] < bmStopTime
StopScheduled == Named(schedule["cycle"], "STOP")
StopBeen      == /\ clock["cycle"] = bmStopTime
                 /\ Ending \/ (pmStopped /\ ~Starting)

StartSafe ==
    \/ Ending
    \/ Named(ctrlWorkList, "STOP")
    \/ Named(schedule["cycle"], "STOP") /\ clock["cycle"] < bmStopTime

Track ==
    bmStopType = "cycle" =>
        /\ bmStopTime > 0
        /\ AllDue(bmStopTime)
        /\ Starting => StartSafe
        /\ StopAsked \/ StopScheduled \/ StopBeen

Still == "cycle" \notin Honoured => clock["cycle"] = 0

(* What each place of the loop adds.                                       *)
Special == {"STOP", "START", "EXIT"}

Watch ==
    /\ watching => bmStopType = "marker"
    /\ pc \in {"execute", "clock"} /\ markerHit => watching

Idle ==
    pc \in {"main", "activate"} =>
        /\ \A name \in Special : ~Named(ctrlWorkList, name)
        /\ \A p \in Holders : ~Holds(p)
        /\ bmStopType = NoRun

NowGone ==
    pc \notin {"drain", "ready", "crashed"} =>
        \A k \in 1..Len(schedule["cycle"]) : schedule["cycle"][k].trigger # "NOW"

Clocking ==
    /\ pc = "clock" => \A name \in Special : ~Named(ctrlWorkList, name)
    /\ pc \in {"execute", "clock"} => ~pmExiting /\ ~pmStopped

PlaceInv == Watch /\ Idle /\ NowGone /\ Clocking

StopInv == Kinds /\ Counted /\ Solo /\ Track /\ Still

RunInv == Live /\ pc # "exited" /\ Orderly => StopInv /\ PlaceInv

(* The feeder and the chip speak of their threads only.                    *)
OnlyThreads ==
    \A c \in FeederCommands \cup ChipCommands :
        c.name \in {"THDBEGIN", "THDEND", "THDBLOCK", "THDUNBLOCK"}

-----------------------------------------------------------------------------
(***************************************************************************)
(* Where the items of a name are after a list changed.                     *)
(***************************************************************************)
LEMMA InsertNamed ==
    ASSUME NEW list \in Seq(WorkItems), NEW wi \in WorkItems, NEW name
    PROVE  /\ Named(InsertOrdered(list, wi), name) <=>
                  wi.name = name \/ Named(list, name)
           /\ Once(list, name) /\ wi.name # name =>
                  Once(InsertOrdered(list, wi), name)
           /\ ~Named(list, name) => Once(InsertOrdered(list, wi), name)
<1> DEFINE new == InsertOrdered(list, wi)
           n   == Len(list)
           k   == NotLater(list, wi)
<1>1. k \in 0..n /\ n \in Nat
  BY NotLaterProperties, WorkItemsAreItems, SeqMonotonic
<1>2. /\ Len(new) = n + 1
      /\ \A i \in 1..Len(new) : new[i] = IF i <= k THEN list[i]
                                         ELSE IF i = k + 1 THEN wi ELSE list[i - 1]
  BY InsertOrderedProperties, WorkItemsAreItems
<1> HIDE DEF new, k
<1>3. \A i \in 1..Len(new) :
          \/ i <= k /\ i \in 1..n /\ new[i] = list[i]
          \/ i = k + 1 /\ new[i] = wi
          \/ i > k + 1 /\ i - 1 \in 1..n /\ new[i] = list[i - 1]
  BY <1>1, <1>2 DEF n
<1>4. \A j \in 1..n :
          \/ j <= k /\ j \in 1..Len(new) /\ new[j] = list[j]
          \/ j > k /\ j + 1 \in 1..Len(new) /\ new[j + 1] = list[j]
  <2> SUFFICES ASSUME NEW j \in 1..n
               PROVE  \/ j <= k /\ j \in 1..Len(new) /\ new[j] = list[j]
                      \/ j > k /\ j + 1 \in 1..Len(new) /\ new[j + 1] = list[j]
    OBVIOUS
  <2>1. j \in 1..(n + 1) /\ j + 1 \in 1..(n + 1) /\ (j + 1) - 1 = j
    BY <1>1
  <2>2. CASE j <= k
    BY <1>2, <2>1, <2>2 DEF n
  <2>3. CASE j > k
    <3>1. ~(j + 1 <= k) /\ j + 1 # k + 1
      BY <1>1, <2>3
    <3>2. new[j + 1] = list[(j + 1) - 1]
      BY <1>2, <2>1, <3>1 DEF n
    <3> QED
      BY <1>2, <2>1, <2>3, <3>2 DEF n
  <2> QED
    BY <1>1, <2>2, <2>3
<1>5. k + 1 \in 1..Len(new) /\ new[k + 1] = wi
  <2>1. k + 1 \in 1..(n + 1) /\ ~(k + 1 <= k)
    BY <1>1
  <2> QED
    BY <1>2, <2>1 DEF n
<1>6. Named(new, name) <=> wi.name = name \/ Named(list, name)
  <2>1. Named(new, name) => wi.name = name \/ Named(list, name)
    BY <1>3 DEF Named, n
  <2>2. Named(list, name) => Named(new, name)
    BY <1>4 DEF Named, n
  <2>3. wi.name = name => Named(new, name)
    BY <1>5 DEF Named
  <2> QED
    BY <2>1, <2>2, <2>3
<1>7. ASSUME Once(list, name), wi.name # name
      PROVE  Once(new, name)
  <2> SUFFICES ASSUME NEW i \in 1..Len(new), NEW j \in 1..Len(new),
                      new[i].name = name, new[j].name = name
               PROVE  i = j
    BY DEF Once
  <2>1. /\ \/ i <= k /\ i \in 1..n /\ new[i] = list[i]
           \/ i > k + 1 /\ i - 1 \in 1..n /\ new[i] = list[i - 1]
        /\ \/ j <= k /\ j \in 1..n /\ new[j] = list[j]
           \/ j > k + 1 /\ j - 1 \in 1..n /\ new[j] = list[j - 1]
    BY <1>3, <1>7
  <2>2. \A a \in 1..n : \A b \in 1..n :
           list[a].name = name /\ list[b].name = name => a = b
    BY <1>7 DEF Once, n
  <2>3. PICK a \in 1..n : /\ list[a].name = name
                          /\ (i <= k /\ a = i) \/ (i > k + 1 /\ a = i - 1)
    BY <2>1
  <2>4. PICK b \in 1..n : /\ list[b].name = name
                          /\ (j <= k /\ b = j) \/ (j > k + 1 /\ b = j - 1)
    BY <2>1
  <2>5. a = b
    BY <2>2, <2>3, <2>4
  <2> QED
    BY <1>1, <1>2, <2>3, <2>4, <2>5
<1>8. ASSUME ~Named(list, name)
      PROVE  Once(new, name)
  <2>1. \A i \in 1..Len(new) : new[i].name = name => i = k + 1
    BY <1>3, <1>8 DEF Named, n
  <2> QED
    BY <2>1 DEF Once
<1> QED
  BY <1>6, <1>7, <1>8 DEF new

LEMMA TailNamed ==
    ASSUME NEW S, NEW list \in Seq(S), list # << >>, NEW name
    PROVE  /\ Named(list, name) <=> Head(list).name = name \/ Named(Tail(list), name)
           /\ Once(list, name) => /\ Once(Tail(list), name)
                                  /\ Head(list).name = name => ~Named(Tail(list), name)
<1> DEFINE n == Len(list)
           m == Len(Tail(list))
<1>1. /\ n \in Nat /\ n > 0 /\ m = n - 1 /\ Head(list) = list[1]
      /\ \A i \in 1..m : Tail(list)[i] = list[i + 1]
  BY EmptySeq, HeadTailProperties
<1> HIDE DEF n, m
<1>2. 1 \in 1..n /\ \A i \in 1..m : i + 1 \in 1..n /\ i + 1 # 1
  BY <1>1
<1>3. \A j \in 1..n : j = 1 \/ (j - 1 \in 1..m /\ (j - 1) + 1 = j)
  BY <1>1
<1>4. Named(list, name) <=> Head(list).name = name \/ Named(Tail(list), name)
  <2>1. Named(list, name) => Head(list).name = name \/ Named(Tail(list), name)
    BY <1>1, <1>3 DEF Named, n, m
  <2>2. Named(Tail(list), name) => Named(list, name)
    BY <1>1, <1>2 DEF Named, n, m
  <2>3. Head(list).name = name => Named(list, name)
    BY <1>1, <1>2 DEF Named, n
  <2> QED
    BY <2>1, <2>2, <2>3
<1>5. ASSUME Once(list, name)
      PROVE  Once(Tail(list), name)
  <2> SUFFICES ASSUME NEW i \in 1..m, NEW j \in 1..m,
                      Tail(list)[i].name = name, Tail(list)[j].name = name
               PROVE  i = j
    BY DEF Once, m
  <2>1. i + 1 = j + 1
    BY <1>1, <1>2, <1>5 DEF Once, n
  <2> QED
    BY <1>1, <2>1
<1>6. ASSUME Once(list, name), Head(list).name = name
      PROVE  ~Named(Tail(list), name)
  BY <1>1, <1>2, <1>6 DEF Once, Named, n, m
<1> QED
  BY <1>4, <1>5, <1>6

LEMMA RemoveNamed ==
    ASSUME NEW list \in Seq(WorkItems), ProgressAt(list) # {}, NEW name,
           name # "PROGRESS"
    PROVE  /\ Named(WithoutFirstProgress(list), name) <=> Named(list, name)
           /\ Once(list, name) => Once(WithoutFirstProgress(list), name)
<1> DEFINE new == WithoutFirstProgress(list)
           n   == Len(list)
           p   == FirstProgress(list)
<1>1. list \in Seq(Items)
  BY WorkItemsAreItems, SeqMonotonic
<1>2. p \in 1..n /\ n \in Nat /\ list[p].name = "PROGRESS"
  BY <1>1, FirstProgressProperties
<1>3. /\ Len(new) = n - 1
      /\ \A i \in 1..Len(new) : new[i] = IF i < p THEN list[i] ELSE list[i + 1]
  BY <1>2, RemoveAtProperties DEF WithoutFirstProgress
<1> HIDE DEF new, p
<1>4. \A i \in 1..Len(new) :
          \/ i < p /\ i \in 1..n /\ new[i] = list[i]
          \/ i >= p /\ i + 1 \in 1..n /\ new[i] = list[i + 1]
  BY <1>2, <1>3 DEF n
<1>5. \A j \in 1..n :
          \/ j = p
          \/ j < p /\ j \in 1..Len(new) /\ new[j] = list[j]
          \/ j > p /\ j - 1 \in 1..Len(new) /\ new[j - 1] = list[j]
  <2> SUFFICES ASSUME NEW j \in 1..n, j # p
               PROVE  \/ j < p /\ j \in 1..Len(new) /\ new[j] = list[j]
                      \/ j > p /\ j - 1 \in 1..Len(new) /\ new[j - 1] = list[j]
    OBVIOUS
  <2>1. CASE j < p
    BY <1>2, <1>3, <2>1 DEF n
  <2>2. CASE j > p
    <3>1. j - 1 \in 1..(n - 1) /\ ~(j - 1 < p) /\ (j - 1) + 1 = j
      BY <1>2, <2>2
    <3> QED
      BY <1>3, <2>2, <3>1 DEF n
  <2> QED
    BY <1>2, <2>1, <2>2
<1>6. Named(new, name) <=> Named(list, name)
  <2>1. Named(new, name) => Named(list, name)
    BY <1>4 DEF Named, n
  <2>2. Named(list, name) => Named(new, name)
    BY <1>2, <1>5 DEF Named, n
  <2> QED
    BY <2>1, <2>2
<1>7. ASSUME Once(list, name)
      PROVE  Once(new, name)
  <2> SUFFICES ASSUME NEW i \in 1..Len(new), NEW j \in 1..Len(new),
                      new[i].name = name, new[j].name = name
               PROVE  i = j
    BY DEF Once
  <2>1. /\ \/ i < p /\ i \in 1..n /\ new[i] = list[i]
           \/ i >= p /\ i + 1 \in 1..n /\ new[i] = list[i + 1]
        /\ \/ j < p /\ j \in 1..n /\ new[j] = list[j]
           \/ j >= p /\ j + 1 \in 1..n /\ new[j] = list[j + 1]
    BY <1>4
  <2>2. \A a \in 1..n : \A b \in 1..n :
           list[a].name = name /\ list[b].name = name => a = b
    BY <1>7 DEF Once, n
  <2>3. PICK a \in 1..n : /\ list[a].name = name
                          /\ (i < p /\ a = i) \/ (i >= p /\ a = i + 1)
    BY <2>1
  <2>4. PICK b \in 1..n : /\ list[b].name = name
                          /\ (j < p /\ b = j) \/ (j >= p /\ b = j + 1)
    BY <2>1
  <2>5. a = b
    BY <2>2, <2>3, <2>4
  <2> QED
    BY <1>2, <1>3, <2>3, <2>4, <2>5
<1> QED
  BY <1>6, <1>7 DEF new

(* The same of the reports.                                                *)
LEMMA TailReports ==
    ASSUME NEW list \in Seq(Reports), list # << >>,
           \A j, k \in StopReports(list) : j = k
    PROVE  /\ \A j, k \in StopReports(Tail(list)) : j = k
           /\ StopReports(Tail(list)) # {} => StopReports(list) # {}
           /\ Head(list).type = "stop" =>
                  StopReports(list) # {} /\ StopReports(Tail(list)) = {}
<1> DEFINE n == Len(list)
           m == Len(Tail(list))
<1>1. /\ n \in Nat /\ n > 0 /\ m = n - 1 /\ Head(list) = list[1]
      /\ \A i \in 1..m : Tail(list)[i] = list[i + 1]
  BY EmptySeq, HeadTailProperties
<1> HIDE DEF n, m
<1>2. 1 \in 1..n /\ \A i \in 1..m : i + 1 \in 1..n /\ i + 1 # 1
  BY <1>1
<1>3. \A i \in StopReports(Tail(list)) : i \in 1..m /\ i + 1 \in StopReports(list)
  BY <1>1, <1>2 DEF StopReports, n, m
<1>4. Head(list).type = "stop" => 1 \in StopReports(list)
  BY <1>1, <1>2 DEF StopReports, n
<1>5. \A j, k \in StopReports(Tail(list)) : j = k
  <2> SUFFICES ASSUME NEW j \in StopReports(Tail(list)), NEW k \in StopReports(Tail(list))
               PROVE  j = k
    OBVIOUS
  <2>1. j + 1 = k + 1 /\ j \in 1..m /\ k \in 1..m
    BY <1>3
  <2> QED
    BY <1>1, <2>1
<1> QED
  BY <1>2, <1>3, <1>4, <1>5

LEMMA AppendReports ==
    ASSUME NEW list \in Seq(Reports), NEW r,
           \A j, k \in StopReports(list) : j = k
    PROVE  /\ StopReports(Append(list, r)) # {} =>
                  r.type = "stop" \/ StopReports(list) # {}
           /\ r.type # "stop" \/ StopReports(list) = {} =>
                  \A j, k \in StopReports(Append(list, r)) : j = k
<1> DEFINE new == Append(list, r)
           n   == Len(list)
<1>0. list \in Seq(Reports \cup {r})
  BY SeqMonotonic
<1>1. /\ n \in Nat /\ Len(new) = n + 1
      /\ \A i \in 1..n : new[i] = list[i]
      /\ new[n + 1] = r
  BY <1>0, AppendProperties
<1> HIDE DEF new, n
<1>2. \A i \in 1..(n + 1) : i \in 1..n \/ i = n + 1
  BY <1>1
<1>3. \A i \in StopReports(new) : i \in StopReports(list) \/ (i = n + 1 /\ r.type = "stop")
  BY <1>1, <1>2 DEF StopReports, n
<1> QED
  BY <1>3 DEF new

-----------------------------------------------------------------------------
(***************************************************************************)
(* The work list after something was asked for.                            *)
(***************************************************************************)
Grown(cmds) ==
    /\ Len(ctrlWorkList') = Len(ctrlWorkList) + Len(cmds)
    /\ \A j \in 1..Len(ctrlWorkList) : ctrlWorkList'[j] = ctrlWorkList[j]
    /\ \A k \in 1..Len(cmds) :
          LET i == ctrlWorkList'[Len(ctrlWorkList) + k] IN
          /\ i.name = cmds[k].name /\ i.arg = cmds[k].arg
          /\ i.trigger = cmds[k].trigger
          /\ i.actionTime = ItemOf(cmds[k]).actionTime

LEMMA EnlistedGrown ==
    ASSUME TypeOK, NEW cmds \in Seq(Asked), Enlisted(cmds)
    PROVE  Grown(cmds)
BY EnlistedItem DEF Grown, Enlisted

LEMMA EnlistGrown ==
    ASSUME TypeOK, NEW c \in Asked, Enlist(c)
    PROVE  << c >> \in Seq(Asked) /\ Grown(<< c >>)
<1> DEFINE i == ItemOf(c)
           n == Len(ctrlWorkList)
<1>1. ctrlWorkList' = Append(ctrlWorkList, i) /\ ctrlWorkList \in Seq(WorkItems)
  BY DEF Enlist, Add, TypeOK
<1>2. i.name = c.name /\ i.arg = c.arg /\ i.trigger = c.trigger
  BY DEF ItemOf
<1>3. i \in WorkItems
  BY ProperItem DEF Asked
<1> HIDE DEF i
<1>4. /\ Len(ctrlWorkList') = n + 1
      /\ \A j \in 1..n : ctrlWorkList'[j] = ctrlWorkList[j]
      /\ ctrlWorkList'[n + 1] = i
  BY <1>1, <1>3, AppendProperties
<1>5. << c >> \in Seq(Asked) /\ Len(<< c >>) = 1 /\ << c >>[1] = c
  OBVIOUS
<1> HIDE DEF n
<1>6. \A k \in 1..Len(<< c >>) : k = 1 /\ << c >>[k] = c
  BY <1>5
<1>7. ASSUME NEW k \in 1..Len(<< c >>)
      PROVE  LET w == ctrlWorkList'[n + k] IN
             /\ w.name = << c >>[k].name /\ w.arg = << c >>[k].arg
             /\ w.trigger = << c >>[k].trigger
             /\ w.actionTime = ItemOf(<< c >>[k]).actionTime
  <2>1. ctrlWorkList'[n + k] = i /\ << c >>[k] = c
    BY <1>4, <1>6
  <2> QED
    BY <1>2, <2>1 DEF i
<1> QED
  BY <1>4, <1>5, <1>7 DEF Grown, n

LEMMA GrownAt ==
    ASSUME TypeOK, NEW cmds \in Seq(Asked), Grown(cmds),
           NEW j \in 1..Len(ctrlWorkList')
    PROVE  \/ j \in 1..Len(ctrlWorkList) /\ ctrlWorkList'[j] = ctrlWorkList[j]
           \/ \E k \in 1..Len(cmds) : j = Len(ctrlWorkList) + k
<1>1. Len(ctrlWorkList) \in Nat /\ Len(cmds) \in Nat
  BY DEF TypeOK
<1>2. /\ Len(ctrlWorkList') = Len(ctrlWorkList) + Len(cmds)
      /\ \A i \in 1..Len(ctrlWorkList) : ctrlWorkList'[i] = ctrlWorkList[i]
  BY DEF Grown
<1>3. CASE j \in 1..Len(ctrlWorkList)
  BY <1>2, <1>3
<1>4. CASE j \notin 1..Len(ctrlWorkList)
  <2>1. j - Len(ctrlWorkList) \in 1..Len(cmds)
        /\ j = Len(ctrlWorkList) + (j - Len(ctrlWorkList))
    BY <1>1, <1>2, <1>4
  <2> QED
    BY <2>1
<1> QED
  BY <1>3, <1>4

LEMMA GrownNamed ==
    ASSUME TypeOK, NEW cmds \in Seq(Asked), Grown(cmds), NEW name
    PROVE  /\ Named(ctrlWorkList', name) <=> Named(ctrlWorkList, name) \/ Named(cmds, name)
           /\ Once(ctrlWorkList, name) /\ ~Named(cmds, name) => Once(ctrlWorkList', name)
           /\ ~Named(ctrlWorkList, name) /\ Once(cmds, name) => Once(ctrlWorkList', name)
<1> DEFINE n == Len(ctrlWorkList)
           m == Len(cmds)
<1>1. n \in Nat /\ m \in Nat
  BY DEF TypeOK
<1>2. /\ Len(ctrlWorkList') = n + m
      /\ \A j \in 1..n : ctrlWorkList'[j] = ctrlWorkList[j]
      /\ \A k \in 1..m : ctrlWorkList'[n + k].name = cmds[k].name
  BY DEF Grown
<1>3. \A j \in 1..Len(ctrlWorkList') :
          \/ j \in 1..n /\ ctrlWorkList'[j] = ctrlWorkList[j]
          \/ \E k \in 1..m : j = n + k
  BY GrownAt
<1> HIDE DEF n, m
<1>4. /\ \A j \in 1..n : j \in 1..Len(ctrlWorkList')
      /\ \A k \in 1..m : n + k \in 1..Len(ctrlWorkList')
  BY <1>1, <1>2
<1>5. Named(ctrlWorkList', name) <=> Named(ctrlWorkList, name) \/ Named(cmds, name)
  <2>1. Named(ctrlWorkList', name) => Named(ctrlWorkList, name) \/ Named(cmds, name)
    BY <1>2, <1>3 DEF Named, n, m
  <2>2. Named(ctrlWorkList, name) => Named(ctrlWorkList', name)
    BY <1>2, <1>4 DEF Named, n
  <2>3. Named(cmds, name) => Named(ctrlWorkList', name)
    BY <1>2, <1>4 DEF Named, m
  <2> QED
    BY <2>1, <2>2, <2>3
<1>6. ASSUME Once(ctrlWorkList, name), ~Named(cmds, name)
      PROVE  Once(ctrlWorkList', name)
  <2>1. \A j \in 1..Len(ctrlWorkList') : ctrlWorkList'[j].name = name =>
            j \in 1..n /\ ctrlWorkList[j].name = name
    BY <1>2, <1>3, <1>6 DEF Named, m
  <2> QED
    BY <1>6, <2>1 DEF Once, n
<1>7. ASSUME ~Named(ctrlWorkList, name), Once(cmds, name)
      PROVE  Once(ctrlWorkList', name)
  <2>1. \A j \in 1..Len(ctrlWorkList') : ctrlWorkList'[j].name = name =>
            \E k \in 1..m : j = n + k /\ cmds[k].name = name
    BY <1>2, <1>3, <1>7 DEF Named, n
  <2> QED
    BY <1>7, <2>1 DEF Once, m
<1> QED
  BY <1>5, <1>6, <1>7

LEMMA GrownKinds ==
    ASSUME TypeOK, Kinds, NEW cmds \in Seq(Asked), Grown(cmds), UNCHANGED schedule
    PROVE  Kinds'
<1>1. ASSUME NEW j \in 1..Len(ctrlWorkList')
      PROVE  Kind(ctrlWorkList'[j])
  <2>1. CASE j \in 1..Len(ctrlWorkList) /\ ctrlWorkList'[j] = ctrlWorkList[j]
    BY <2>1 DEF Kinds
  <2>2. CASE \E k \in 1..Len(cmds) : j = Len(ctrlWorkList) + k
    <3>1. PICK k \in 1..Len(cmds) : j = Len(ctrlWorkList) + k
      BY <2>2
    <3>2. Kind(cmds[k])
      BY DEF Asked
    <3>3. /\ ctrlWorkList'[j].name = cmds[k].name /\ ctrlWorkList'[j].arg = cmds[k].arg
          /\ ctrlWorkList'[j].trigger = cmds[k].trigger
      BY <3>1 DEF Grown
    <3> QED
      BY <3>2, <3>3 DEF Kind
  <2> QED
    BY <2>1, <2>2, GrownAt
<1> QED
  BY <1>1 DEF Kinds

LEMMA GrownDue ==
    ASSUME TypeOK, NEW cmds \in Seq(Asked), Grown(cmds), UNCHANGED schedule, NEW at,
           AllDue(at),
           \A k \in 1..Len(cmds) : cmds[k].name = "STOP" =>
               cmds[k].trigger = "CYCLE_ONCE" /\ ItemOf(cmds[k]).actionTime = at
    PROVE  /\ \A j \in 1..Len(ctrlWorkList') : Due(ctrlWorkList'[j], at)
           /\ \A l \in Lists : \A k \in 1..Len(schedule'[l]) : Due(schedule'[l][k], at)
<1>1. ASSUME NEW j \in 1..Len(ctrlWorkList')
      PROVE  Due(ctrlWorkList'[j], at)
  <2>1. CASE j \in 1..Len(ctrlWorkList) /\ ctrlWorkList'[j] = ctrlWorkList[j]
    BY <2>1 DEF AllDue
  <2>2. CASE \E k \in 1..Len(cmds) : j = Len(ctrlWorkList) + k
    <3>1. PICK k \in 1..Len(cmds) : j = Len(ctrlWorkList) + k
      BY <2>2
    <3>3. /\ ctrlWorkList'[j].name = cmds[k].name
          /\ ctrlWorkList'[j].actionTime = ItemOf(cmds[k]).actionTime
          /\ ctrlWorkList'[j].trigger = cmds[k].trigger
      BY <3>1 DEF Grown
    <3> QED
      BY <3>3 DEF Due
  <2> QED
    BY <2>1, <2>2, GrownAt
<1> QED
  BY <1>1 DEF AllDue

-----------------------------------------------------------------------------
(***************************************************************************)
(* The stop moves from one place to the next, or vanishes.                 *)
(***************************************************************************)
LEMMA SoloFewer ==
    ASSUME Solo, \A p \in Holders : Holds(p)' => Holds(p)
    PROVE  Solo'
BY DEF Solo

LEMMA SoloMoved ==
    ASSUME Solo, NEW a, NEW b, a \in Holders /\ Holds(a),
           \A p \in Holders : Holds(p)' => p = b \/ (Holds(p) /\ p # a)
    PROVE  Solo'
<1>1. \A p \in Holders : Holds(p) => p = a
  BY DEF Solo
<1>2. \A p \in Holders : Holds(p)' => p = b
  BY <1>1
<1> QED
  BY <1>2 DEF Solo

LEMMA HoldsWork ==
    /\ Holds("work") <=> Named(ctrlWorkList, "STOP")
    /\ Holds("work")' <=> Named(ctrlWorkList', "STOP")
BY DEF Holds, Lists

LEMMA HoldsList ==
    \A l \in Lists : /\ Holds(l) <=> Named(schedule[l], "STOP")
                     /\ Holds(l)' <=> Named(schedule'[l], "STOP")
BY DEF Holds, Lists

LEMMA HoldsRest ==
    /\ Holds("report") <=> StopReports(pendingProgress) # {}
    /\ Holds("hand") <=> InHand
    /\ Holds("watch") <=> watching
    /\ Holds("report")' <=> StopReports(pendingProgress') # {}
    /\ Holds("hand")' <=> InHand'
    /\ Holds("watch")' <=> watching'
BY DEF Holds, Lists

LEMMA HoldersAre == \A p \in Holders : p \in Lists \cup {"work", "report", "hand", "watch"}
BY DEF Holders

(* A step in which neither items nor time move keeps what is known of the  *)
(* stop.                                                                   *)
LEMMA CalmKeeps ==
    ASSUME StopInv,
           UNCHANGED << ctrlWorkList, schedule, clock, pmStopped, pmExiting,
                        pendingProgress, wb, bmStopType, bmStopTime, watching >>
    PROVE  StopInv'
<1>1. Kinds' /\ Counted' /\ Still'
  BY DEF StopInv, Kinds, Counted, Still
<1>2. Solo'
  <2>1. InHand' <=> InHand
    BY DEF InHand
  <2>2. \A p \in Holders : Holds(p)' => Holds(p)
    <3> SUFFICES ASSUME NEW p \in Holders, Holds(p)'
                 PROVE  Holds(p)
      OBVIOUS
    <3>1. CASE p = "work" /\ Named(ctrlWorkList', "STOP")
      BY <3>1 DEF Holds
    <3>2. CASE p \in Lists /\ Named(schedule'[p], "STOP")
      BY <3>2 DEF Holds
    <3>3. CASE p = "report" /\ StopReports(pendingProgress') # {}
      BY <3>3 DEF Holds
    <3>4. CASE p = "hand" /\ InHand'
      BY <2>1, <3>4 DEF Holds
    <3>5. CASE p = "watch" /\ watching'
      BY <3>5 DEF Holds
    <3> QED
      BY <3>1, <3>2, <3>3, <3>4, <3>5 DEF Holds
  <2> QED
    BY <2>2, SoloFewer DEF StopInv
<1>3. Track'
  BY DEF StopInv, Track, AllDue, Starting, StartSafe, Ending, StopAsked, StopScheduled,
         StopBeen
<1> QED
  BY <1>1, <1>2, <1>3 DEF StopInv

(* What BatchProgress asks for without a stop.                             *)
LEMMA GentleTrack ==
    ASSUME TypeOK, Track, NEW cmds \in Seq(Asked), Grown(cmds), Gentle(cmds),
           UNCHANGED << schedule, clock, pmExiting, bmStopType, bmStopTime >>,
           pmStopped /\ ~Named(cmds, "START") => pmStopped'
    PROVE  Track'
<1> SUFFICES ASSUME bmStopType = "cycle"
             PROVE  /\ bmStopTime > 0
                    /\ AllDue(bmStopTime)'
                    /\ Starting' => StartSafe'
                    /\ StopAsked' \/ StopScheduled' \/ StopBeen'
  BY DEF Track
<1>1. /\ bmStopTime > 0 /\ AllDue(bmStopTime)
      /\ Starting => StartSafe
      /\ StopAsked \/ StopScheduled \/ StopBeen
  BY DEF Track
<1>2. \A name : Named(ctrlWorkList', name) <=> Named(ctrlWorkList, name) \/ Named(cmds, name)
  BY GrownNamed
<1>3. ~Named(cmds, "STOP") /\ (Named(cmds, "START") => Named(cmds, "EXIT"))
  BY DEF Gentle
<1>4. AllDue(bmStopTime)'
  <2>1. \A k \in 1..Len(cmds) : cmds[k].name # "STOP"
    BY <1>3 DEF Named
  <2> QED
    BY <1>1, <2>1, GrownDue DEF AllDue
<1>5. /\ Ending => Ending'
      /\ Named(cmds, "EXIT") => Ending'
  BY <1>2 DEF Ending
<1>6. Starting' => Starting \/ Named(cmds, "START")
  BY <1>2 DEF Starting
<1>7. StartSafe => StartSafe'
  BY <1>2, <1>5 DEF StartSafe
<1>8. Starting' => StartSafe'
  BY <1>1, <1>3, <1>5, <1>6, <1>7 DEF StartSafe
<1>9. /\ StopAsked => StopAsked'
      /\ StopScheduled => StopScheduled'
  BY <1>2 DEF StopAsked, StopScheduled
<1>10. StopBeen => StopBeen'
  BY <1>3, <1>5, <1>6 DEF StopBeen
<1> QED
  BY <1>1, <1>4, <1>8, <1>9, <1>10

LEMMA GentleKeeps ==
    ASSUME TypeOK, StopInv, NEW cmds \in Seq(Asked), Grown(cmds), Gentle(cmds),
           UNCHANGED << schedule, clock, pmExiting, bmStopType, bmStopTime, watching >>,
           pmStopped /\ ~Named(cmds, "START") => pmStopped',
           \A j, k \in StopReports(pendingProgress') : j = k,
           \/ /\ Holds("report")' => Holds("report")
              /\ Holds("hand")' => Holds("hand")
           \/ Holds("report") /\ ~Holds("report")'
    PROVE  StopInv'
<1>1. Kinds'
  BY GrownKinds DEF StopInv
<1>2. ~Named(cmds, "STOP")
  BY DEF Gentle
<1>3. Counted'
  BY <1>2, GrownNamed DEF StopInv, Counted
<1>4. Track'
  BY GentleTrack DEF StopInv
<1>5. Still'
  BY DEF StopInv, Still
<1>6. \A p \in Lists \cup {"work", "watch"} : Holds(p)' => Holds(p)
  <2>1. Holds("work")' => Holds("work")
    BY <1>2, GrownNamed, HoldsWork
  <2>2. ASSUME NEW l \in Lists
        PROVE  Holds(l)' => Holds(l)
    BY HoldsList
  <2>3. Holds("watch")' => Holds("watch")
    BY HoldsRest
  <2> QED
    BY <2>1, <2>2, <2>3
<1>7. Solo'
  <2>1. CASE (Holds("report")' => Holds("report")) /\ (Holds("hand")' => Holds("hand"))
    BY <1>6, <2>1, SoloFewer, HoldersAre DEF StopInv
  <2>2. CASE Holds("report") /\ ~Holds("report")'
    <3>1. \A p \in Holders : Holds(p)' => p = "hand" \/ (Holds(p) /\ p # "report")
      BY <1>6, <2>2, HoldersAre
    <3>2. "report" \in Holders
      BY DEF Holders
    <3> QED
      BY <2>2, <3>1, <3>2, SoloMoved DEF StopInv
  <2> QED
    BY <2>1, <2>2
<1> QED
  BY <1>1, <1>3, <1>4, <1>5, <1>7 DEF StopInv

-----------------------------------------------------------------------------
(***************************************************************************)
(* BatchProgress, report by report and line by line.                       *)
(***************************************************************************)
LEMMA BatchPlace ==
    ASSUME PlaceInv, pc \notin {"drain", "ready", "crashed"},
           pc' \notin {"main", "activate", "execute", "clock"}, UNCHANGED schedule,
           watching' => bmStopType' = "marker"
    PROVE  PlaceInv'
<1>1. Watch' /\ Idle' /\ Clocking'
  BY DEF PlaceInv, Watch, Idle, Clocking
<1>2. NowGone'
  BY DEF PlaceInv, NowGone
<1> QED
  BY <1>1, <1>2 DEF PlaceInv

LEMMA ReportsRun ==
    ASSUME TypeOK, WbTypeOK, StopInv, PlaceInv, Live',
           \/ ReportStop \/ ReportShown \/ ReportThreadBegin \/ ReportThreadEnd
           \/ ReportUnknown \/ ReportsDone
    PROVE  StopInv' /\ PlaceInv'
<1>1. /\ pc = "batch" /\ UNCHANGED << schedule, clock, pmExiting, bmStopType, bmStopTime,
                                      watching >>
      /\ ~ReportUnknown
  BY DEF ReportStop, ReportShown, ReportThreadBegin, ReportThreadEnd, ReportUnknown,
         ReportsDone, InBatch, Untouched, KeepScript, Live
<1>2. /\ pc' \in {"batch", "decide", "crashed"}
      /\ \E cmds \in Seq(Asked) : Enlisted(cmds) /\ Gentle(cmds)
  <2>1. CASE ReportThreadBegin
    BY <1>1, <2>1, BegunAsks
  <2>2. CASE ReportThreadEnd
    BY <1>1, <2>2, EndedAsks
  <2>3. CASE ReportStop \/ ReportShown \/ ReportsDone
    BY <1>1, <2>3, IssueNothingEnlists, NothingGentle DEF ReportStop, ReportShown, ReportsDone
  <2> QED
    BY <1>1, <2>1, <2>2, <2>3
<1>3. PICK cmds \in Seq(Asked) : Enlisted(cmds) /\ Gentle(cmds)
  BY <1>2
<1>4. Grown(cmds) /\ (pmStopped /\ ~Named(cmds, "START") => pmStopped')
  BY <1>3, EnlistedGrown DEF Enlisted
<1>5. /\ pendingProgress \in Seq(Reports)
      /\ \A j, k \in StopReports(pendingProgress) : j = k
  BY DEF TypeOK, StopInv, Counted
<1>6. PlaceInv'
  BY <1>1, <1>2, BatchPlace DEF PlaceInv, Watch
<1>7. CASE ReportStop
  <2>1. pendingProgress # << >> /\ pendingProgress' = Tail(pendingProgress)
        /\ Head(pendingProgress).type = "stop"
    BY <1>7 DEF ReportStop, Drop, Report
  <2>2. /\ \A j, k \in StopReports(pendingProgress') : j = k
        /\ Holds("report") /\ ~Holds("report")'
    BY <1>5, <2>1, TailReports, HoldsRest
  <2> QED
    BY <1>1, <1>3, <1>4, <1>6, <2>2, GentleKeeps
<1>8. CASE ReportShown \/ ReportThreadBegin \/ ReportThreadEnd
  <2>1. pendingProgress # << >> /\ pendingProgress' = Tail(pendingProgress)
        /\ UNCHANGED wb
    BY <1>8 DEF ReportShown, ReportThreadBegin, ReportThreadEnd, Drop
  <2>2. /\ \A j, k \in StopReports(pendingProgress') : j = k
        /\ Holds("report")' => Holds("report")
    BY <1>5, <2>1, TailReports, HoldsRest
  <2>3. Holds("hand")' => Holds("hand")
    BY <1>1, <2>1, HoldsRest DEF InHand
  <2> QED
    BY <1>1, <1>3, <1>4, <1>6, <2>2, <2>3, GentleKeeps
<1>9. CASE ReportsDone
  <2>1. UNCHANGED << wb, pendingProgress >>
    BY <1>9 DEF ReportsDone
  <2>2. /\ Holds("report")' => Holds("report")
        /\ Holds("hand")' => Holds("hand")
    BY <1>1, <2>1, HoldsRest DEF InHand
  <2> QED
    BY <1>1, <1>3, <1>4, <1>5, <1>6, <2>1, <2>2, GentleKeeps
<1> QED
  BY <1>1, <1>7, <1>8, <1>9

(* A run that is asked for: the stop that was in the hands of CheckBmCmds  *)
(* is replaced by the stop, or the marker, of the next run.                *)
LEMMA RunCommands ==
    ASSUME NEW line \in Lines, NEW cmds, RunAsked(line, cmds), line.arg \in RunTypes
    PROVE  IF line.arg = "marker"
           THEN ~Named(cmds, "STOP")
           ELSE /\ Named(cmds, "STOP") /\ Once(cmds, "STOP")
                /\ line.arg = "cycle" =>
                      \A k \in 1..Len(cmds) : cmds[k].name = "STOP" =>
                          cmds[k] = CMD_Stop("CYCLE_ONCE", line.n)
<1>1. CMD_Start.name = "START"
  BY AskedStart
<1>2. CASE line.arg = "marker"
  <2>1. cmds = << CMD_Start >>
    BY <1>2 DEF RunAsked
  <2>2. Len(cmds) = 1 /\ cmds[1] = CMD_Start
    BY <2>1
  <2> QED
    BY <1>1, <1>2, <2>2 DEF Named
<1>3. CASE line.arg # "marker"
  <2> DEFINE s == CMD_Stop(IF line.arg = "cycle" THEN "CYCLE_ONCE" ELSE "INST_ONCE", line.n)
  <2>1. /\ cmds = << s, CMD_Start >> /\ s.name = "STOP"
        /\ line.arg = "cycle" => s = CMD_Stop("CYCLE_ONCE", line.n)
    BY <1>3 DEF RunAsked, CMD_Stop, Command
  <2> HIDE DEF s
  <2>2. Len(cmds) = 2 /\ cmds[1] = s /\ cmds[2] = CMD_Start
    BY <2>1
  <2>3. \A k \in 1..2 : cmds[k].name = "STOP" => k = 1
    BY <1>1, <2>2
  <2> QED
    BY <1>3, <2>1, <2>2, <2>3 DEF Named, Once
<1> QED
  BY <1>2, <1>3

LEMMA RunRun ==
    ASSUME TypeOK, WbTypeOK, StopInv, PlaceInv, NEW line \in Lines, NEW cmds \in Seq(Asked),
           RunAsked(line, cmds), line.arg \in RunTypes, line.arg # "marker" => line.n > 0,
           Enlisted(cmds), InHand, wb' = "check", pc = "batch",
           UNCHANGED << schedule, clock, pmExiting, pendingProgress >>
    PROVE  StopInv' /\ PlaceInv'
<1>1. Grown(cmds) /\ bmStopType' = line.arg /\ pc' = pc
  BY EnlistedGrown DEF RunAsked
<1>2. \A p \in Holders : Holds(p) => p = "hand"
  <2>1. "hand" \in Holders /\ Holds("hand")
    BY HoldsRest DEF Holders
  <2> QED
    BY <2>1 DEF StopInv, Solo
<1>3. /\ ~Named(ctrlWorkList, "STOP") /\ StopReports(pendingProgress) = {} /\ ~watching
      /\ \A l \in Lists : ~Named(schedule[l], "STOP")
  <2>1. "work" \in Holders /\ "report" \in Holders /\ "watch" \in Holders
        /\ \A l \in Lists : l \in Holders /\ l # "hand"
    BY DEF Holders, Lists
  <2> QED
    BY <1>2, <2>1, HoldsWork, HoldsList, HoldsRest
<1>4. ~InHand'
  <2>1. line.arg # NoRun
    BY Zenon DEF NoRun, RunTypes
  <2> QED
    BY <1>1, <2>1 DEF InHand
<1>5. Kinds'
  BY <1>1, GrownKinds DEF StopInv
<1>6. Counted'
  <2>1. Once(ctrlWorkList', "STOP")
    <3>1. CASE line.arg = "marker"
      <4>1. ~Named(cmds, "STOP")
        BY <3>1, RunCommands
      <4> QED
        BY <1>1, <4>1, GrownNamed DEF StopInv, Counted
    <3>2. CASE line.arg # "marker"
      <4>1. Once(cmds, "STOP")
        BY <3>2, RunCommands
      <4> QED
        BY <1>1, <1>3, <4>1, GrownNamed
    <3> QED
      BY <3>1, <3>2
  <2> QED
    BY <2>1 DEF StopInv, Counted
<1>7. Solo'
  <2>1. /\ \A l \in Lists : ~Holds(l)'
        /\ ~Holds("report")' /\ ~Holds("hand")'
    BY <1>3, <1>4, HoldsList, HoldsRest
  <2>2. ~Holds("work")' \/ ~Holds("watch")'
    <3>1. CASE line.arg = "marker"
      <4>1. ~Named(cmds, "STOP")
        BY <3>1, RunCommands
      <4> QED
        BY <1>1, <1>3, <4>1, GrownNamed, HoldsWork
    <3>2. CASE line.arg # "marker"
      BY <1>3, <3>2, HoldsRest DEF RunAsked
    <3> QED
      BY <3>1, <3>2
  <2> QED
    BY <2>1, <2>2, HoldersAre DEF Solo
<1>8. Track'
  <2> SUFFICES ASSUME line.arg = "cycle"
               PROVE  /\ bmStopTime' > 0
                      /\ AllDue(bmStopTime)'
                      /\ Starting' => StartSafe'
                      /\ StopAsked' \/ StopScheduled' \/ StopBeen'
    BY <1>1 DEF Track
  <2>1. /\ Named(cmds, "STOP")
        /\ \A k \in 1..Len(cmds) : cmds[k].name = "STOP" =>
               cmds[k] = CMD_Stop("CYCLE_ONCE", line.n)
    BY RunCommands
  <2>2. clock["cycle"] \in Nat /\ line.n \in Nat /\ line.n > 0
        /\ bmStopTime' = clock["cycle"] + line.n
    BY DEF TypeOK, SysTypeOK, Lists, Lines, RunAsked
  <2>3. bmStopTime' > 0 /\ clock'["cycle"] < bmStopTime'
    BY <2>2
  <2>4. ItemOf(CMD_Stop("CYCLE_ONCE", line.n)).actionTime = bmStopTime'
        /\ CMD_Stop("CYCLE_ONCE", line.n).trigger = "CYCLE_ONCE"
    BY <2>2 DEF ItemOf, CMD_Stop, Command, Periodic, ListOf
  <2>5. AllDue(bmStopTime')
    <3>1. \A k \in 1..Len(ctrlWorkList) : Due(ctrlWorkList[k], bmStopTime')
      BY <1>3 DEF Named, Due
    <3>2. \A l \in Lists : \A k \in 1..Len(schedule[l]) : Due(schedule[l][k], bmStopTime')
      BY <1>3 DEF Named, Due
    <3> QED
      BY <3>1, <3>2 DEF AllDue
  <2>6. AllDue(bmStopTime)'
    <3>1. \A k \in 1..Len(cmds) : cmds[k].name = "STOP" =>
               cmds[k].trigger = "CYCLE_ONCE" /\ ItemOf(cmds[k]).actionTime = bmStopTime'
      BY <2>1, <2>4
    <3> HIDE DEF AllDue
    <3>2. /\ \A j \in 1..Len(ctrlWorkList') : Due(ctrlWorkList'[j], bmStopTime')
          /\ \A l \in Lists : \A k \in 1..Len(schedule'[l]) :
                Due(schedule'[l][k], bmStopTime')
      BY <1>1, <2>5, <3>1, GrownDue
    <3> QED
      BY <3>2 DEF AllDue
  <2>7. Named(ctrlWorkList', "STOP")
    BY <1>1, <2>1, GrownNamed
  <2> QED
    BY <2>3, <2>6, <2>7 DEF StartSafe, StopAsked
<1>9. Still'
  BY DEF StopInv, Still
<1>10. PlaceInv'
  <2>1. watching' => bmStopType' = "marker"
    BY <1>1, <1>3 DEF RunAsked
  <2> QED
    BY <1>1, <2>1, BatchPlace
<1> QED
  BY <1>5, <1>6, <1>7, <1>8, <1>9, <1>10 DEF StopInv

LEMMA TokensKnown == WbTypeOK => Script(tokens)
BY Zenon DEF WbTypeOK

LEMMA LinesRun ==
    ASSUME TypeOK, WbTypeOK, StopInv, PlaceInv, Live', Orderly, TokensInv,
           ProcessFile \/ ProcessBmCmds
    PROVE  StopInv' /\ PlaceInv'
<1>1. ProcessFile /\ OrderlyLines(tokens)
  BY DEF TokensInv, ProcessBmCmds, InBatch
<1> DEFINE line == Head(tokens)
<1>2. /\ pc = "batch" /\ tokens # << >> /\ wb = "file"
      /\ UNCHANGED << pendingProgress, schedule, pmExiting, clock >>
  BY <1>1 DEF ProcessFile, InBatch, Untouched
<1>3. /\ line \in Lines /\ (line.cmd = "run" => line.arg \in RunTypes)
      /\ line.cmd = "run" /\ line.arg # "marker" => line.n > 0
  <2>1. Script(tokens)
    BY TokensKnown
  <2>2. tokens \in Seq(Lines)
    BY <2>1 DEF Script
  <2> QED
    BY <1>1, <1>2, <2>1, <2>2, ScriptTail, OrderlyTail
<1>4. \/ Dispatch(line) /\ wb' = IF EndsBatch(line) THEN "check" ELSE "file"
      \/ IssueNothing /\ UNCHANGED << pc, bmStopType, bmStopTime, watching >>
  BY <1>1 DEF ProcessFile
<1> HIDE DEF line
<1>5. InHand /\ Holds("hand")
  BY <1>2, HoldsRest DEF InHand
<1>6. ASSUME NEW cmds \in Seq(Asked), Enlisted(cmds), Gentle(cmds), pc' \in {pc, "crashed"},
             UNCHANGED << bmStopType, bmStopTime, watching >>
      PROVE  StopInv' /\ PlaceInv'
  <2>1. Grown(cmds) /\ (pmStopped /\ ~Named(cmds, "START") => pmStopped')
    BY <1>6, EnlistedGrown DEF Enlisted
  <2>2. \A j, k \in StopReports(pendingProgress') : j = k
    BY <1>2 DEF StopInv, Counted
  <2>3. Holds("report")' => Holds("report")
    BY <1>2, HoldsRest
  <2>4. StopInv'
    BY <1>2, <1>5, <1>6, <2>1, <2>2, <2>3, GentleKeeps
  <2>5. watching' => bmStopType' = "marker"
    BY <1>6 DEF PlaceInv, Watch
  <2> QED
    BY <1>2, <1>6, <2>4, <2>5, BatchPlace
<1>7. CASE IssueNothing /\ UNCHANGED << pc, bmStopType, bmStopTime, watching >>
  BY <1>6, <1>7, IssueNothingEnlists, NothingGentle
<1>8. CASE Dispatch(line) /\ wb' = IF EndsBatch(line) THEN "check" ELSE "file"
  <2>1. PICK cmds \in Seq(Asked) :
              /\ Enlisted(cmds)
              /\ RunAsked(line, cmds) \/ OtherAsked(line, cmds)
    BY <1>3, <1>8, DispatchAsks
  <2>2. CASE RunAsked(line, cmds)
    <3>1. line.cmd = "run" /\ wb' = "check"
      BY <1>8, <2>2 DEF RunAsked, EndsBatch
    <3> QED
      BY <1>2, <1>3, <1>5, <2>1, <2>2, <3>1, RunRun
  <2>3. CASE OtherAsked(line, cmds)
    <3>1. pc' \in {pc, "crashed"}
      BY <2>3 DEF OtherAsked, Live
    <3> QED
      BY <1>6, <2>1, <2>3, <3>1 DEF OtherAsked
  <2> QED
    BY <2>1, <2>2, <2>3
<1> QED
  BY <1>4, <1>7, <1>8

(* A stop that is asked for while there is no run of cycles.               *)
LEMMA StopTaken ==
    ASSUME TypeOK, StopInv, NEW cmds \in Seq(Asked), Grown(cmds), Once(cmds, "STOP"),
           \A p \in Holders : Holds(p) => p \in {"hand", "watch"},
           ~Holds("hand")', ~Holds("watch")', bmStopType' # "cycle",
           UNCHANGED << schedule, pendingProgress, clock >>
    PROVE  StopInv'
<1>1. /\ ~Named(ctrlWorkList, "STOP") /\ StopReports(pendingProgress) = {}
      /\ \A l \in Lists : ~Named(schedule[l], "STOP")
  <2>1. "work" \in Holders /\ "report" \in Holders
        /\ \A l \in Lists : l \in Holders /\ l \notin {"hand", "watch"}
    BY DEF Holders, Lists
  <2> QED
    BY <2>1, HoldsWork, HoldsList, HoldsRest
<1>2. Kinds'
  BY GrownKinds DEF StopInv
<1>3. Counted'
  <2>1. Once(ctrlWorkList', "STOP")
    BY <1>1, GrownNamed
  <2> QED
    BY <2>1 DEF StopInv, Counted
<1>4. Solo'
  <2>1. \A l \in Lists : ~Holds(l)'
    BY <1>1, HoldsList
  <2>2. ~Holds("report")'
    BY <1>1, HoldsRest
  <2>3. \A p \in Holders : Holds(p)' => p = "work"
    BY <2>1, <2>2, HoldersAre
  <2> QED
    BY <2>3 DEF Solo
<1>5. Track' /\ Still'
  BY DEF StopInv, Track, Still
<1> QED
  BY <1>2, <1>3, <1>4, <1>5 DEF StopInv

LEMMA OneStop ==
    ASSUME NEW c \in Asked, c.name # "STOP", NEW trigger \in {"NOW", "CYCLE_ONCE"}
    PROVE  /\ << CMD_Stop(trigger, 0), c >> \in Seq(Asked)
           /\ << c, CMD_Stop(trigger, 0) >> \in Seq(Asked)
           /\ << CMD_Stop(trigger, 0) >> \in Seq(Asked)
           /\ Once(<< CMD_Stop(trigger, 0), c >>, "STOP")
           /\ Once(<< c, CMD_Stop(trigger, 0) >>, "STOP")
           /\ Once(<< CMD_Stop(trigger, 0) >>, "STOP")
<1> DEFINE s == CMD_Stop(trigger, 0)
<1>1. s \in Asked
  BY AskedStop
<1> HIDE DEF s
<1>2. << s, c >> \in Seq(Asked) /\ << c, s >> \in Seq(Asked) /\ << s >> \in Seq(Asked)
  BY <1>1
<1>3. Once(<< s, c >>, "STOP")
  <2>1. Len(<< s, c >>) = 2 /\ << s, c >>[2] = c
    OBVIOUS
  <2>2. \A k \in 1..2 : << s, c >>[k].name = "STOP" => k = 1
    BY <2>1
  <2> QED
    BY <2>1, <2>2 DEF Once
<1>4. Once(<< c, s >>, "STOP")
  <2>1. Len(<< c, s >>) = 2 /\ << c, s >>[1] = c
    OBVIOUS
  <2>2. \A k \in 1..2 : << c, s >>[k].name = "STOP" => k = 2
    BY <2>1
  <2> QED
    BY <2>1, <2>2 DEF Once
<1>5. Once(<< s >>, "STOP")
  BY DEF Once
<1> QED
  BY <1>2, <1>3, <1>4, <1>5 DEF s

LEMMA BmCmdsDoneDoes ==
    ASSUME BmCmdsDone
    PROVE  /\ InBatch("commands") /\ wb' = "reports" /\ Untouched /\ KeepScript
           /\ UNCHANGED << pc, pendingProgress >>
           /\ bmStopType # NoRun => IssueNothing
           /\ bmStopType = NoRun => IssueAll(<< CMD_Start, CMD_Stop("NOW", 0) >>)
<1>1. /\ InBatch("commands") /\ wb' = "reports" /\ Untouched /\ KeepScript
      /\ IF bmStopType = NoRun THEN IssueAll(<< CMD_Start, CMD_Stop("NOW", 0) >>)
                               ELSE IssueNothing
      /\ UNCHANGED << pc, pendingProgress, switches, threads, activeThreads >>
  BY Zenon DEF BmCmdsDone, NoRun
<1> QED
  BY <1>1

LEMMA BookkeepingRun ==
    ASSUME TypeOK, StopInv, PlaceInv, Placed, FileDone \/ CheckBmCmds \/ BmCmdsDone
    PROVE  StopInv' /\ PlaceInv'
<1>1. /\ pc = "batch" /\ pc' = "batch"
      /\ UNCHANGED << schedule, clock, pmExiting, pendingProgress, bmStopType, bmStopTime,
                      watching >>
  BY BmCmdsDoneDoes DEF FileDone, CheckBmCmds, InBatch, Untouched, KeepScript
<1>2. PlaceInv'
  <2>1. watching' => bmStopType' = "marker"
    BY <1>1 DEF PlaceInv, Watch
  <2> QED
    BY <1>1, <2>1, BatchPlace
<1>3. CASE FileDone \/ CheckBmCmds \/ (BmCmdsDone /\ bmStopType # NoRun)
  <2>1. IssueNothing
    <3>1. CASE FileDone \/ CheckBmCmds
      BY <3>1 DEF FileDone, CheckBmCmds
    <3>2. CASE BmCmdsDone /\ bmStopType # NoRun
      BY <3>2, BmCmdsDoneDoes
    <3> QED
      BY <1>3, <3>1, <3>2
  <2>2. << >> \in Seq(Asked) /\ Enlisted(<< >>) /\ Gentle(<< >>)
    BY <2>1, IssueNothingEnlists, NothingGentle
  <2>3. Grown(<< >>) /\ (pmStopped /\ ~Named(<< >>, "START") => pmStopped')
    BY <2>2, EnlistedGrown DEF Enlisted
  <2>4. InHand' => InHand
    <3>1. \/ wb = "file" /\ wb' = "check"
          \/ wb = "check" /\ wb' \in {"commands", "reports"}
          \/ wb' = "reports"
      BY <1>3, BmCmdsDoneDoes DEF FileDone, CheckBmCmds, InBatch
    <3>2. UNCHANGED bmStopType
      BY <1>1
    <3> QED
      BY <3>1, <3>2 DEF InHand
  <2>5. /\ Holds("hand")' => Holds("hand")
        /\ Holds("report")' => Holds("report")
    BY <1>1, <2>4, HoldsRest
  <2>6. \A j, k \in StopReports(pendingProgress') : j = k
    BY <1>1 DEF StopInv, Counted
  <2> QED
    BY <1>1, <1>2, <2>2, <2>3, <2>5, <2>6, GentleKeeps
<1>4. CASE BmCmdsDone /\ bmStopType = NoRun
  <2>1. /\ IssueAll(<< CMD_Start, CMD_Stop("NOW", 0) >>) /\ wb = "commands"
        /\ wb' = "reports"
    BY <1>4, BmCmdsDoneDoes DEF InBatch
  <2>2. /\ << CMD_Start, CMD_Stop("NOW", 0) >> \in Seq(Asked)
        /\ Once(<< CMD_Start, CMD_Stop("NOW", 0) >>, "STOP")
    BY AskedStart, OneStop
  <2>3. Grown(<< CMD_Start, CMD_Stop("NOW", 0) >>)
    BY <2>1, <2>2, IssueAllEnlists, EnlistedGrown
  <2>4. Holds("hand") /\ "hand" \in Holders
    BY <1>4, <2>1, HoldsRest DEF InHand, Holders
  <2>5. \A p \in Holders : Holds(p) => p = "hand"
    BY <2>4 DEF StopInv, Solo
  <2>6. ~Holds("hand")' /\ ~Holds("watch")'
    <3>1. ~InHand'
      BY <2>1 DEF InHand
    <3>2. ~watching'
      <4>1. "watch" \in Holders /\ "watch" # "hand"
        BY DEF Holders
      <4> QED
        BY <1>1, <2>5, <4>1, HoldsRest
    <3> QED
      BY <3>1, <3>2, HoldsRest
  <2>7. bmStopType' # "cycle"
    <3>1. NoRun # "cycle"
      BY Zenon DEF NoRun
    <3> QED
      BY <1>1, <1>4, <3>1
  <2> QED
    BY <1>1, <1>2, <2>2, <2>3, <2>5, <2>6, <2>7, StopTaken
<1> QED
  BY <1>3, <1>4

LEMMA ActivateRun ==
    ASSUME TypeOK, StopInv, PlaceInv, AWB_Activate
    PROVE  StopInv' /\ PlaceInv'
<1>1. /\ pc = "activate" /\ pc' = "loop"
      /\ IssueAll(<< CMD_Stop("CYCLE_ONCE", 0), CMD_Start >>)
      /\ UNCHANGED << schedule, clock, pendingProgress, bmStopType, watching, wb >>
  BY DEF AWB_Activate, Untouched, wbVars
<1>2. (\A p \in Holders : ~Holds(p)) /\ bmStopType = NoRun
  BY <1>1 DEF PlaceInv, Idle
<1>3. "hand" \in Holders /\ "watch" \in Holders
  BY DEF Holders
<1>4. ~Holds("hand")' /\ ~Holds("watch")'
  BY <1>1, <1>2, <1>3, HoldsRest DEF InHand
<1>5. /\ << CMD_Stop("CYCLE_ONCE", 0), CMD_Start >> \in Seq(Asked)
      /\ Once(<< CMD_Stop("CYCLE_ONCE", 0), CMD_Start >>, "STOP")
  BY AskedStart, OneStop
<1>6. Grown(<< CMD_Stop("CYCLE_ONCE", 0), CMD_Start >>)
  BY <1>1, <1>5, IssueAllEnlists, EnlistedGrown
<1>7. bmStopType' # "cycle"
  <2>1. NoRun # "cycle"
    BY Zenon DEF NoRun
  <2> QED
    BY <1>1, <1>2, <2>1
<1>8. StopInv'
  BY <1>1, <1>2, <1>4, <1>5, <1>6, <1>7, StopTaken
<1>9. PlaceInv'
  <2>1. ~watching'
    BY <1>1, <1>2, <1>3, HoldsRest
  <2> QED
    BY <1>1, <2>1, BatchPlace
<1> QED
  BY <1>8, <1>9

-----------------------------------------------------------------------------
(***************************************************************************)
(* The controller: the steps in which no item moves.                       *)
(***************************************************************************)
Initialized == CMD_Init(TRUE)

LEMMA PlacesRun ==
    ASSUME TypeOK, OrderInv, Cover, StopInv, PlaceInv, UNCHANGED wbVars,
           \/ Sample \/ ClearBreak \/ NoEventReady \/ AWB_InformProgress \/ Decide
           \/ BeginClock \/ Initialized
    PROVE  StopInv' /\ PlaceInv'
<1>1. /\ UNCHANGED << ctrlWorkList, schedule, clock, pmStopped, pmExiting,
                      pendingProgress >>
      /\ UNCHANGED << wb, bmStopType, bmStopTime, watching >>
  BY DEF Sample, ClearBreak, NoEventReady, AWB_InformProgress, Decide, BeginClock,
         CMD_Init, Initialized, ctrlVars, sysVars, wbVars
<1>2. StopInv'
  BY <1>1, CalmKeeps
<1>3. Idle'
  <2>1. pc' \in {"main", "activate"} => pc \in {"main", "activate"}
    BY DEF Sample, ClearBreak, NoEventReady, AWB_InformProgress, Decide, BeginClock,
           CMD_Init, Initialized
  <2>2. \A p \in Holders : Holds(p)' <=> Holds(p)
    <3>1. Holds("work")' <=> Holds("work")
      BY <1>1, HoldsWork
    <3>2. \A l \in Lists : Holds(l)' <=> Holds(l)
      BY <1>1, HoldsList
    <3>3. /\ Holds("report")' <=> Holds("report")
          /\ Holds("hand")' <=> Holds("hand")
      BY <1>1, HoldsRest DEF InHand
    <3>4. Holds("watch")' <=> Holds("watch")
      BY <1>1, HoldsRest
    <3> QED
      BY <3>1, <3>2, <3>3, <3>4, HoldersAre
  <2> QED
    BY <1>1, <2>1, <2>2 DEF PlaceInv, Idle
<1>4. Watch'
  <2>1. watching' => bmStopType' = "marker"
    BY <1>1 DEF PlaceInv, Watch
  <2>2. pc' \in {"execute", "clock"} => \/ ~markerHit'
                                        \/ pc \in {"execute", "clock"} /\ UNCHANGED markerHit
    BY DEF Sample, ClearBreak, NoEventReady, AWB_InformProgress, Decide, BeginClock,
           CMD_Init, Initialized, SYS_ExecuteEnter, sysVars
  <2>3. pc \in {"execute", "clock"} /\ markerHit => watching'
    BY <1>1 DEF PlaceInv, Watch
  <2> QED
    BY <2>1, <2>2, <2>3 DEF Watch
<1>5. NowGone'
  <2>1. CASE NoEventReady
    <3>1. \A k \in 1..Len(schedule["cycle"]) :
              now["cycle"] < schedule["cycle"][k].actionTime
      BY <2>1, NoEventReadyTime DEF Exact
    <3>2. now["cycle"] \in Nat /\ \A k \in 1..Len(schedule["cycle"]) :
              schedule["cycle"][k] \in WorkItems
      BY DEF TypeOK, Lists
    <3>3. ASSUME NEW k \in 1..Len(schedule["cycle"])
          PROVE  schedule["cycle"][k].trigger # "NOW"
      <4>1. schedule["cycle"][k].actionTime # 0
        BY <3>1, <3>2
      <4> QED
        BY <3>2, <4>1, NowIsZero
    <3> QED
      BY <1>1, <3>3 DEF NowGone
  <2>2. CASE ~NoEventReady
    <3>1. pc' \notin {"drain", "ready", "crashed"} => pc \notin {"drain", "ready", "crashed"}
      BY <2>2 DEF Sample, ClearBreak, AWB_InformProgress, Decide, BeginClock, CMD_Init, Initialized
    <3> QED
      BY <1>1, <3>1 DEF PlaceInv, NowGone
  <2> QED
    BY <2>1, <2>2
<1>6. Clocking'
  <2>1. CASE BeginClock
    <3>1. pc = "execute" /\ ~sysBreak
      BY <2>1 DEF BeginClock, Running
    <3>2. ctrlWorkList = << >>
      BY <3>1 DEF Cover, Covered
    <3>3. \A name : ~Named(ctrlWorkList, name)
      BY <3>2 DEF Named
    <3> QED
      BY <1>1, <3>1, <3>3 DEF PlaceInv, Clocking
  <2>2. CASE Decide
    BY <1>1, <2>2 DEF Decide, Clocking
  <2>3. CASE ~BeginClock /\ ~Decide
    <3>1. pc' \notin {"execute", "clock"}
      BY <2>3 DEF Sample, ClearBreak, NoEventReady, AWB_InformProgress, CMD_Init, Initialized
    <3> QED
      BY <3>1 DEF Clocking
  <2> QED
    BY <2>1, <2>2, <2>3
<1> QED
  BY <1>2, <1>3, <1>4, <1>5, <1>6 DEF PlaceInv

(* A marker that is committed takes the place of the stop it asks for.     *)
LEMMA ExecuteRun ==
    ASSUME TypeOK, Placed, StopInv, PlaceInv, WatchedExecuteDone
    PROVE  StopInv' /\ PlaceInv'
<1>1. /\ pc = "execute" /\ pc' = "loop"
      /\ UNCHANGED << schedule, pmExiting, pendingProgress, clock, wb, bmStopType,
                      bmStopTime >>
      /\ watching' = (watching /\ ~markerHit)
      /\ markerHit => Issue(CMD_Stop("NOW", 0))
      /\ ~markerHit => UNCHANGED << ctrlWorkList, pmStopped >>
  BY DEF WatchedExecuteDone, ExecuteDone
<1>2. watching /\ ~markerHit => bmStopType = "marker"
  BY DEF PlaceInv, Watch
<1>3. PlaceInv'
  BY <1>1, <1>2, BatchPlace
<1>4. CASE markerHit
  <2>1. watching /\ bmStopType = "marker"
    BY <1>1, <1>4 DEF PlaceInv, Watch
  <2>2. Holds("watch") /\ "watch" \in Holders
    BY <2>1, HoldsRest DEF Holders
  <2>3. \A p \in Holders : Holds(p) => p = "watch"
    BY <2>2 DEF StopInv, Solo
  <2>4. wb' = "reports" /\ ~watching'
    BY <1>1, <1>4 DEF Placed
  <2>5. ~Holds("hand")' /\ ~Holds("watch")'
    BY <2>4, HoldsRest DEF InHand
  <2>6. CMD_Stop("NOW", 0) \in Asked
    BY AskedStop
  <2>7. /\ << CMD_Stop("NOW", 0) >> \in Seq(Asked) /\ Grown(<< CMD_Stop("NOW", 0) >>)
    BY <1>1, <1>4, <2>6, EnlistGrown DEF Issue
  <2>8. Once(<< CMD_Stop("NOW", 0) >>, "STOP")
    BY AskedStart, OneStop
  <2>9. bmStopType' # "cycle"
    BY <1>1, <2>1
  <2>10. StopInv'
    BY <1>1, <2>3, <2>5, <2>7, <2>8, <2>9, StopTaken
  <2> QED
    BY <1>3, <2>10
<1>5. CASE ~markerHit
  <2>1. watching' => watching
    BY <1>1
  <2>2. Kinds' /\ Counted' /\ Still'
    BY <1>1, <1>5 DEF StopInv, Kinds, Counted, Still
  <2>3. Track'
    BY <1>1, <1>5 DEF StopInv, Track, AllDue, Starting, StartSafe, Ending, StopAsked,
                      StopScheduled, StopBeen
  <2>4. \A p \in Holders : Holds(p)' => Holds(p)
    <3>1. Holds("work")' => Holds("work")
      BY <1>1, <1>5, HoldsWork
    <3>2. \A l \in Lists : Holds(l)' => Holds(l)
      BY <1>1, HoldsList
    <3>3. /\ Holds("report")' => Holds("report")
          /\ Holds("hand")' => Holds("hand")
      BY <1>1, HoldsRest DEF InHand
    <3>4. Holds("watch")' => Holds("watch")
      BY <2>1, HoldsRest
    <3> QED
      BY <3>1, <3>2, <3>3, <3>4, HoldersAre
  <2>5. Solo'
    BY <2>4, SoloFewer DEF StopInv
  <2> QED
    BY <1>3, <2>2, <2>3, <2>5 DEF StopInv
<1> QED
  BY <1>4, <1>5

-----------------------------------------------------------------------------
(***************************************************************************)
(* While the chip is clocked, a run of cycles has its stop on the schedule.*)
(***************************************************************************)
LEMMA ClockedTrack ==
    ASSUME StopInv, PlaceInv, pc = "clock", bmStopType = "cycle"
    PROVE  ~Starting /\ ~Ending /\ Named(schedule["cycle"], "STOP")
<1>1. /\ \A name \in Special : ~Named(ctrlWorkList, name)
      /\ ~pmExiting /\ ~pmStopped
      /\ \A k \in 1..Len(schedule["cycle"]) : schedule["cycle"][k].trigger # "NOW"
  BY DEF PlaceInv, Clocking, NowGone
<1>2. \A k \in 1..Len(schedule["cycle"]) : Kind(schedule["cycle"][k])
  BY DEF StopInv, Kinds, Lists
<1>3. /\ ~Named(schedule["cycle"], "START")
      /\ ~Named(schedule["cycle"], "EXIT")
  BY <1>1, <1>2 DEF Named, Kind
<1>4. ~Starting /\ ~Ending /\ ~StopAsked /\ ~StopBeen
  BY <1>1, <1>3 DEF Starting, Ending, StopAsked, StopBeen, Special
<1> QED
  BY <1>4 DEF StopInv, Track, StopScheduled

LEMMA ClockRun ==
    ASSUME TypeOK, OneByOne, StopInv, PlaceInv, NEW d \in ClockSteps, WatchedClock(d)
    PROVE  StopInv' /\ PlaceInv'
<1>1. /\ pc = "clock" /\ pc' = "execute"
      /\ UNCHANGED << ctrlWorkList, schedule, pmStopped, pmExiting, pendingProgress >>
      /\ UNCHANGED << wb, bmStopType, bmStopTime, watching >>
      /\ clock' = [l \in Lists |-> clock[l] + d[l]]
      /\ markerHit' => watching
  BY DEF WatchedClock, EndClock, Advance, ctrlVars
<1>2. Kinds' /\ Counted'
  BY <1>1 DEF StopInv, Kinds, Counted
<1>3. Solo'
  <2>1. Holds("work")' => Holds("work")
    BY <1>1, HoldsWork
  <2>2. \A l \in Lists : Holds(l)' => Holds(l)
    BY <1>1, HoldsList
  <2>3. /\ Holds("report")' => Holds("report")
        /\ Holds("hand")' => Holds("hand")
    BY <1>1, HoldsRest DEF InHand
  <2>4. Holds("watch")' => Holds("watch")
    BY <1>1, HoldsRest
  <2> QED
    BY <2>1, <2>2, <2>3, <2>4, HoldersAre, SoloFewer DEF StopInv
<1>4. Track'
  <2> SUFFICES ASSUME bmStopType = "cycle"
               PROVE  /\ bmStopTime > 0
                      /\ AllDue(bmStopTime)'
                      /\ Starting' => StartSafe'
                      /\ StopAsked' \/ StopScheduled' \/ StopBeen'
    BY <1>1 DEF Track
  <2>1. ~Starting /\ Named(schedule["cycle"], "STOP")
    BY <1>1, ClockedTrack
  <2>2. bmStopTime > 0 /\ AllDue(bmStopTime)'
    BY <1>1 DEF StopInv, Track, AllDue
  <2>3. ~Starting' /\ StopScheduled'
    BY <1>1, <2>1 DEF Starting, StopScheduled
  <2> QED
    BY <2>2, <2>3
<1>5. Still'
  <2> SUFFICES ASSUME "cycle" \notin Honoured
               PROVE  clock'["cycle"] = 0
    BY DEF Still
  <2>1. clock["cycle"] = 0
    BY DEF StopInv, Still
  <2>2. d["cycle"] = 0
    BY DEF OneByOne, Exact
  <2> QED
    BY <1>1, <2>1, <2>2 DEF Lists
<1>6. PlaceInv'
  <2>1. Watch'
    BY <1>1 DEF PlaceInv, Watch
  <2>2. Idle'
    BY <1>1 DEF Idle
  <2>3. NowGone' /\ Clocking'
    BY <1>1 DEF PlaceInv, NowGone, Clocking
  <2> QED
    BY <2>1, <2>2, <2>3 DEF PlaceInv
<1> QED
  BY <1>2, <1>3, <1>4, <1>5, <1>6 DEF StopInv

LEMMA ThreadsSpeak ==
    ASSUME OnlyThreads, NEW c \in FeederCommands \cup ChipCommands
    PROVE  /\ c \in Asked /\ c.name \notin Special
           /\ << c >> \in Seq(Asked) /\ Gentle(<< c >>)
           /\ \A name \in Special : ~Named(<< c >>, name)
<1>1. c.name \in {"THDBEGIN", "THDEND", "THDBLOCK", "THDUNBLOCK"}
  BY DEF OnlyThreads
<1>2. Proper(c)
  BY CommandsType, CallersIssueCommands
<1>3. c \in Asked /\ c.name \notin Special
  BY <1>1, <1>2 DEF Asked, Kind, Proper, Special
<1>4. Len(<< c >>) = 1 /\ << c >>[1] = c
  OBVIOUS
<1>5. \A name \in Special : ~Named(<< c >>, name)
  BY <1>3, <1>4 DEF Named
<1> QED
  BY <1>3, <1>5 DEF Gentle, Special

LEMMA CallsRun ==
    ASSUME TypeOK, OnlyThreads, StopInv, PlaceInv, WbCalls
    PROVE  StopInv' /\ PlaceInv'
<1>1. PICK c \in FeederCommands \cup ChipCommands : FeederInit(c) \/ DuringClock(c)
  BY DEF WbCalls
<1>2. /\ UNCHANGED << wb, bmStopType, bmStopTime, watching >>
      /\ UNCHANGED << schedule, pmExiting, pendingProgress, clock, markerHit, pc >>
      /\ pc \in {"main", "clock"} /\ Enlist(c)
      /\ pmStopped => pmStopped' \/ c.name = "START"
      /\ pc = "clock" => (pmStopped' => pmStopped)
  BY <1>1 DEF WbCalls, wbVars, FeederInit, DuringClock, Issue, sysVars
<1>3. /\ c \in Asked /\ c.name \notin Special /\ Gentle(<< c >>)
      /\ \A name \in Special : ~Named(<< c >>, name)
  BY ThreadsSpeak
<1>4. << c >> \in Seq(Asked) /\ Grown(<< c >>)
  BY <1>2, <1>3, EnlistGrown
<1>5. \A name \in Special : Named(ctrlWorkList', name) <=> Named(ctrlWorkList, name)
  BY <1>3, <1>4, GrownNamed
<1>6. /\ Holds("report")' <=> Holds("report")
      /\ Holds("hand")' <=> Holds("hand")
      /\ Holds("watch")' <=> Holds("watch")
  <2>1. InHand' <=> InHand
    BY <1>2 DEF InHand
  <2>2. watching' <=> watching
    BY <1>2
  <2> QED
    BY <1>2, <2>1, <2>2, HoldsRest
<1>7. StopInv'
  <2>1. \A j, k \in StopReports(pendingProgress') : j = k
    BY <1>2 DEF StopInv, Counted
  <2>2. pmStopped => pmStopped'
    BY <1>2, <1>3 DEF Special
  <2> QED
    BY <1>2, <1>3, <1>4, <1>6, <2>1, <2>2, GentleKeeps
<1>8. Watch'
  BY <1>2 DEF PlaceInv, Watch
<1>9. Idle'
  <2>1. \A p \in Holders : Holds(p)' <=> Holds(p)
    <3>1. Holds("work")' <=> Holds("work")
      BY <1>5, HoldsWork DEF Special
    <3>2. \A l \in Lists : Holds(l)' <=> Holds(l)
      BY <1>2, HoldsList
    <3> QED
      BY <1>6, <3>1, <3>2, HoldersAre
  <2> QED
    BY <1>2, <1>5, <2>1 DEF PlaceInv, Idle
<1>10. NowGone'
  BY <1>2 DEF PlaceInv, NowGone
<1>11. Clocking'
  BY <1>2, <1>5 DEF PlaceInv, Clocking
<1> QED
  BY <1>7, <1>8, <1>9, <1>10, <1>11 DEF PlaceInv

-----------------------------------------------------------------------------
(***************************************************************************)
(* The controller: the steps in which items move.                          *)
(***************************************************************************)

(* Neither the stop nor a report of it moves.                              *)
LEMMA SameStop ==
    ASSUME StopInv,
           Named(ctrlWorkList', "STOP") => Named(ctrlWorkList, "STOP"),
           \A l \in Lists : Named(schedule'[l], "STOP") => Named(schedule[l], "STOP"),
           Once(ctrlWorkList', "STOP"), \A l \in Lists : Once(schedule'[l], "STOP"),
           \A j, k \in StopReports(pendingProgress') : j = k,
           StopReports(pendingProgress') # {} => StopReports(pendingProgress) # {},
           UNCHANGED << wb, bmStopType >>, watching' => watching
    PROVE  Counted' /\ Solo'
<1>1. Counted'
  BY DEF Counted
<1>2. Holds("work")' => Holds("work")
  BY HoldsWork
<1>3. \A l \in Lists : Holds(l)' => Holds(l)
  BY HoldsList
<1>4. /\ Holds("report")' => Holds("report")
      /\ Holds("hand")' => Holds("hand")
  <2>1. InHand' => InHand
    BY DEF InHand
  <2> QED
    BY <2>1, HoldsRest
<1>5. Holds("watch")' => Holds("watch")
  BY HoldsRest
<1>6. Solo'
  BY <1>2, <1>3, <1>4, <1>5, HoldersAre, SoloFewer DEF StopInv
<1> QED
  BY <1>1, <1>6

(* Nor does a start or an end.                                             *)
LEMMA SameTrack ==
    ASSUME StopInv,
           \A name \in Special :
              /\ Named(ctrlWorkList', name) <=> Named(ctrlWorkList, name)
              /\ Named(schedule'["cycle"], name) <=> Named(schedule["cycle"], name),
           AllDue(bmStopTime) => AllDue(bmStopTime)',
           UNCHANGED << clock, pmStopped, pmExiting, bmStopType, bmStopTime >>
    PROVE  Track'
<1>1. /\ Named(ctrlWorkList', "STOP") <=> Named(ctrlWorkList, "STOP")
      /\ Named(ctrlWorkList', "START") <=> Named(ctrlWorkList, "START")
      /\ Named(ctrlWorkList', "EXIT") <=> Named(ctrlWorkList, "EXIT")
      /\ Named(schedule'["cycle"], "STOP") <=> Named(schedule["cycle"], "STOP")
      /\ Named(schedule'["cycle"], "START") <=> Named(schedule["cycle"], "START")
      /\ Named(schedule'["cycle"], "EXIT") <=> Named(schedule["cycle"], "EXIT")
  BY DEF Special
<1>2. (Starting' <=> Starting) /\ (Ending' <=> Ending)
  BY <1>1 DEF Starting, Ending
<1>3. (StopAsked' <=> StopAsked) /\ (StopScheduled' <=> StopScheduled)
  BY <1>1 DEF StopAsked, StopScheduled
<1>4. (StopBeen' <=> StopBeen) /\ (StartSafe' <=> StartSafe)
  BY <1>1, <1>2 DEF StopBeen, StartSafe
<1> QED
  BY <1>2, <1>3, <1>4 DEF StopInv, Track

(* An item that the schedule took in.                                      *)
LEMMA TimedNamed ==
    ASSUME NEW item \in WorkItems, NEW time
    PROVE  /\ Timed(item, time).name = item.name
           /\ Timed(item, time).arg = item.arg
           /\ Timed(item, time).trigger = item.trigger
           /\ ~Periodic(item.trigger) => Timed(item, time) = item
BY DEF Timed, WorkItems, Items

LEMMA ScheduledNamed ==
    ASSUME NEW sched \in [Lists -> Seq(WorkItems)], NEW item \in WorkItems,
           NEW time \in [Lists -> Nat]
    PROVE  LET l   == ListOf(item.trigger)
               new == Scheduled(sched, item, time)
           IN  /\ l \in Lists
               /\ \A m \in Lists : m # l => new[m] = sched[m]
               /\ \A name : /\ Named(new[l], name) <=>
                                   item.name = name \/ Named(sched[l], name)
                            /\ Once(sched[l], name) /\ item.name # name =>
                                   Once(new[l], name)
                            /\ ~Named(sched[l], name) => Once(new[l], name)
               /\ \A k \in 1..Len(new[l]) :
                     \/ new[l][k] = Timed(item, time)
                     \/ \E j \in 1..Len(sched[l]) : new[l][k] = sched[l][j]
<1> DEFINE l   == ListOf(item.trigger)
           new == Scheduled(sched, item, time)
           t   == Timed(item, time)
<1>1. l \in Lists /\ sched[l] \in Seq(WorkItems)
  BY ListOfType
<1>2. t \in WorkItems /\ t.name = item.name
  BY TimedType, TimedNamed
<1>3. new[l] = InsertOrdered(sched[l], t) /\ \A m \in Lists : m # l => new[m] = sched[m]
  BY <1>1 DEF Scheduled
<1> HIDE DEF l, new, t
<1>4. ASSUME NEW name
      PROVE  /\ Named(new[l], name) <=> item.name = name \/ Named(sched[l], name)
             /\ Once(sched[l], name) /\ item.name # name => Once(new[l], name)
             /\ ~Named(sched[l], name) => Once(new[l], name)
  BY <1>1, <1>2, <1>3, InsertNamed
<1>5. \A k \in 1..Len(new[l]) :
          \/ new[l][k] = t
          \/ \E j \in 1..Len(sched[l]) : new[l][k] = sched[l][j]
  BY <1>1, <1>2, <1>3, InsertElements
<1> QED
  BY <1>1, <1>3, <1>4, <1>5 DEF l, new, t

LEMMA DrainItemRun ==
    ASSUME TypeOK, StopInv, PlaceInv, UNCHANGED wbVars, DrainItem
    PROVE  StopInv' /\ PlaceInv'
<1> DEFINE item == Head(ctrlWorkList)
           l    == ListOf(item.trigger)
           t    == Timed(item, now)
<1>1. /\ pc = "drain" /\ ctrlWorkList # << >>
      /\ schedule' = Scheduled(schedule, item, now)
      /\ ctrlWorkList' = Tail(ctrlWorkList)
      /\ UNCHANGED << pc, clock, pmStopped, pmExiting, pendingProgress >>
      /\ UNCHANGED << wb, bmStopType, bmStopTime, watching >>
  BY DEF DrainItem, sysVars, wbVars
<1>2. /\ ctrlWorkList \in Seq(WorkItems) /\ schedule \in [Lists -> Seq(WorkItems)]
      /\ now \in [Lists -> Nat]
  BY DEF TypeOK
<1>3. /\ item \in WorkItems /\ item = ctrlWorkList[1] /\ 1 \in 1..Len(ctrlWorkList)
  BY <1>1, <1>2, HeadTailProperties, EmptySeq
<1>4. Kind(item)
  BY <1>3 DEF StopInv, Kinds
<1>5. /\ t.name = item.name /\ t.arg = item.arg /\ t.trigger = item.trigger
      /\ ~Periodic(item.trigger) => t = item
  BY <1>3, TimedNamed
<1>6. /\ l \in Lists
      /\ \A m \in Lists : m # l => schedule'[m] = schedule[m]
      /\ \A name : /\ Named(schedule'[l], name) <=>
                          item.name = name \/ Named(schedule[l], name)
                   /\ Once(schedule[l], name) /\ item.name # name =>
                          Once(schedule'[l], name)
                   /\ ~Named(schedule[l], name) => Once(schedule'[l], name)
      /\ \A k \in 1..Len(schedule'[l]) :
            \/ schedule'[l][k] = t
            \/ \E j \in 1..Len(schedule[l]) : schedule'[l][k] = schedule[l][j]
  <2> DEFINE new == Scheduled(schedule, item, now)
  <2>1. /\ l \in Lists
        /\ \A m \in Lists : m # l => new[m] = schedule[m]
        /\ \A name : /\ Named(new[l], name) <=>
                            item.name = name \/ Named(schedule[l], name)
                     /\ Once(schedule[l], name) /\ item.name # name => Once(new[l], name)
                     /\ ~Named(schedule[l], name) => Once(new[l], name)
        /\ \A k \in 1..Len(new[l]) :
              \/ new[l][k] = t
              \/ \E j \in 1..Len(schedule[l]) : new[l][k] = schedule[l][j]
    BY <1>2, <1>3, ScheduledNamed
  <2>2. schedule' = new
    BY <1>1
  <2> HIDE DEF new, item, l, t
  <2> QED
    BY <2>1, <2>2
<1>7. \A name : /\ Named(ctrlWorkList, name) <=>
                       item.name = name \/ Named(ctrlWorkList', name)
                /\ Once(ctrlWorkList, name) =>
                       /\ Once(ctrlWorkList', name)
                       /\ item.name = name => ~Named(ctrlWorkList', name)
  BY <1>1, <1>2, TailNamed
<1>8. \A k \in 1..Len(ctrlWorkList') :
          \E j \in 1..Len(ctrlWorkList) : ctrlWorkList'[k] = ctrlWorkList[j]
  BY <1>1, <1>2, TailElements
<1>9. item.trigger = "NOW" \/ item.trigger = "CYCLE_ONCE" => l = "cycle"
  BY DEF ListOf
<1> HIDE DEF item, l, t
<1>10. Kinds'
  <2>1. \A k \in 1..Len(ctrlWorkList') : Kind(ctrlWorkList'[k])
    BY <1>8 DEF StopInv, Kinds
  <2>2. Kind(t) /\ ListOf(t.trigger) = l
    BY <1>4, <1>5 DEF Kind, l
  <2>3. ASSUME NEW m \in Lists, NEW k \in 1..Len(schedule'[m])
        PROVE  Kind(schedule'[m][k]) /\ ListOf(schedule'[m][k].trigger) = m
    <3>1. \A j \in 1..Len(schedule[m]) :
              Kind(schedule[m][j]) /\ ListOf(schedule[m][j].trigger) = m
      BY DEF StopInv, Kinds
    <3>2. CASE m # l
      BY <1>6, <3>1, <3>2
    <3>3. CASE m = l
      BY <1>6, <2>2, <3>1, <3>3
    <3> QED
      BY <3>2, <3>3
  <2> QED
    BY <2>1, <2>3 DEF Kinds
<1>11. Once(ctrlWorkList', "STOP")
  BY <1>7 DEF StopInv, Counted
<1>12. item.name = "STOP" =>
           /\ Holds("work") /\ ~Named(ctrlWorkList', "STOP")
           /\ \A m \in Lists : ~Named(schedule[m], "STOP")
  <2>1. item.name = "STOP" => Holds("work") /\ ~Named(ctrlWorkList', "STOP")
    BY <1>7, HoldsWork DEF StopInv, Counted
  <2>2. "work" \in Holders /\ \A m \in Lists : m \in Holders /\ m # "work"
    BY DEF Holders, Lists
  <2>3. Holds("work") => \A m \in Lists : ~Holds(m)
    BY <2>2 DEF StopInv, Solo
  <2> QED
    BY <2>1, <2>3, HoldsList
<1>13. Counted'
  <2>1. ASSUME NEW m \in Lists
        PROVE  Once(schedule'[m], "STOP")
    <3>1. Once(schedule[m], "STOP")
      BY DEF StopInv, Counted
    <3>2. CASE m # l
      BY <1>6, <3>1, <3>2
    <3>3. CASE m = l
      BY <1>6, <1>12, <3>1, <3>3
    <3> QED
      BY <3>2, <3>3
  <2> QED
    BY <1>1, <1>11, <2>1 DEF StopInv, Counted
<1>14. Solo'
  <2>1. /\ Holds("report")' => Holds("report")
        /\ Holds("hand")' => Holds("hand")
        /\ Holds("watch")' => Holds("watch")
    <3>1. (InHand' <=> InHand) /\ (watching' <=> watching)
      BY <1>1 DEF InHand
    <3> QED
      BY <1>1, <3>1, HoldsRest
  <2>2. \A m \in Lists : Holds(m)' => Holds(m) \/ (m = l /\ item.name = "STOP")
    BY <1>6, HoldsList
  <2>3. Holds("work")' => Holds("work") /\ item.name # "STOP"
    BY <1>7, <1>12, HoldsWork
  <2>4. CASE item.name = "STOP"
    <3>1. \A p \in Holders : Holds(p)' => p = l \/ (Holds(p) /\ p # "work")
      BY <2>1, <2>2, <2>3, <2>4, HoldersAre DEF Lists
    <3>2. "work" \in Holders
      BY DEF Holders
    <3> QED
      BY <1>12, <2>4, <3>1, <3>2, SoloMoved DEF StopInv
  <2>5. CASE item.name # "STOP"
    BY <2>1, <2>2, <2>3, <2>5, HoldersAre, SoloFewer DEF StopInv
  <2> QED
    BY <2>4, <2>5
<1>15. Track'
  <2> SUFFICES ASSUME bmStopType = "cycle"
               PROVE  /\ bmStopTime > 0
                      /\ AllDue(bmStopTime)'
                      /\ Starting' => StartSafe'
                      /\ StopAsked' \/ StopScheduled' \/ StopBeen'
    BY <1>1 DEF Track
  <2>1. /\ bmStopTime > 0 /\ AllDue(bmStopTime)
        /\ Starting => StartSafe
        /\ StopAsked \/ StopScheduled \/ StopBeen
    BY DEF StopInv, Track
  <2>2. Due(item, bmStopTime)
    BY <1>3, <2>1 DEF AllDue
  <2>3. item.name \in Special => ~Periodic(item.trigger) /\ l = "cycle"
    BY <1>4, <1>9, <2>2 DEF Kind, Due, Special, Periodic
  <2>4. Due(t, bmStopTime)
    BY <1>5, <2>2, <2>3 DEF Due, Special
  <2>5. AllDue(bmStopTime)'
    <3>1. \A k \in 1..Len(ctrlWorkList') : Due(ctrlWorkList'[k], bmStopTime)
      BY <1>8, <2>1 DEF AllDue
    <3>2. ASSUME NEW m \in Lists, NEW k \in 1..Len(schedule'[m])
          PROVE  Due(schedule'[m][k], bmStopTime)
      <4>1. \A j \in 1..Len(schedule[m]) : Due(schedule[m][j], bmStopTime)
        BY <2>1 DEF AllDue
      <4>2. CASE m # l
        BY <1>6, <4>1, <4>2
      <4>3. CASE m = l
        BY <1>6, <2>4, <4>1, <4>3
      <4> QED
        BY <4>2, <4>3
    <3> QED
      BY <1>1, <3>1, <3>2 DEF AllDue
  <2>6. ASSUME NEW name \in Special
        PROVE  /\ Named(ctrlWorkList', name) => Named(ctrlWorkList, name)
               /\ Named(schedule["cycle"], name) => Named(schedule'["cycle"], name)
               /\ Named(schedule'["cycle"], name) =>
                      Named(ctrlWorkList, name) \/ Named(schedule["cycle"], name)
               /\ Named(ctrlWorkList, name) =>
                      Named(ctrlWorkList', name) \/ Named(schedule'["cycle"], name)
    <3>1. "cycle" \in Lists
      BY DEF Lists
    <3>2. /\ Named(schedule["cycle"], name) => Named(schedule'["cycle"], name)
          /\ Named(schedule'["cycle"], name) =>
                 item.name = name \/ Named(schedule["cycle"], name)
      BY <1>6, <3>1
    <3>3. item.name = name => Named(schedule'["cycle"], name)
      BY <1>6, <2>3
    <3> QED
      BY <1>7, <3>2, <3>3
  <2>7. Ending => Ending'
    BY <1>1, <2>6 DEF Ending, Special
  <2>8. Starting' => Starting
    BY <2>6 DEF Starting, Special
  <2>9. /\ StopScheduled => StopScheduled'
        /\ StopBeen => StopBeen'
        /\ StopAsked => StopAsked' \/ (StopScheduled' /\ clock["cycle"] < bmStopTime)
    BY <1>1, <2>6, <2>7, <2>8 DEF StopScheduled, StopBeen, StopAsked, Special
  <2>10. Starting' => StartSafe'
    <3>1. CASE Ending
      BY <2>7, <3>1 DEF StartSafe
    <3>2. CASE ~Ending /\ Starting
      <4>1. StartSafe /\ ~StopBeen
        BY <2>1, <3>2 DEF StopBeen
      <4>2. CASE Named(ctrlWorkList, "STOP")
        <5>1. ~StopScheduled
          <6>1. "work" \in Holders /\ "cycle" \in Holders /\ "cycle" \in Lists
            BY DEF Holders, Lists
          <6>2. Holds("work")
            BY <4>2, HoldsWork
          <6>3. ~Holds("cycle")
            BY <6>1, <6>2 DEF StopInv, Solo
          <6> QED
            BY <6>1, <6>3, HoldsList DEF StopScheduled
        <5>2. StopAsked
          BY <2>1, <4>1, <5>1
        <5> QED
          BY <1>1, <2>9, <5>2 DEF StartSafe, StopAsked, StopScheduled
      <4>3. CASE Named(schedule["cycle"], "STOP") /\ clock["cycle"] < bmStopTime
        BY <1>1, <2>6, <4>3 DEF StartSafe, Special
      <4> QED
        BY <3>2, <4>1, <4>2, <4>3 DEF StartSafe
    <3> QED
      BY <2>8, <3>1, <3>2
  <2> QED
    BY <2>1, <2>5, <2>9, <2>10
<1>16. Still'
  BY <1>1 DEF StopInv, Still
<1>17. PlaceInv'
  BY <1>1 DEF PlaceInv, Watch, Idle, NowGone, Clocking
<1> QED
  BY <1>10, <1>13, <1>14, <1>15, <1>16, <1>17 DEF StopInv

(* What is known of each item, when the new ones are no stops.             *)
LEMMA ItemsKept ==
    ASSUME Kinds, UNCHANGED bmStopTime,
           \A k \in 1..Len(ctrlWorkList') :
              \/ \E j \in 1..Len(ctrlWorkList) : ctrlWorkList'[k] = ctrlWorkList[j]
              \/ Kind(ctrlWorkList'[k]) /\ ctrlWorkList'[k].name # "STOP",
           \A m \in Lists : \A k \in 1..Len(schedule'[m]) :
              \/ \E j \in 1..Len(schedule[m]) : schedule'[m][k] = schedule[m][j]
              \/ /\ Kind(schedule'[m][k]) /\ ListOf(schedule'[m][k].trigger) = m
                 /\ schedule'[m][k].name # "STOP"
    PROVE  /\ Kinds'
           /\ AllDue(bmStopTime) => AllDue(bmStopTime)'
<1>1. Kinds'
  BY DEF Kinds
<1>2. ASSUME AllDue(bmStopTime)
      PROVE  AllDue(bmStopTime)'
  <2>1. \A k \in 1..Len(ctrlWorkList') : Due(ctrlWorkList'[k], bmStopTime)
    BY <1>2 DEF AllDue, Due
  <2>2. \A m \in Lists : \A k \in 1..Len(schedule'[m]) : Due(schedule'[m][k], bmStopTime)
    BY <1>2 DEF AllDue, Due
  <2> QED
    BY <2>1, <2>2 DEF AllDue
<1> QED
  BY <1>1, <1>2

LEMMA DrainClearingRun ==
    ASSUME TypeOK, StopInv, PlaceInv, UNCHANGED wbVars, DrainClearing
    PROVE  StopInv' /\ PlaceInv'
<1> DEFINE item == Head(ctrlWorkList)
           l    == item.arg
<1>1. /\ pc = "drain" /\ ctrlWorkList # << >> /\ item.name = "CLEARPROGRESS"
      /\ \/ /\ ProgressAt(schedule[l]) # {}
            /\ schedule' = [schedule EXCEPT ![l] = WithoutFirstProgress(@)]
            /\ UNCHANGED ctrlWorkList
         \/ ctrlWorkList' = Tail(ctrlWorkList) /\ UNCHANGED schedule
      /\ UNCHANGED << pc, clock, pmStopped, pmExiting, pendingProgress >>
      /\ UNCHANGED << wb, bmStopType, bmStopTime, watching >>
  BY DEF DrainClearing, sysVars, wbVars
<1>2. ctrlWorkList \in Seq(WorkItems) /\ schedule \in [Lists -> Seq(WorkItems)]
  BY DEF TypeOK
<1>3. item \in WorkItems
  BY <1>1, <1>2, HeadTailProperties
<1>4. l \in Lists
  BY <1>1, <1>3 DEF WorkItems
<1>5. Kinds /\ Counted
  BY DEF StopInv
<1> HIDE DEF item, l
<1>6. /\ \A name \in Special :
            /\ Named(ctrlWorkList', name) <=> Named(ctrlWorkList, name)
            /\ \A m \in Lists : Named(schedule'[m], name) <=> Named(schedule[m], name)
      /\ Once(ctrlWorkList', "STOP") /\ \A m \in Lists : Once(schedule'[m], "STOP")
      /\ \A k \in 1..Len(ctrlWorkList') :
            \E j \in 1..Len(ctrlWorkList) : ctrlWorkList'[k] = ctrlWorkList[j]
      /\ \A m \in Lists : \A k \in 1..Len(schedule'[m]) :
            \E j \in 1..Len(schedule[m]) : schedule'[m][k] = schedule[m][j]
  <2>1. CASE /\ ProgressAt(schedule[l]) # {}
             /\ schedule' = [schedule EXCEPT ![l] = WithoutFirstProgress(@)]
             /\ UNCHANGED ctrlWorkList
    <3>1. schedule[l] \in Seq(WorkItems)
      BY <1>2, <1>4
    <3>2. /\ schedule'[l] = WithoutFirstProgress(schedule[l])
          /\ \A m \in Lists : m # l => schedule'[m] = schedule[m]
      BY <1>2, <1>4, <2>1
    <3>3. \A name \in Special : /\ Named(schedule'[l], name) <=> Named(schedule[l], name)
                                /\ Once(schedule[l], name) => Once(schedule'[l], name)
      BY <2>1, <3>1, <3>2, RemoveNamed DEF Special
    <3>4. \A k \in 1..Len(schedule'[l]) :
              \E j \in 1..Len(schedule[l]) : schedule'[l][k] = schedule[l][j]
      BY <2>1, <3>1, <3>2, RemoveElements
    <3>5. ASSUME NEW m \in Lists
          PROVE  /\ \A name \in Special : Named(schedule'[m], name) <=> Named(schedule[m], name)
                 /\ Once(schedule'[m], "STOP")
                 /\ \A k \in 1..Len(schedule'[m]) :
                       \E j \in 1..Len(schedule[m]) : schedule'[m][k] = schedule[m][j]
      <4>1. Once(schedule[m], "STOP")
        BY <1>5 DEF Counted
      <4>2. CASE m = l
        BY <3>3, <3>4, <4>1, <4>2 DEF Special
      <4>3. CASE m # l
        BY <3>2, <4>1, <4>3
      <4> QED
        BY <4>2, <4>3
    <3> QED
      BY <1>5, <2>1, <3>5 DEF Counted
  <2>2. CASE ctrlWorkList' = Tail(ctrlWorkList) /\ UNCHANGED schedule
    <3>1. \A name : /\ Named(ctrlWorkList, name) <=>
                           item.name = name \/ Named(ctrlWorkList', name)
                    /\ Once(ctrlWorkList, name) => Once(ctrlWorkList', name)
      BY <1>1, <1>2, <2>2, TailNamed DEF item
    <3>2. \A k \in 1..Len(ctrlWorkList') :
              \E j \in 1..Len(ctrlWorkList) : ctrlWorkList'[k] = ctrlWorkList[j]
      BY <1>1, <1>2, <2>2, TailElements
    <3> QED
      BY <1>1, <1>5, <2>2, <3>1, <3>2 DEF Counted, Special
  <2> QED
    BY <1>1, <2>1, <2>2
<1>7. Kinds' /\ (AllDue(bmStopTime) => AllDue(bmStopTime)')
  BY <1>1, <1>5, <1>6, ItemsKept
<1>8. "STOP" \in Special /\ "cycle" \in Lists
  BY DEF Special, Lists
<1>9. Counted' /\ Solo'
  <2>1. \A j, k \in StopReports(pendingProgress') : j = k
    BY <1>1, <1>5 DEF Counted
  <2> QED
    BY <1>1, <1>6, <1>8, <2>1, SameStop
<1>10. Track'
  BY <1>1, <1>6, <1>7, <1>8, SameTrack
<1>11. Still'
  BY <1>1 DEF StopInv, Still
<1>12. PlaceInv'
  BY <1>1 DEF PlaceInv, Watch, Idle, NowGone, Clocking
<1> QED
  BY <1>7, <1>9, <1>10, <1>11, <1>12 DEF StopInv

(* What an event leaves on its list, on the work list and in the reports.  *)
LEMMA EventSchedule ==
    ASSUME TypeOK, Kinds, NEW l \in Lists, ProcessEvent(l)
    PROVE  LET item == Head(schedule[l]) IN
           /\ item \in WorkItems /\ Kind(item) /\ ListOf(item.trigger) = l
           /\ \E j \in 1..Len(schedule[l]) : item = schedule[l][j]
           /\ Named(schedule[l], item.name)
           /\ \A m \in Lists : m # l => schedule'[m] = schedule[m]
           /\ \A name : name # item.name =>
                 /\ Named(schedule'[l], name) <=> Named(schedule[l], name)
                 /\ Once(schedule[l], name) => Once(schedule'[l], name)
           /\ item.name \in Special =>
                 /\ Named(schedule'[l], item.name) => Named(schedule[l], item.name)
                 /\ Once(schedule[l], item.name) =>
                       Once(schedule'[l], item.name) /\ ~Named(schedule'[l], item.name)
           /\ \A k \in 1..Len(schedule'[l]) :
                 \/ \E j \in 1..Len(schedule[l]) : schedule'[l][k] = schedule[l][j]
                 \/ /\ Kind(schedule'[l][k]) /\ ListOf(schedule'[l][k].trigger) = l
                    /\ schedule'[l][k].name # "STOP"
<1> DEFINE item == Head(schedule[l])
           tail == Tail(schedule[l])
           rest == [schedule EXCEPT ![l] = tail]
           t    == Timed(item, now)
<1>1. /\ schedule \in [Lists -> Seq(WorkItems)] /\ now \in [Lists -> Nat]
      /\ schedule[l] \in Seq(WorkItems) /\ schedule[l] # << >>
  BY DEF TypeOK, ProcessEvent, Ready
<1>2. /\ item \in WorkItems /\ item = schedule[l][1] /\ 1 \in 1..Len(schedule[l])
      /\ tail \in Seq(WorkItems)
  BY <1>1, HeadTailProperties, EmptySeq
<1>3. Kind(item) /\ ListOf(item.trigger) = l
  BY <1>2 DEF Kinds
<1>4. \A name : /\ Named(schedule[l], name) <=> item.name = name \/ Named(tail, name)
                /\ Once(schedule[l], name) =>
                      /\ Once(tail, name)
                      /\ item.name = name => ~Named(tail, name)
  BY <1>1, TailNamed
<1>5. \A k \in 1..Len(tail) : \E j \in 1..Len(schedule[l]) : tail[k] = schedule[l][j]
  BY <1>1, TailElements
<1>6. /\ rest \in [Lists -> Seq(WorkItems)] /\ rest[l] = tail
      /\ \A m \in Lists : m # l => rest[m] = schedule[m]
  BY <1>1, <1>2
<1>7. schedule' = IF Periodic(item.trigger) THEN Scheduled(rest, item, now) ELSE rest
  BY DEF ProcessEvent
<1>8. t.name = item.name /\ t.arg = item.arg /\ t.trigger = item.trigger
  BY <1>2, TimedNamed
<1>9. item.name \in Special => ~Periodic(item.trigger)
  BY <1>3 DEF Kind, Special, Periodic
<1>10. Kind(t) /\ ListOf(t.trigger) = l
  BY <1>3, <1>8 DEF Kind
<1> HIDE DEF item, tail, rest, t
<1>11. CASE ~Periodic(item.trigger)
  <2>1. schedule'[l] = tail /\ \A m \in Lists : m # l => schedule'[m] = schedule[m]
    BY <1>6, <1>7, <1>11
  <2> QED
    BY <1>2, <1>3, <1>4, <1>5, <2>1 DEF item
<1>12. CASE Periodic(item.trigger)
  <2> DEFINE new == Scheduled(rest, item, now)
  <2>1. /\ \A m \in Lists : m # l => new[m] = rest[m]
        /\ \A name : /\ Named(new[l], name) <=> item.name = name \/ Named(rest[l], name)
                     /\ Once(rest[l], name) /\ item.name # name => Once(new[l], name)
        /\ \A k \in 1..Len(new[l]) :
              \/ new[l][k] = t
              \/ \E j \in 1..Len(rest[l]) : new[l][k] = rest[l][j]
    <3> DEFINE m0 == ListOf(item.trigger)
    <3>1. /\ \A m \in Lists : m # m0 => new[m] = rest[m]
          /\ \A name : /\ Named(new[m0], name) <=> item.name = name \/ Named(rest[m0], name)
                       /\ Once(rest[m0], name) /\ item.name # name => Once(new[m0], name)
          /\ \A k \in 1..Len(new[m0]) :
                \/ new[m0][k] = Timed(item, now)
                \/ \E j \in 1..Len(rest[m0]) : new[m0][k] = rest[m0][j]
      <4>1. rest \in [Lists -> Seq(WorkItems)] /\ item \in WorkItems
            /\ now \in [Lists -> Nat]
        BY <1>1, <1>2, <1>6
      <4> QED
        BY <4>1, ScheduledNamed, Zenon
    <3>2. m0 = l
      BY <1>3
    <3> HIDE DEF new, m0
    <3> QED
      BY <3>1, <3>2 DEF t
  <2>2. schedule' = new
    BY <1>7, <1>12
  <2> HIDE DEF new
  <2>3. \A m \in Lists : m # l => schedule'[m] = schedule[m]
    BY <1>6, <2>1, <2>2
  <2>4. \A name : name # item.name =>
                 /\ Named(schedule'[l], name) <=> Named(schedule[l], name)
                 /\ Once(schedule[l], name) => Once(schedule'[l], name)
    BY <1>4, <1>6, <2>1, <2>2
  <2>5. \A k \in 1..Len(schedule'[l]) :
            \/ \E j \in 1..Len(schedule[l]) : schedule'[l][k] = schedule[l][j]
            \/ /\ Kind(schedule'[l][k]) /\ ListOf(schedule'[l][k].trigger) = l
               /\ schedule'[l][k].name # "STOP"
    <3>1. item.name # "STOP"
      BY <1>9, <1>12 DEF Special
    <3> SUFFICES ASSUME NEW k \in 1..Len(schedule'[l])
                 PROVE  \/ \E j \in 1..Len(schedule[l]) : schedule'[l][k] = schedule[l][j]
                        \/ schedule'[l][k] = t
      BY <1>8, <1>10, <3>1
    <3>2. CASE schedule'[l][k] = t
      BY <3>2
    <3>3. CASE \E j \in 1..Len(tail) : schedule'[l][k] = tail[j]
      BY <1>5, <3>3
    <3> QED
      BY <1>6, <2>1, <2>2, <3>2, <3>3
  <2>6. item.name \notin Special
    BY <1>9, <1>12
  <2> QED
    BY <1>2, <1>3, <1>4, <2>3, <2>4, <2>5, <2>6 DEF item
<1> QED
  BY <1>11, <1>12

LEMMA EventWork ==
    ASSUME TypeOK, Kinds, OnlyThreads, Once(ctrlWorkList, "STOP"),
           NEW item, PmAction(item)
    PROVE  /\ \A name \in Special : Named(ctrlWorkList', name) <=> Named(ctrlWorkList, name)
           /\ Once(ctrlWorkList', "STOP")
           /\ \A k \in 1..Len(ctrlWorkList') :
                 \/ \E j \in 1..Len(ctrlWorkList) : ctrlWorkList'[k] = ctrlWorkList[j]
                 \/ Kind(ctrlWorkList'[k]) /\ ctrlWorkList'[k].name # "STOP"
<1>1. CASE UNCHANGED ctrlWorkList
  BY <1>1
<1>2. CASE \E c \in FeederCommands : Enlist(c)
  <2>1. PICK c \in FeederCommands : Enlist(c)
    BY <1>2
  <2>2. /\ c \in Asked /\ c.name \notin Special
        /\ \A name \in Special : ~Named(<< c >>, name)
    BY ThreadsSpeak
  <2>3. << c >> \in Seq(Asked) /\ Grown(<< c >>)
    BY <2>1, <2>2, EnlistGrown
  <2>4. \A name \in Special : Named(ctrlWorkList', name) <=> Named(ctrlWorkList, name)
    BY <2>2, <2>3, GrownNamed
  <2>5. Once(ctrlWorkList', "STOP")
    BY <2>2, <2>3, GrownNamed DEF Special
  <2>6. ASSUME NEW k \in 1..Len(ctrlWorkList')
        PROVE  \/ \E j \in 1..Len(ctrlWorkList) : ctrlWorkList'[k] = ctrlWorkList[j]
               \/ Kind(ctrlWorkList'[k]) /\ ctrlWorkList'[k].name # "STOP"
    <3>1. CASE \E i \in 1..Len(<< c >>) : k = Len(ctrlWorkList) + i
      <4>1. k = Len(ctrlWorkList) + 1 /\ 1 \in 1..Len(<< c >>) /\ << c >>[1] = c
        BY <3>1
      <4>2. /\ ctrlWorkList'[k].name = c.name /\ ctrlWorkList'[k].arg = c.arg
            /\ ctrlWorkList'[k].trigger = c.trigger
        BY <2>3, <4>1 DEF Grown
      <4>3. Kind(c)
        BY <2>2 DEF Asked
      <4> QED
        BY <2>2, <4>2, <4>3 DEF Kind, Special
    <3> QED
      BY <2>3, <3>1, GrownAt
  <2> QED
    BY <2>4, <2>5, <2>6
<1> QED
  BY <1>1, <1>2 DEF PmAction

LEMMA EventReports ==
    ASSUME TypeOK, NEW item \in WorkItems, Kind(item), AWB_Progress(item),
           \A j, k \in StopReports(pendingProgress) : j = k
    PROVE  /\ StopReports(pendingProgress') # {} =>
                  item.name = "STOP" \/ StopReports(pendingProgress) # {}
           /\ item.name # "STOP" \/ StopReports(pendingProgress) = {} =>
                  \A j, k \in StopReports(pendingProgress') : j = k
<1> DEFINE r == [type |-> ReportType(item), arg |-> item.arg]
<1>1. pendingProgress' = pendingProgress \/ pendingProgress' = Append(pendingProgress, r)
  BY DEF AWB_Progress
<1>2. r.type = "stop" => item.name = "STOP"
  <2>1. ReportType(item) = "stop" => item.name = "STOP" \/ item.name = "PROGRESS"
    BY DEF ReportType
  <2>2. item.name = "PROGRESS" => ReportType(item) \in Lists
    BY DEF ReportType, Kind
  <2> QED
    BY <2>1, <2>2 DEF Lists
<1>3. pendingProgress \in Seq(Reports)
  BY DEF TypeOK
<1> HIDE DEF r
<1> QED
  BY <1>1, <1>2, <1>3, AppendReports

LEMMA EventMoves ==
    ASSUME TypeOK, OnlyThreads, StopInv, UNCHANGED wbVars, NEW l \in Lists,
           ProcessEvent(l)
    PROVE  /\ Kinds' /\ Counted' /\ Solo'
           /\ AllDue(bmStopTime) => AllDue(bmStopTime)'
<1> DEFINE item == Head(schedule[l])
<1>1. /\ PmAction(item) /\ AWB_Progress(item)
      /\ UNCHANGED << wb, bmStopType, bmStopTime, watching >>
  BY DEF ProcessEvent, CmdAction, wbVars
<1>2. Kinds /\ Counted /\ Solo
  BY DEF StopInv
<1>3. /\ item \in WorkItems /\ Kind(item)
      /\ Named(schedule[l], item.name)
      /\ \A m \in Lists : m # l => schedule'[m] = schedule[m]
      /\ \A name : name # item.name =>
            /\ Named(schedule'[l], name) <=> Named(schedule[l], name)
            /\ Once(schedule[l], name) => Once(schedule'[l], name)
      /\ item.name \in Special =>
            /\ Named(schedule'[l], item.name) => Named(schedule[l], item.name)
            /\ Once(schedule[l], item.name) =>
                  Once(schedule'[l], item.name) /\ ~Named(schedule'[l], item.name)
      /\ \A k \in 1..Len(schedule'[l]) :
            \/ \E j \in 1..Len(schedule[l]) : schedule'[l][k] = schedule[l][j]
            \/ /\ Kind(schedule'[l][k]) /\ ListOf(schedule'[l][k].trigger) = l
               /\ schedule'[l][k].name # "STOP"
  BY <1>2, EventSchedule
<1> HIDE DEF item
<1>4. /\ Named(ctrlWorkList', "STOP") <=> Named(ctrlWorkList, "STOP")
      /\ Once(ctrlWorkList', "STOP")
      /\ \A k \in 1..Len(ctrlWorkList') :
            \/ \E j \in 1..Len(ctrlWorkList) : ctrlWorkList'[k] = ctrlWorkList[j]
            \/ Kind(ctrlWorkList'[k]) /\ ctrlWorkList'[k].name # "STOP"
  <2>1. Once(ctrlWorkList, "STOP")
    BY <1>2 DEF Counted
  <2> QED
    BY <1>1, <1>2, <2>1, EventWork DEF Special
<1>5. /\ StopReports(pendingProgress') # {} =>
             item.name = "STOP" \/ StopReports(pendingProgress) # {}
      /\ item.name # "STOP" \/ StopReports(pendingProgress) = {} =>
             \A j, k \in StopReports(pendingProgress') : j = k
  BY <1>1, <1>2, <1>3, EventReports DEF Counted
<1>6. Kinds' /\ (AllDue(bmStopTime) => AllDue(bmStopTime)')
  <2>1. \A m \in Lists : \A k \in 1..Len(schedule'[m]) :
            \/ \E j \in 1..Len(schedule[m]) : schedule'[m][k] = schedule[m][j]
            \/ /\ Kind(schedule'[m][k]) /\ ListOf(schedule'[m][k].trigger) = m
               /\ schedule'[m][k].name # "STOP"
    <3> SUFFICES ASSUME NEW m \in Lists, NEW k \in 1..Len(schedule'[m])
                 PROVE  \/ \E j \in 1..Len(schedule[m]) : schedule'[m][k] = schedule[m][j]
                        \/ /\ Kind(schedule'[m][k]) /\ ListOf(schedule'[m][k].trigger) = m
                           /\ schedule'[m][k].name # "STOP"
      OBVIOUS
    <3>1. CASE m = l
      BY <1>3, <3>1
    <3>2. CASE m # l
      BY <1>3, <3>2
    <3> QED
      BY <3>1, <3>2
  <2> QED
    BY <1>1, <1>2, <1>4, <2>1, ItemsKept
<1>7. \A m \in Lists : Once(schedule'[m], "STOP")
  <2> SUFFICES ASSUME NEW m \in Lists
               PROVE  Once(schedule'[m], "STOP")
    OBVIOUS
  <2>1. Once(schedule[m], "STOP")
    BY <1>2 DEF Counted
  <2>2. CASE m # l
    BY <1>3, <2>1, <2>2
  <2>3. CASE m = l /\ item.name = "STOP"
    BY <1>3, <2>1, <2>3 DEF Special
  <2>4. CASE m = l /\ item.name # "STOP"
    BY <1>3, <2>1, <2>4
  <2> QED
    BY <2>2, <2>3, <2>4
<1>8. CASE item.name # "STOP"
  <2>1. \A m \in Lists : Named(schedule'[m], "STOP") => Named(schedule[m], "STOP")
    BY <1>3, <1>8
  <2> QED
    BY <1>1, <1>4, <1>5, <1>6, <1>7, <1>8, <2>1, SameStop
<1>9. CASE item.name = "STOP"
  <2>1. l \in Holders /\ Holds(l) /\ l # "report" /\ l # "work" /\ l # "hand" /\ l # "watch"
    BY <1>3, <1>9, HoldsList DEF Holders, Lists
  <2>2. StopReports(pendingProgress) = {}
    <3>1. "report" \in Holders
      BY DEF Holders
    <3> QED
      BY <1>2, <2>1, <3>1, HoldsRest DEF Solo
  <2>3. Counted'
    BY <1>4, <1>5, <1>7, <2>2 DEF Counted
  <2>4. Once(schedule[l], "STOP")
    BY <1>2 DEF Counted
  <2>5. ~Named(schedule'[l], "STOP")
    BY <1>3, <1>9, <2>4 DEF Special
  <2>6. Holds("work")' => Holds("work")
    BY <1>4, HoldsWork
  <2>7. ASSUME NEW m \in Lists
        PROVE  Holds(m)' => Holds(m) /\ m # l
    BY <1>3, <2>5, HoldsList
  <2>8. /\ Holds("hand")' => Holds("hand")
        /\ Holds("watch")' => Holds("watch")
    BY <1>1, HoldsRest DEF InHand
  <2>9. \A p \in Holders : Holds(p)' => p = "report" \/ (Holds(p) /\ p # l)
    BY <2>1, <2>6, <2>7, <2>8, HoldersAre
  <2>10. Solo'
    <3>1. "report" \in Holders
      BY DEF Holders
    <3> QED
      BY <1>2, <2>1, <2>9, <3>1, SoloMoved
  <2> QED
    BY <1>6, <2>3, <2>10
<1> QED
  BY <1>8, <1>9

LEMMA EventTrack ==
    ASSUME TypeOK, TimeInv, OnlyThreads, StopInv, UNCHANGED wbVars, pc = "ready",
           NEW l \in Lists, ProcessEvent(l), AllDue(bmStopTime) => AllDue(bmStopTime)'
    PROVE  Track'
<1> DEFINE item == Head(schedule[l])
<1>1. /\ Ready(schedule, l, now) /\ PmAction(item)
      /\ pmStopped' = CASE item.name = "START" -> FALSE
                        [] item.name = "STOP"  -> TRUE
                        [] OTHER               -> pmStopped
      /\ pmExiting' = (pmExiting \/ item.name = "EXIT")
      /\ UNCHANGED << clock, bmStopType, bmStopTime >>
  BY DEF ProcessEvent, CmdAction, wbVars
<1>2. Kinds /\ Counted /\ Solo /\ Track
  BY DEF StopInv
<1>3. /\ item \in WorkItems /\ Kind(item) /\ ListOf(item.trigger) = l
      /\ \E j \in 1..Len(schedule[l]) : item = schedule[l][j]
      /\ Named(schedule[l], item.name)
      /\ \A m \in Lists : m # l => schedule'[m] = schedule[m]
      /\ \A name : name # item.name =>
            /\ Named(schedule'[l], name) <=> Named(schedule[l], name)
      /\ item.name \in Special =>
            /\ Named(schedule'[l], item.name) => Named(schedule[l], item.name)
  BY <1>2, EventSchedule
<1>4. \A name \in Special : Named(ctrlWorkList', name) <=> Named(ctrlWorkList, name)
  BY <1>1, <1>2, EventWork DEF Counted
<1>5. "cycle" \in Lists
  BY DEF Lists
<1>6. Ready(schedule, l, now) => item.trigger = "NOW" \/ l \notin Exact
                                 \/ item.actionTime = now[l]
  BY DEF Ready
<1> HIDE DEF item
<1>7. \A name \in Special : name # item.name =>
          (Named(schedule'["cycle"], name) <=> Named(schedule["cycle"], name))
  BY <1>3, <1>5
<1>8. /\ Named(ctrlWorkList', "STOP") <=> Named(ctrlWorkList, "STOP")
      /\ Named(ctrlWorkList', "START") <=> Named(ctrlWorkList, "START")
      /\ Named(ctrlWorkList', "EXIT") <=> Named(ctrlWorkList, "EXIT")
      /\ item.name # "STOP" =>
            (Named(schedule'["cycle"], "STOP") <=> Named(schedule["cycle"], "STOP"))
      /\ item.name # "START" =>
            (Named(schedule'["cycle"], "START") <=> Named(schedule["cycle"], "START"))
      /\ item.name # "EXIT" =>
            (Named(schedule'["cycle"], "EXIT") <=> Named(schedule["cycle"], "EXIT"))
  BY <1>4, <1>7 DEF Special
<1> SUFFICES ASSUME bmStopType = "cycle"
             PROVE  /\ bmStopTime > 0
                    /\ AllDue(bmStopTime)'
                    /\ Starting' => StartSafe'
                    /\ StopAsked' \/ StopScheduled' \/ StopBeen'
  BY <1>1 DEF Track
<1>9. /\ bmStopTime > 0 /\ AllDue(bmStopTime) /\ AllDue(bmStopTime)'
      /\ Starting => StartSafe
      /\ StopAsked \/ StopScheduled \/ StopBeen
  BY <1>2 DEF Track
<1>10. CASE item.name \notin Special
  <2>1. UNCHANGED << pmStopped, pmExiting >>
    <3>1. item.name # "START" /\ item.name # "STOP" /\ item.name # "EXIT"
      BY <1>10 DEF Special
    <3>2. pmExiting \in BOOLEAN
      BY DEF TypeOK
    <3> QED
      BY <1>1, <3>1, <3>2
  <2>2. \A name \in Special :
            /\ Named(ctrlWorkList', name) <=> Named(ctrlWorkList, name)
            /\ Named(schedule'["cycle"], name) <=> Named(schedule["cycle"], name)
    BY <1>4, <1>7, <1>10
  <2>3. Track'
    BY <1>1, <1>9, <2>1, <2>2, SameTrack
  <2> QED
    BY <1>1, <2>3 DEF Track
<1>11. CASE item.name = "STOP"
  <2>1. item.trigger = "CYCLE_ONCE" /\ item.actionTime = bmStopTime
    BY <1>3, <1>9, <1>11 DEF AllDue, Due
  <2>2. l = "cycle" /\ l \in Exact
    BY <1>3, <2>1 DEF ListOf, Exact
  <2>3. clock["cycle"] = bmStopTime
    <3>1. now = clock
      BY DEF TimeInv, Sampled
    <3> QED
      BY <1>1, <1>6, <2>1, <2>2, <3>1
  <2>4. ~Named(ctrlWorkList, "STOP")
    <3>1. Named(schedule["cycle"], "STOP")
      BY <1>3, <1>11, <2>2
    <3>2. Holds("cycle") /\ "cycle" \in Holders /\ "work" \in Holders
      BY <1>5, <3>1, HoldsList DEF Holders
    <3> QED
      BY <1>2, <3>2, HoldsWork DEF Solo
  <2>5. Starting => Ending
    <3>1. bmStopTime \in Int
      BY <1>3, <2>1 DEF WorkItems, Items
    <3>2. ~(clock["cycle"] < bmStopTime)
      BY <2>3, <3>1
    <3> QED
      BY <1>9, <2>4, <3>2 DEF StartSafe
  <2>6. (Starting' <=> Starting) /\ (Ending' <=> Ending) /\ pmStopped'
    BY <1>1, <1>8, <1>11 DEF Starting, Ending
  <2>7. StopBeen' /\ (Starting' => StartSafe')
    BY <1>1, <2>3, <2>5, <2>6 DEF StopBeen, StartSafe
  <2> QED
    BY <1>1, <1>9, <2>7
<1>12. CASE item.name = "START" \/ item.name = "EXIT"
  <2>1. l = "cycle"
    BY <1>3, <1>12 DEF Kind, ListOf
  <2>2. Starting' => Starting
    BY <1>3, <1>8, <1>12, <2>1 DEF Starting, Special
  <2>3. Ending => Ending'
    BY <1>1, <1>8, <1>12 DEF Ending
  <2>4. item.name = "EXIT" => Ending'
    BY <1>1 DEF Ending
  <2>5. item.name = "START" => Starting
    BY <1>3, <2>1 DEF Starting
  <2>6. StartSafe => StartSafe'
    BY <1>1, <1>8, <1>12, <2>3 DEF StartSafe
  <2>7. /\ StopAsked => StopAsked'
        /\ StopScheduled => StopScheduled'
    BY <1>1, <1>8, <1>12 DEF StopAsked, StopScheduled
  <2>8. StopBeen => StopBeen'
    BY <1>1, <1>12, <2>3, <2>4, <2>5 DEF StopBeen
  <2> QED
    BY <1>1, <1>9, <2>2, <2>6, <2>7, <2>8
<1> QED
  BY <1>10, <1>11, <1>12 DEF Special

LEMMA ReadyEventRun ==
    ASSUME TypeOK, TimeInv, pc' # "aborted", OnlyThreads, StopInv, PlaceInv,
           UNCHANGED wbVars, ReadyEvent
    PROVE  StopInv' /\ PlaceInv'
<1>1. pc = "ready"
  BY DEF ReadyEvent
<1>2. CASE \E l \in Lists : ProcessEvent(l)
  <2>1. PICK l \in Lists : ProcessEvent(l)
    BY <1>2
  <2>2. Kinds' /\ Counted' /\ Solo' /\ (AllDue(bmStopTime) => AllDue(bmStopTime)')
    BY <2>1, EventMoves
  <2>3. Track'
    BY <1>1, <2>1, <2>2, EventTrack
  <2>4. UNCHANGED << pc, clock, wb, watching, bmStopType, markerHit >>
    BY <2>1 DEF ProcessEvent, wbVars
  <2>5. Still'
    BY <2>4 DEF StopInv, Still
  <2>6. PlaceInv'
    BY <1>1, <2>4 DEF PlaceInv, Watch, Idle, NowGone, Clocking
  <2> QED
    BY <2>2, <2>3, <2>5, <2>6 DEF StopInv
<1>3. CASE pc' = "crashed" /\ UNCHANGED << ctrlVars, sysVars >>
  <2>1. UNCHANGED << ctrlWorkList, schedule, clock, pmStopped, pmExiting,
                     pendingProgress, wb, bmStopType, bmStopTime, watching >>
    BY <1>3 DEF ctrlVars, sysVars, wbVars
  <2>2. StopInv'
    BY <2>1, CalmKeeps
  <2>3. PlaceInv'
    BY <1>3, <2>1 DEF PlaceInv, Watch, Idle, NowGone, Clocking
  <2> QED
    BY <2>2, <2>3
<1> QED
  <2>1. PICK k \in 1..Len(ReadyOrder) : ProcessEvent(ReadyOrder[k]) \/ Dies(ReadyOrder[k])
    BY DEF ReadyEvent
  <2>2. ReadyOrder[k] \in Lists
    BY ReadyOrderLists
  <2> QED
    BY <1>2, <1>3, <2>1, <2>2 DEF Dies

-----------------------------------------------------------------------------
(***************************************************************************)
(* The runs of a script follow each other in order.                        *)
(***************************************************************************)
LEMMA RunInit == WbInit => RunInv
<1> SUFFICES ASSUME WbInit
             PROVE  StopInv /\ PlaceInv
  BY DEF RunInv
<1>1. /\ pc = "main" /\ ctrlWorkList = << >> /\ pendingProgress = << >>
      /\ schedule = EmptySchedule /\ ~watching /\ wb = "reports"
      /\ clock["cycle"] = 0
  <2>1. Init /\ ~watching /\ wb = "reports"
    BY Zenon DEF WbInit
  <2> QED
    BY <2>1 DEF Init, SysInit, Lists
<1>2. bmStopType = NoRun /\ NoRun # "cycle"
  <2>1. bmStopType = NoRun
    BY Zenon DEF WbInit, NoRun
  <2>2. NoRun # "cycle"
    BY Zenon DEF NoRun
  <2> QED
    BY <2>1, <2>2
<1>3. \A l \in Lists : schedule[l] = << >>
  BY <1>1 DEF EmptySchedule
<1>4. \A name : /\ ~Named(ctrlWorkList, name)
                /\ \A l \in Lists : ~Named(schedule[l], name)
  BY <1>1, <1>3 DEF Named
<1>5. StopReports(pendingProgress) = {}
  BY <1>1 DEF StopReports
<1>6. Kinds /\ Counted
  BY <1>1, <1>3, <1>5 DEF Kinds, Counted, Once
<1>7. \A p \in Holders : ~Holds(p)
  <2>1. ~Holds("work") /\ \A l \in Lists : ~Holds(l)
    BY <1>4, HoldsWork, HoldsList
  <2>2. ~Holds("report") /\ ~Holds("hand") /\ ~Holds("watch")
    BY <1>1, <1>5, HoldsRest DEF InHand
  <2> QED
    BY <2>1, <2>2, HoldersAre
<1>8. StopInv
  BY <1>1, <1>2, <1>6, <1>7 DEF StopInv, Solo, Track, Still
<1>9. PlaceInv
  <2>1. Watch /\ Clocking
    BY <1>1 DEF Watch, Clocking
  <2>2. Idle
    BY <1>2, <1>4, <1>7 DEF Idle
  <2>3. NowGone
    BY <1>3 DEF NowGone, Lists
  <2> QED
    BY <2>1, <2>2, <2>3 DEF PlaceInv
<1> QED
  BY <1>8, <1>9

LEMMA RunStep ==
    ASSUME OneByOne, OnlyThreads, BaseInv, BaseInv', TokensInv, RunInv, [WbNext]_allVars
    PROVE  RunInv'
<1>a. script' = script
  <2>1. CASE WbNext
    BY <2>1 DEF WbNext, WbStep, WbCalls
  <2>2. CASE UNCHANGED allVars
    BY <2>2 DEF allVars
  <2> QED
    BY <2>1, <2>2
<1>b. Orderly' = Orderly
  BY <1>a DEF Orderly
<1> SUFFICES ASSUME Live', pc' # "exited", Orderly
             PROVE  StopInv' /\ PlaceInv'
  BY <1>b DEF RunInv
<1>1. TypeOK' /\ TimeInv'
  BY DEF BaseInv
<1>2. pc' # "aborted"
  BY <1>1 DEF TimeInv
<1>3. CASE WbNext
  <2>1. Live /\ pc # "exited"
    BY <1>3, BmCmdsDoneDoes
       DEF WbNext, WbStep, WbCalls, WbLoop, AWB_Activate, ReportStop, ReportShown,
       ReportThreadBegin, ReportThreadEnd, ReportUnknown, ReportsDone, ProcessFile,
       FileDone, CheckBmCmds, ProcessBmCmds, WbExit, ControllerStep, Sample,
       DrainItem, DrainClearing, ClearBreak, ReadyEvent, NoEventReady,
       AWB_InformProgress, Decide, BeginClock, Exit, WatchedClock, EndClock,
       WatchedExecuteDone, ExecuteDone, CMD_Init, FeederInit, DuringClock, InBatch, Live
  <2>2. /\ TypeOK /\ WbTypeOK /\ Placed /\ OrderInv /\ Cover /\ TimeInv
        /\ StopInv /\ PlaceInv
    BY <2>1 DEF BaseInv, RunInv
  <2>3. CASE AWB_Activate
    BY <2>2, <2>3, ActivateRun
  <2>4. CASE \/ ReportStop \/ ReportShown \/ ReportThreadBegin \/ ReportThreadEnd
             \/ ReportUnknown \/ ReportsDone
    BY <2>2, <2>4, ReportsRun
  <2>5. CASE ProcessFile \/ ProcessBmCmds
    BY <2>2, <2>5, LinesRun
  <2>6. CASE FileDone \/ CheckBmCmds \/ BmCmdsDone
    BY <2>2, <2>6, BookkeepingRun
  <2>7. ~WbExit
    BY DEF WbExit, Live
  <2>8. CASE ControllerStep
    <3>1. UNCHANGED wbVars /\ ~Exit
      BY <2>8 DEF ControllerStep, Exit
    <3>2. CASE Sample \/ ClearBreak \/ NoEventReady
      BY <2>2, <3>1, <3>2, PlacesRun
    <3>6. CASE AWB_InformProgress \/ Decide \/ BeginClock
      BY <2>2, <3>1, <3>6, PlacesRun
    <3>3. CASE DrainItem
      BY <2>2, <3>1, <3>3, DrainItemRun
    <3>4. CASE DrainClearing
      BY <2>2, <3>1, <3>4, DrainClearingRun
    <3>5. CASE ReadyEvent
      BY <1>2, <2>2, <3>1, <3>5, ReadyEventRun
    <3> QED
      BY <2>8, <3>1, <3>2, <3>3, <3>4, <3>5, <3>6 DEF ControllerStep
  <2>9. CASE \E d \in ClockSteps : WatchedClock(d)
    BY <2>2, <2>9, ClockRun
  <2>10. CASE WatchedExecuteDone
    BY <2>2, <2>10, ExecuteRun
  <2>11. CASE CMD_Init(TRUE) /\ UNCHANGED wbVars
    <3>1. Initialized
      BY <2>11 DEF Initialized, CMD_Init
    <3> QED
      BY <2>2, <2>11, <3>1, PlacesRun
  <2>12. CASE WbCalls
    BY <2>2, <2>12, CallsRun
  <2> QED
    BY <1>3, <2>3, <2>4, <2>5, <2>6, <2>7, <2>8, <2>9, <2>10, <2>11, <2>12
       DEF WbNext, WbStep, WbLoop
<1>4. CASE UNCHANGED allVars
  <2>1. /\ UNCHANGED << pc, ctrlWorkList, schedule, clock, pmStopped, pmExiting >>
        /\ UNCHANGED << pendingProgress, markerHit >>
        /\ UNCHANGED << wb, bmStopType, bmStopTime, watching >>
    BY <1>4 DEF allVars, vars, ctrlVars, sysVars, wbVars
  <2>2. StopInv /\ PlaceInv
    BY <2>1 DEF RunInv, Live
  <2>3. StopInv'
    BY <2>1, <2>2, CalmKeeps
  <2>4. \A p \in Holders : Holds(p)' <=> Holds(p)
    <3>1. Holds("work")' <=> Holds("work")
      BY <2>1, HoldsWork
    <3>2. \A l \in Lists : Holds(l)' <=> Holds(l)
      BY <2>1, HoldsList
    <3>3. /\ Holds("report")' <=> Holds("report")
          /\ Holds("hand")' <=> Holds("hand")
      BY <2>1, HoldsRest DEF InHand
    <3>4. Holds("watch")' <=> Holds("watch")
      BY <2>1, HoldsRest
    <3> QED
      BY <3>1, <3>2, <3>3, <3>4, HoldersAre
  <2>5. Watch' /\ NowGone' /\ Clocking'
    BY <2>1, <2>2 DEF PlaceInv, Watch, NowGone, Clocking
  <2>6. Idle'
    BY <2>1, <2>2, <2>4 DEF PlaceInv, Idle
  <2> QED
    BY <2>3, <2>5, <2>6 DEF PlaceInv
<1> QED
  BY <1>3, <1>4

(* The chip is clocked only while the stop of a run lies ahead.            *)
LEMMA RunAhead ==
    ASSUME OneByOne, BaseInv, RunInv
    PROVE  RunNotOverrun
<1> SUFFICES ASSUME Orderly, pc = "clock", bmStopType = "cycle"
             PROVE  clock["cycle"] < bmStopTime
  BY DEF RunNotOverrun
<1>1. TypeOK /\ TimeInv /\ StopInv /\ PlaceInv
  BY DEF BaseInv, RunInv, Live
<1>2. Named(schedule["cycle"], "STOP")
  BY <1>1, ClockedTrack
<1>3. PICK k \in 1..Len(schedule["cycle"]) : schedule["cycle"][k].name = "STOP"
  BY <1>2 DEF Named
<1>4. bmStopTime > 0 /\ schedule["cycle"][k].actionTime = bmStopTime
  BY <1>1, <1>3 DEF StopInv, Track, AllDue, Due, Lists
<1>5. CASE "cycle" \in Honoured
  <2>1. stopAt["cycle"] <= schedule["cycle"][k].actionTime
    BY <1>1 DEF TimeInv, Bounded, Exact
  <2>2. clock["cycle"] < stopAt["cycle"]
    BY <1>1, <1>5 DEF TimeInv, Bounded, Exact
  <2>3. /\ clock["cycle"] \in Nat /\ stopAt["cycle"] \in Nat
        /\ schedule["cycle"][k].actionTime \in Nat
    <3>1. schedule["cycle"][k] \in WorkItems
      BY <1>1 DEF TypeOK, Lists
    <3>2. schedule["cycle"][k].actionTime \in Nat
      BY <3>1, NowIsZero
    <3> QED
      BY <1>1, <3>2 DEF TypeOK, SysTypeOK, Lists
  <2> QED
    BY <1>4, <2>1, <2>2, <2>3
<1>6. CASE "cycle" \notin Honoured
  BY <1>1, <1>4, <1>6 DEF StopInv, Still
<1> QED
  BY <1>5, <1>6

(* Only an AwbRun line that process_file works off changes the time, and   *)
(* then the stop is nowhere else.                                          *)
LEMMA RunFollows ==
    ASSUME BaseInv, TokensInv, RunInv, [WbNext]_allVars
    PROVE  NextRunInTime
<1> SUFFICES ASSUME Orderly, bmStopTime' # bmStopTime, bmStopType = "cycle"
             PROVE  clock["cycle"] = bmStopTime
  BY DEF NextRunInTime
<1>1. ProcessFile
  <2>1. WbNext
    BY DEF allVars, wbVars
  <2>2. ~ProcessBmCmds
    BY DEF TokensInv, ProcessBmCmds, InBatch
  <2>3. ~(AWB_Activate \/ WbExit \/ ControllerStep \/ WatchedExecuteDone \/ WbCalls)
    BY DEF AWB_Activate, WbExit, ControllerStep, WatchedExecuteDone, WbCalls, wbVars
  <2>4. /\ ~(\E d \in ClockSteps : WatchedClock(d))
        /\ ~(CMD_Init(TRUE) /\ UNCHANGED wbVars)
    BY DEF WatchedClock, wbVars
  <2>5. ~(ReportStop \/ ReportShown \/ ReportThreadBegin \/ ReportThreadEnd
            \/ ReportUnknown \/ ReportsDone \/ FileDone \/ CheckBmCmds)
    BY DEF ReportStop, ReportShown, ReportThreadBegin, ReportThreadEnd, ReportUnknown,
           ReportsDone, FileDone, CheckBmCmds, KeepScript
  <2>6. ~BmCmdsDone
    BY BmCmdsDoneDoes DEF KeepScript
  <2> QED
    BY <2>1, <2>2, <2>3, <2>4, <2>5, <2>6 DEF WbNext, WbStep, WbLoop
<1>2. pc = "batch" /\ InHand
  BY <1>1 DEF ProcessFile, InBatch, InHand
<1>3. StopInv
  BY <1>2 DEF RunInv, Live
<1>4. \A p \in Holders : Holds(p) => p = "hand"
  <2>1. Holds("hand") /\ "hand" \in Holders
    BY <1>2, HoldsRest DEF Holders
  <2> QED
    BY <1>3, <2>1 DEF StopInv, Solo
<1>5. ~StopAsked /\ ~StopScheduled
  <2>1. /\ "work" \in Holders /\ "cycle" \in Holders /\ "cycle" \in Lists
        /\ "work" # "hand" /\ "cycle" # "hand"
    BY DEF Holders, Lists
  <2> QED
    BY <1>4, <2>1, HoldsWork, HoldsList DEF StopAsked, StopScheduled
<1> QED
  BY <1>3, <1>5 DEF StopInv, Track, StopBeen

(* The runs of a script follow each other in order, for every script in    *)
(* which each run is to last and nothing follows an AwbExit, on a system   *)
(* that steps through its cycles one by one and whose feeder and chip tell *)
(* of their threads only: while the chip is clocked, the time that do_run  *)
(* remembered lies ahead, and when CheckBmCmds works off the next AwbRun,  *)
(* the last one has come to its end.                                       *)
THEOREM RunsInOrderHolds ==
    WbSpec => (OneByOne /\ OnlyThreads => RunsInOrder)
<1> DEFINE Given == OneByOne /\ OnlyThreads
<1>1. Given => Given'
  BY DEF OneByOne, OnlyThreads
<1>2. WbInit => BaseInv /\ TokensInv /\ RunInv
  BY BaseInit, TokensInit, RunInit
<1>3. Given /\ BaseInv /\ TokensInv /\ RunInv /\ [WbNext]_allVars
          => BaseInv' /\ TokensInv' /\ RunInv'
  <2> SUFFICES ASSUME Given, BaseInv, TokensInv, RunInv, [WbNext]_allVars
               PROVE  BaseInv' /\ TokensInv' /\ RunInv'
    OBVIOUS
  <2>1. BaseInv' /\ TokensInv'
    BY BaseStep, TokensStep
  <2> QED
    BY <2>1, RunStep
<1>4. Given /\ BaseInv /\ RunInv => RunNotOverrun
  BY RunAhead
<1>5. BaseInv /\ TokensInv /\ RunInv /\ [WbNext]_allVars => [NextRunInTime]_allVars
  BY RunFollows
<1> HIDE DEF Given
<1>6. WbSpec => (Given => RunsInOrder)
  BY <1>1, <1>2, <1>3, <1>4, <1>5, PTL DEF WbSpec, WbNext, RunsInOrder
<1> QED
  BY <1>6 DEF Given
=============================================================================
