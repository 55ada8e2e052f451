---------------------------- MODULE ServiceProofs ----------------------------
(***************************************************************************)
(* The controller implements CommandService, step by step; and a periodic  *)
(* nanosecond command never waits longer than its period.                  *)
(***************************************************************************)
EXTENDS ControllerProofs

(* A multiple of a period leaves no remainder.                             *)
LEMMA MultipleOf ==
    ASSUME NEW q \in Nat, NEW p \in Nat, p > 0
    PROVE  (q * p) % p = 0
<1> DEFINE y == q * p
           e == q - (y \div p)
<1>1. y \in Nat /\ p * q = y
  OBVIOUS
<1>2. /\ y \div p \in Int /\ y % p \in 0..(p - 1)
      /\ y = p * (y \div p) + (y % p)
  BY <1>1
<1>3. e \in Int /\ q = (y \div p) + e
  BY <1>2
<1>4. p * e = y % p
  <2>1. p * ((y \div p) + e) = p * (y \div p) + p * e
    BY <1>2, <1>3
  <2> QED
    BY <1>1, <1>2, <1>3, <2>1
<1> HIDE DEF e, y
<1>5. e = 0
  <2>1. CASE e >= 1
    <3>1. p * e >= p
      BY <1>3, <2>1
    <3> QED
      BY <1>2, <1>4, <3>1
  <2>2. CASE e <= -1
    <3>1. p * e <= -p
      BY <1>3, <2>2
    <3> QED
      BY <1>2, <1>4, <3>1
  <2> QED
    BY <1>3, <2>1, <2>2
<1> QED
  BY <1>4, <1>5 DEF y

(* NextDue: the next multiple of the period that lies in the future, or,   *)
(* for all but nanoseconds, the one after it when the next is one away.    *)
LEMMA NextDueArmed ==
    ASSUME NEW trigger, NEW current \in Nat, NEW period \in Nat, period > 0
    PROVE  /\ NextDue(trigger, current, period) \in Nat
           /\ NextDue(trigger, current, period) > current
           /\ NextDue(trigger, current, period) <= current + period + 1
           /\ trigger = "NANOSECOND_PERIOD" =>
                 NextDue(trigger, current, period) <= current + period
           /\ NextDue(trigger, current, period) % period = 0
<1>1. ASSUME NEW x \in Nat
      PROVE  (x \div period) * period <= x /\ ((x \div period) * period) % period = 0
  <2>1. /\ x \div period \in Nat /\ x % period \in 0..(period - 1)
        /\ x = period * (x \div period) + (x % period)
    OBVIOUS
  <2>2. period * (x \div period) = (x \div period) * period
    BY <2>1
  <2>3. (x \div period) * period \in Nat
    BY <2>1
  <2>4. ((x \div period) * period) % period = 0
    BY <2>1, MultipleOf
  <2> QED
    BY <2>1, <2>2, <2>3, <2>4
<1>2. current + period \in Nat /\ current + 1 + period \in Nat
  OBVIOUS
<1>3. CASE trigger = "NANOSECOND_PERIOD"
  <2>1. NextDue(trigger, current, period) = ((current + period) \div period) * period
    BY <1>3 DEF NextDue
  <2>2. /\ NextDue(trigger, current, period) <= current + period
        /\ NextDue(trigger, current, period) % period = 0
    BY <1>1, <1>2, <2>1
  <2> QED
    BY <1>2, <2>2, NextDueType, NextDueLater
<1>4. CASE trigger # "NANOSECOND_PERIOD"
  <2>1. NextDue(trigger, current, period) = ((current + 1 + period) \div period) * period
    BY <1>4 DEF NextDue
  <2>2. /\ NextDue(trigger, current, period) <= current + 1 + period
        /\ NextDue(trigger, current, period) % period = 0
    BY <1>1, <1>2, <2>1
  <2> QED
    BY <1>2, <1>4, <2>2, NextDueType, NextDueLater
<1> QED
  BY <1>3, <1>4

(* What it means for the item that is armed.                               *)
LEMMA TimedArmed ==
    ASSUME NEW item \in WorkItems, NEW time \in [Lists -> Nat],
           Periodic(item.trigger)
    PROVE  LET t == time[ListOf(item.trigger)]
               w == Timed(item, time)
           IN  /\ t \in Nat
               /\ item.period \in Nat /\ item.period > 0 /\ w.period = item.period
               /\ w = [item EXCEPT !.actionTime = w.actionTime]
               /\ w.actionTime \in Nat
               /\ w.actionTime > t
               /\ w.actionTime <= t + item.period + 1
               /\ item.trigger = "NANOSECOND_PERIOD" =>
                     w.actionTime <= t + item.period
               /\ w.actionTime % item.period = 0
<1> DEFINE t   == time[ListOf(item.trigger)]
           due == NextDue(item.trigger, t, item.period)
<1>1. t \in Nat /\ item.period \in Nat /\ item.period > 0
  BY ListOfType DEF WorkItems, Items
<1>2. /\ due \in Nat /\ due > t /\ due <= t + item.period + 1
      /\ item.trigger = "NANOSECOND_PERIOD" => due <= t + item.period
      /\ due % item.period = 0
  BY <1>1, NextDueArmed
<1>3. Timed(item, time) = [item EXCEPT !.actionTime = due]
  BY DEF Timed
<1> HIDE DEF due
<1>4. /\ [item EXCEPT !.actionTime = due].actionTime = due
      /\ [item EXCEPT !.actionTime = due].period = item.period
  BY DEF WorkItems, Items
<1> QED
  BY <1>1, <1>2, <1>3, <1>4

-----------------------------------------------------------------------------
(***************************************************************************)
(* Contents.  What may wait in each list of the schedule is given as a     *)
(* family S of sets; it is kept if what is inserted belongs there.         *)
(***************************************************************************)
Within(sched, S) ==
    \A l \in Lists : \A k \in 1..Len(sched[l]) : sched[l][k] \in S[l]

LEMMA WithinScheduled ==
    ASSUME NEW sched \in [Lists -> Seq(WorkItems)], NEW S, Within(sched, S),
           NEW item \in WorkItems, NEW time \in [Lists -> Nat],
           Timed(item, time) \in S[ListOf(item.trigger)]
    PROVE  Within(Scheduled(sched, item, time), S)
<1> DEFINE m == ListOf(item.trigger)
           w == Timed(item, time)
           new == InsertOrdered(sched[m], w)
<1>1. m \in Lists /\ w \in WorkItems /\ w \in S[m]
  BY ListOfType, TimedType
<1>2. Scheduled(sched, item, time) = [sched EXCEPT ![m] = new]
  BY DEF Scheduled
<1> HIDE DEF m, w
<1>3. ASSUME NEW i \in 1..Len(new)
      PROVE  new[i] \in S[m]
  <2>1. sched[m] \in Seq(WorkItems)
    BY <1>1
  <2>2. new[i] = w \/ \E k \in 1..Len(sched[m]) : new[i] = sched[m][k]
    BY <1>1, <2>1, InsertElements
  <2> QED
    BY <1>1, <2>2 DEF Within
<1> HIDE DEF new
<1> QED
  BY <1>1, <1>2, <1>3 DEF Within

LEMMA WithinThinned ==
    ASSUME NEW sched \in [Lists -> Seq(WorkItems)], NEW S, Within(sched, S),
           NEW m \in Lists, NEW new,
           \A i \in 1..Len(new) : \E k \in 1..Len(sched[m]) : new[i] = sched[m][k]
    PROVE  Within([sched EXCEPT ![m] = new], S)
<1> DEFINE after == [sched EXCEPT ![m] = new]
<1>1. /\ after[m] = new
      /\ \A l \in Lists : l # m => after[l] = sched[l]
  OBVIOUS
<1> HIDE DEF after
<1>2. Within(after, S)
  BY <1>1 DEF Within
<1> QED
  BY <1>2 DEF after

(* The only steps that put something on the schedule are those that move   *)
(* the head of the work list there, and those that arm a periodic item     *)
(* again.                                                                  *)
LEMMA WithinStep ==
    ASSUME TypeOK, [Next]_vars, NEW S, Within(schedule, S),
           DrainItem => Timed(Head(ctrlWorkList), now)
                            \in S[ListOf(Head(ctrlWorkList).trigger)],
           \A l \in Lists :
               pc = "ready" /\ ProcessEvent(l)
                       /\ Periodic(Head(schedule[l]).trigger) =>
                   Timed(Head(schedule[l]), now)
                       \in S[ListOf(Head(schedule[l]).trigger)]
    PROVE  Within(schedule', S)
<1>1. schedule \in [Lists -> Seq(WorkItems)] /\ now \in [Lists -> Nat]
  BY DEF TypeOK
<1>2. CASE DrainItem
  <2>1. Head(ctrlWorkList) \in WorkItems
    BY <1>2 DEF DrainItem, TypeOK
  <2> QED
    BY <1>1, <1>2, <2>1, WithinScheduled DEF DrainItem
<1>3. CASE DrainClearing
  <2> DEFINE l == Head(ctrlWorkList).arg
  <2>1. l \in Lists
    <3>1. Head(ctrlWorkList) \in WorkItems
      BY <1>3 DEF DrainClearing, TypeOK
    <3> QED
      BY <1>3, <3>1 DEF DrainClearing, WorkItems
  <2> HIDE DEF l
  <2>2. CASE UNCHANGED schedule
    BY <2>2
  <2>3. CASE /\ ProgressAt(schedule[l]) # {}
             /\ schedule' = [schedule EXCEPT ![l] = WithoutFirstProgress(@)]
    <3>1. \A i \in 1..Len(WithoutFirstProgress(schedule[l])) :
             \E k \in 1..Len(schedule[l]) :
                 WithoutFirstProgress(schedule[l])[i] = schedule[l][k]
      BY <1>1, <2>1, <2>3, RemoveElements
    <3> QED
      BY <1>1, <2>1, <2>3, <3>1, WithinThinned
  <2> QED
    BY <1>3, <2>2, <2>3 DEF DrainClearing, l
<1>4. CASE ReadyEvent
  <2>1. PICK k \in 1..Len(ReadyOrder) :
            ProcessEvent(ReadyOrder[k]) \/ Dies(ReadyOrder[k])
    BY <1>4 DEF ReadyEvent
  <2>2. CASE Dies(ReadyOrder[k])
    BY <2>2 DEF Dies, ctrlVars
  <2>3. ASSUME NEW l \in Lists, ProcessEvent(l)
        PROVE  Within(schedule', S)
    <3> DEFINE item == Head(schedule[l])
               rest == [schedule EXCEPT ![l] = Tail(@)]
    <3>1. schedule[l] \in Seq(WorkItems) /\ schedule[l] # << >>
      BY <1>1, <2>3 DEF ProcessEvent, Ready
    <3>2. /\ item \in WorkItems /\ Tail(schedule[l]) \in Seq(WorkItems)
          /\ rest \in [Lists -> Seq(WorkItems)]
      BY <1>1, <3>1
    <3>3. Within(rest, S)
      BY <1>1, <3>1, TailElements, WithinThinned
    <3>4. schedule' = IF Periodic(item.trigger) THEN Scheduled(rest, item, now) ELSE rest
      BY <2>3 DEF ProcessEvent
    <3>5. Periodic(item.trigger) => Timed(item, now) \in S[ListOf(item.trigger)]
      BY <1>4, <2>3 DEF ReadyEvent
    <3> HIDE DEF item, rest
    <3>6. Periodic(item.trigger) => Within(Scheduled(rest, item, now), S)
      BY <1>1, <3>2, <3>3, <3>5, WithinScheduled
    <3> QED
      BY <3>3, <3>4, <3>6
  <2> QED
    BY <2>1, <2>2, <2>3, ReadyOrderLists
<1>5. CASE Exit
  BY <1>5 DEF Exit, EmptySchedule, Within
<1>6. CASE \/ Activated \/ Sample \/ ClearBreak \/ NoEventReady
           \/ AWB_InformProgress \/ BatchDone \/ Decide \/ BeginClock
           \/ ExecuteDone
           \/ \E d \in ClockSteps : EndClock(d)
  <2>1. UNCHANGED schedule
    BY <1>6 DEF Activated, Sample, ClearBreak, NoEventReady, AWB_InformProgress,
                BatchDone, Decide, BeginClock, ExecuteDone, EndClock, ctrlVars
  <2> QED
    BY <2>1
<1>7. CASE Calls
  <2>1. UNCHANGED schedule
    BY <1>7 DEF Calls, FeederInit, CMD_Init, Startup, Usage, BatchProgress,
                DuringClock, CheckExitConditions, ctrlVars
  <2> QED
    BY <2>1
<1>8. CASE UNCHANGED vars
  BY <1>8 DEF vars, ctrlVars
<1> QED
  BY <1>2, <1>3, <1>4, <1>5, <1>6, <1>7, <1>8 DEF Next, Loop

-----------------------------------------------------------------------------
(***************************************************************************)
(* Periods.                                                                *)
(***************************************************************************)

(* While the schedule is worked on, the sampled time is the time.          *)
SampledInv == pc \in Sampled => now = clock

LEMMA SampledStep == SampledInv /\ [Next]_vars => SampledInv'
<1> SUFFICES ASSUME SampledInv, [Next]_vars
             PROVE  SampledInv'
  OBVIOUS
<1>1. ASSUME UNCHANGED << now, clock >>, pc' \in Sampled => pc \in Sampled
      PROVE  SampledInv'
  BY <1>1 DEF SampledInv
<1>2. CASE Sample
  BY <1>2 DEF Sample, sysVars, SampledInv
<1>3. CASE \/ Activated \/ DrainItem \/ DrainClearing \/ ClearBreak
           \/ NoEventReady \/ AWB_InformProgress \/ BatchDone \/ Decide
  BY <1>1, <1>3 DEF Activated, DrainItem, DrainClearing, ClearBreak, NoEventReady,
     AWB_InformProgress, BatchDone, Decide, ctrlVars, sysVars, Sampled
<1>4. CASE BeginClock \/ ExecuteDone \/ Exit
  BY <1>4 DEF BeginClock, ExecuteDone, Exit, SampledInv, Sampled
<1>5. CASE ReadyEvent
  BY <1>1, <1>5 DEF ReadyEvent, ProcessEvent, Dies, ctrlVars, sysVars, Sampled
<1>6. ASSUME NEW d \in ClockSteps, EndClock(d)
      PROVE  SampledInv'
  BY <1>6 DEF EndClock, SampledInv, Sampled
<1>7. CASE Calls
  BY <1>1, <1>7 DEF Calls, FeederInit, CMD_Init, Startup, Usage, BatchProgress,
     DuringClock, CheckExitConditions, Issue, ctrlVars, sysVars, Sampled
<1>8. CASE UNCHANGED vars
  BY <1>1, <1>8 DEF vars, ctrlVars, sysVars
<1> QED
  BY <1>2, <1>3, <1>4, <1>5, <1>6, <1>7, <1>8 DEF Next, Loop

(* What the nanosecond list may hold at a given time.                      *)
OnBeat(time) ==
    [l \in Lists |->
        {i \in WorkItems :
            l = "nanosecond" /\ Periodic(i.trigger) =>
                /\ i.actionTime <= time["nanosecond"] + i.period
                /\ i.actionTime % i.period = 0}]

BeatInv == Within(schedule, OnBeat(clock))

LEMMA TimedOnBeat ==
    ASSUME NEW item \in WorkItems, NEW time \in [Lists -> Nat]
    PROVE  Timed(item, time) \in OnBeat(time)[ListOf(item.trigger)]
<1> DEFINE m == ListOf(item.trigger)
           w == Timed(item, time)
<1>1. m \in Lists /\ w \in WorkItems /\ w.trigger = item.trigger
  BY ListOfType, TimedType, TimedKeeps
<1>2. ASSUME m = "nanosecond", Periodic(item.trigger)
      PROVE  /\ w.actionTime <= time["nanosecond"] + w.period
             /\ w.actionTime % w.period = 0
  <2>1. item.trigger = "NANOSECOND_PERIOD"
    BY <1>2 DEF ListOf, Periodic
  <2> QED
    BY <1>2, <2>1, TimedArmed
<1> HIDE DEF m, w
<1> QED
  BY <1>1, <1>2 DEF OnBeat, m, w

LEMMA BeatStep == TypeOK /\ SampledInv /\ BeatInv /\ [Next]_vars => BeatInv'
<1> SUFFICES ASSUME TypeOK, SampledInv, BeatInv, [Next]_vars
             PROVE  BeatInv'
  OBVIOUS
<1>1. /\ schedule \in [Lists -> Seq(WorkItems)]
      /\ clock \in [Lists -> Nat] /\ now \in [Lists -> Nat]
  BY DEF TypeOK, SysTypeOK
<1>2. ASSUME NEW d \in ClockSteps, EndClock(d)
      PROVE  BeatInv'
  <2>1. /\ schedule' = schedule
        /\ clock' = [l \in Lists |-> clock[l] + d[l]]
    BY <1>2 DEF EndClock, Advance, ctrlVars
  <2>2. d["nanosecond"] \in Nat /\ clock["nanosecond"] \in Nat
    BY <1>1, ClockStepsAssumption DEF Lists
  <2>3. clock'["nanosecond"] \in Nat /\ clock'["nanosecond"] >= clock["nanosecond"]
    BY <2>1, <2>2 DEF Lists
  <2>4. ASSUME NEW l \in Lists, NEW i \in OnBeat(clock)[l]
        PROVE  i \in OnBeat(clock')[l]
    <3>1. i \in WorkItems /\ i.actionTime \in Nat /\ i.period \in Nat
      BY <2>4 DEF OnBeat, WorkItems, Items
    <3> QED
      BY <2>2, <2>3, <2>4, <3>1 DEF OnBeat
  <2>5. Within(schedule, OnBeat(clock'))
    BY <2>4 DEF BeatInv, Within
  <2> QED
    BY <2>1, <2>5 DEF BeatInv
<1>3. CASE ~\E d \in ClockSteps : EndClock(d)
  <2>1. clock' = clock
    BY <1>3 DEF Next, Loop, Calls, Activated, Sample, DrainItem, DrainClearing,
       ClearBreak, ReadyEvent, ProcessEvent, Dies, NoEventReady,
       AWB_InformProgress, BatchDone, Decide, BeginClock, ExecuteDone, Exit,
       FeederInit, CMD_Init, Startup, Usage, BatchProgress, DuringClock,
       CheckExitConditions, ctrlVars, sysVars, vars
  <2>2. DrainItem => Timed(Head(ctrlWorkList), now)
                        \in OnBeat(clock)[ListOf(Head(ctrlWorkList).trigger)]
    <3> SUFFICES ASSUME DrainItem
                 PROVE  Timed(Head(ctrlWorkList), now)
                            \in OnBeat(clock)[ListOf(Head(ctrlWorkList).trigger)]
      OBVIOUS
    <3>1. Head(ctrlWorkList) \in WorkItems /\ now = clock
      BY DEF DrainItem, TypeOK, SampledInv, Sampled
    <3> QED
      BY <1>1, <3>1, TimedOnBeat
  <2>3. ASSUME NEW l \in Lists, ProcessEvent(l), pc = "ready"
        PROVE  Timed(Head(schedule[l]), now)
                   \in OnBeat(clock)[ListOf(Head(schedule[l]).trigger)]
    <3>1. schedule[l] \in Seq(WorkItems) /\ schedule[l] # << >>
      BY <1>1, <2>3 DEF ProcessEvent, Ready
    <3>2. Head(schedule[l]) \in WorkItems /\ now = clock
      BY <2>3, <3>1 DEF SampledInv, Sampled
    <3> QED
      BY <1>1, <3>2, TimedOnBeat
  <2> QED
    BY <2>1, <2>2, <2>3, WithinStep DEF BeatInv
<1> QED
  BY <1>2, <1>3

(***************************************************************************)
(* Whatever the clock does, a periodic nanosecond command on the schedule  *)
(* is due within its period, at a multiple of it: NextDue of the           *)
(* nanosecond case is exact.                                               *)
(***************************************************************************)
THEOREM BeatIsKept == Spec => []NanosecondPeriodKept
<1>1. Init => SampledInv /\ BeatInv
  BY DEF Init, SampledInv, Sampled, EmptySchedule, BeatInv, Within
<1>2. TypeOK /\ BeatInv => NanosecondPeriodKept
  <2> SUFFICES ASSUME TypeOK, BeatInv, NEW i \in ToSet(schedule["nanosecond"]),
                      Periodic(i.trigger)
               PROVE  /\ i.actionTime <= clock["nanosecond"] + i.period
                      /\ i.actionTime % i.period = 0
    BY DEF NanosecondPeriodKept, OnTheBeat
  <2>1. schedule["nanosecond"] \in Seq(WorkItems) /\ "nanosecond" \in Lists
    BY DEF TypeOK, Lists
  <2>2. PICK k \in 1..Len(schedule["nanosecond"]) : i = schedule["nanosecond"][k]
    BY <2>1 DEF ToSet
  <2> QED
    BY <2>1, <2>2 DEF BeatInv, Within, OnBeat
<1> QED
  BY <1>1, <1>2, SampledStep, BeatStep, TypeCorrect, PTL DEF Spec

-----------------------------------------------------------------------------
(***************************************************************************)
(* Lists as sets.  No item is twice in a list, so that taking it out of    *)
(* the list takes it out of the set of the list's items.                   *)
(***************************************************************************)
Unrepeated(seq) ==
    \A i, j \in 1..Len(seq) : seq[i].id = seq[j].id => i = j

LEMMA ToSetIs ==
    ASSUME NEW seq \in Seq(WorkItems)
    PROVE  /\ \A e : e \in ToSet(seq) <=> \E i \in 1..Len(seq) : e = seq[i]
           /\ Len(seq) \in Nat
BY DEF ToSet

LEMMA InsertSet ==
    ASSUME NEW seq \in Seq(WorkItems), NEW w \in WorkItems
    PROVE  /\ ToSet(InsertOrdered(seq, w)) = ToSet(seq) \cup {w}
           /\ Unrepeated(seq) /\ (\A i \in 1..Len(seq) : seq[i].id # w.id)
                 => Unrepeated(InsertOrdered(seq, w))
<1> DEFINE k == NotLater(seq, w)
           new == InsertOrdered(seq, w)
<1>1. /\ Len(new) = Len(seq) + 1 /\ new \in Seq(WorkItems)
      /\ \A i \in 1..Len(new) :
            new[i] = IF i <= k THEN seq[i]
                     ELSE IF i = k + 1 THEN w ELSE seq[i - 1]
  BY InsertOrderedProperties, WorkItemsAreItems
<1>2. k \in 0..Len(seq) /\ Len(seq) \in Nat
  BY NotLaterProperties, WorkItemsAreItems
<1> HIDE DEF k, new
<1>3. \A i \in 1..Len(new) : new[i] = w \/ \E j \in 1..Len(seq) : new[i] = seq[j]
  BY InsertElements DEF new
<1>4. new[k + 1] = w /\ k + 1 \in 1..Len(new)
  BY <1>1, <1>2
<1>5. ASSUME NEW j \in 1..Len(seq)
      PROVE  \E i \in 1..Len(new) : new[i] = seq[j]
  <2>1. CASE j <= k
    BY <1>1, <1>2, <2>1
  <2>2. CASE j > k
    <3>1. j + 1 \in 1..Len(new) /\ new[j + 1] = seq[j]
      BY <1>1, <1>2, <2>2
    <3> QED
      BY <3>1
  <2> QED
    BY <1>2, <2>1, <2>2
<1>6. ToSet(new) = ToSet(seq) \cup {w}
  <2>1. /\ \A e : e \in ToSet(seq) <=> \E i \in 1..Len(seq) : e = seq[i]
        /\ \A e : e \in ToSet(new) <=> \E i \in 1..Len(new) : e = new[i]
    BY <1>1, ToSetIs
  <2>2. \A e : e \in ToSet(new) => e \in ToSet(seq) \cup {w}
    BY <1>3, <2>1
  <2>3. \A e : e \in ToSet(seq) \cup {w} => e \in ToSet(new)
    BY <1>4, <1>5, <2>1
  <2> QED
    BY <2>2, <2>3
<1>7. ASSUME Unrepeated(seq), \A i \in 1..Len(seq) : seq[i].id # w.id,
             NEW i \in 1..Len(new), NEW j \in 1..Len(new), i < j
      PROVE  new[i].id # new[j].id
  <2>1. CASE j <= k
    BY <1>1, <1>2, <1>7, <2>1 DEF Unrepeated
  <2>2. CASE i <= k /\ j > k + 1
    <3>1. /\ i \in 1..Len(seq) /\ j - 1 \in 1..Len(seq) /\ i # j - 1
          /\ new[i] = seq[i] /\ new[j] = seq[j - 1]
      BY <1>1, <1>2, <1>7, <2>2
    <3> QED
      BY <1>7, <3>1 DEF Unrepeated
  <2>3. CASE i > k + 1
    <3>1. /\ i - 1 \in 1..Len(seq) /\ j - 1 \in 1..Len(seq) /\ i - 1 # j - 1
          /\ new[i] = seq[i - 1] /\ new[j] = seq[j - 1]
      BY <1>1, <1>2, <1>7, <2>3
    <3> QED
      BY <1>7, <3>1 DEF Unrepeated
  <2>4. CASE j = k + 1
    <3>1. i \in 1..Len(seq) /\ new[i] = seq[i] /\ new[j] = w
      BY <1>1, <1>2, <1>7, <2>4
    <3> QED
      BY <1>7, <3>1
  <2>5. CASE i = k + 1
    <3>1. j - 1 \in 1..Len(seq) /\ new[j] = seq[j - 1] /\ new[i] = w
      BY <1>1, <1>2, <1>7, <2>5
    <3> QED
      BY <1>7, <3>1
  <2> QED
    BY <1>2, <2>1, <2>2, <2>3, <2>4, <2>5
<1>8. Unrepeated(seq) /\ (\A i \in 1..Len(seq) : seq[i].id # w.id)
         => Unrepeated(new)
  <2> SUFFICES ASSUME Unrepeated(seq), \A i \in 1..Len(seq) : seq[i].id # w.id,
                      NEW i \in 1..Len(new), NEW j \in 1..Len(new),
                      new[i].id = new[j].id
               PROVE  i = j
    BY DEF Unrepeated
  <2>1. ~(i < j) /\ ~(j < i)
    BY <1>7
  <2> QED
    BY <2>1
<1> QED
  BY <1>6, <1>8 DEF new

(* Taking out the item at p.                                               *)
LEMMA TakeOutSet ==
    ASSUME NEW seq \in Seq(WorkItems), Unrepeated(seq),
           NEW p \in 1..Len(seq), NEW new \in Seq(WorkItems),
           Len(new) = Len(seq) - 1,
           \A i \in 1..Len(new) : new[i] = IF i < p THEN seq[i] ELSE seq[i + 1]
    PROVE  /\ ToSet(new) = ToSet(seq) \ {seq[p]}
           /\ Unrepeated(new)
           /\ \A i \in 1..Len(new) : new[i].id # seq[p].id
<1>1. /\ \A e : e \in ToSet(seq) <=> \E i \in 1..Len(seq) : e = seq[i]
      /\ \A e : e \in ToSet(new) <=> \E i \in 1..Len(new) : e = new[i]
      /\ Len(seq) \in Nat /\ Len(new) \in Nat
  BY ToSetIs
<1>2. ASSUME NEW i \in 1..Len(new)
      PROVE  \E j \in 1..Len(seq) : j # p /\ new[i] = seq[j]
  <2>1. CASE i < p
    BY <1>1, <2>1
  <2>2. CASE i >= p
    <3>1. i + 1 \in 1..Len(seq) /\ i + 1 # p /\ new[i] = seq[i + 1]
      BY <1>1, <2>2
    <3> QED
      BY <3>1
  <2> QED
    BY <1>1, <2>1, <2>2
<1>3. ASSUME NEW j \in 1..Len(seq), j # p
      PROVE  \E i \in 1..Len(new) : new[i] = seq[j]
  <2>1. CASE j < p
    BY <1>1, <2>1
  <2>2. CASE j > p
    <3>1. j - 1 \in 1..Len(new) /\ new[j - 1] = seq[j]
      BY <1>1, <2>2
    <3> QED
      BY <3>1
  <2> QED
    BY <1>1, <1>3, <2>1, <2>2
<1>4. \A i \in 1..Len(new) : new[i].id # seq[p].id
  BY <1>2 DEF Unrepeated
<1>5. ToSet(new) = ToSet(seq) \ {seq[p]}
  <2>1. \A e : e \in ToSet(new) => e \in ToSet(seq) /\ e # seq[p]
    BY <1>1, <1>2, <1>4
  <2>2. ASSUME NEW e, e \in ToSet(seq), e # seq[p]
        PROVE  e \in ToSet(new)
    <3>1. PICK j \in 1..Len(seq) : e = seq[j]
      BY <1>1, <2>2
    <3>2. PICK i \in 1..Len(new) : new[i] = seq[j]
      BY <1>3, <2>2, <3>1
    <3> QED
      BY <1>1, <3>1, <3>2
  <2> QED
    BY <2>1, <2>2
<1>6. ASSUME NEW i \in 1..Len(new), NEW j \in 1..Len(new), new[i].id = new[j].id
      PROVE  i = j
  <2> DEFINE at(x) == IF x < p THEN x ELSE x + 1
  <2>1. /\ at(i) \in 1..Len(seq) /\ at(j) \in 1..Len(seq)
        /\ new[i] = seq[at(i)] /\ new[j] = seq[at(j)]
    BY <1>1
  <2>2. at(i) = at(j)
    <3> HIDE DEF at
    <3> QED
      BY <1>6, <2>1 DEF Unrepeated
  <2> QED
    BY <1>1, <2>2
<1> QED
  BY <1>4, <1>5, <1>6 DEF Unrepeated

LEMMA TailSet ==
    ASSUME NEW seq \in Seq(WorkItems), seq # << >>, Unrepeated(seq)
    PROVE  /\ ToSet(Tail(seq)) = ToSet(seq) \ {Head(seq)}
           /\ Unrepeated(Tail(seq))
           /\ \A i \in 1..Len(Tail(seq)) : Tail(seq)[i].id # Head(seq).id
<1> DEFINE new == Tail(seq)
<1>1. /\ new \in Seq(WorkItems) /\ Len(new) = Len(seq) - 1
      /\ 1 \in 1..Len(seq) /\ Head(seq) = seq[1]
      /\ \A i \in 1..Len(new) : new[i] = seq[i + 1]
  BY HeadTailProperties, EmptySeq
<1> HIDE DEF new
<1>2. \A i \in 1..Len(new) : new[i] = IF i < 1 THEN seq[i] ELSE seq[i + 1]
  BY <1>1
<1>3. /\ ToSet(new) = ToSet(seq) \ {seq[1]}
      /\ Unrepeated(new)
      /\ \A i \in 1..Len(new) : new[i].id # seq[1].id
  BY <1>1, <1>2, TakeOutSet
<1> QED
  BY <1>1, <1>3 DEF new

LEMMA RemoveSet ==
    ASSUME NEW seq \in Seq(WorkItems), Unrepeated(seq), ProgressAt(seq) # {}
    PROVE  /\ ToSet(WithoutFirstProgress(seq)) = ToSet(seq) \ {seq[FirstProgress(seq)]}
           /\ Unrepeated(WithoutFirstProgress(seq))
           /\ FirstProgress(seq) \in 1..Len(seq)
           /\ seq[FirstProgress(seq)].name = "PROGRESS"
<1> DEFINE p == FirstProgress(seq)
           new == RemoveAt(seq, p)
<1>1. seq \in Seq(Items)
  BY WorkItemsAreItems, SeqMonotonic
<1>2. p \in 1..Len(seq) /\ seq[p].name = "PROGRESS"
  BY <1>1, FirstProgressProperties
<1> HIDE DEF p
<1>3. /\ new \in Seq(WorkItems) /\ Len(new) = Len(seq) - 1
      /\ \A i \in 1..Len(new) : new[i] = IF i < p THEN seq[i] ELSE seq[i + 1]
  BY <1>2, RemoveAtProperties
<1> HIDE DEF new
<1>4. /\ ToSet(new) = ToSet(seq) \ {seq[p]}
      /\ Unrepeated(new)
  BY <1>2, <1>3, TakeOutSet
<1> QED
  BY <1>2, <1>4 DEF WithoutFirstProgress, p, new

-----------------------------------------------------------------------------
(***************************************************************************)
(* The schedule as a set.  Each item is in the list of its measure of time *)
(* and nowhere else.                                                       *)
(***************************************************************************)
Homes == [l \in Lists |-> {i \in WorkItems : ListOf(i.trigger) = l}]

Apart(sched) ==
    /\ Within(sched, Homes)
    /\ \A l \in Lists : Unrepeated(sched[l])

Contents(sched) == UNION {ToSet(sched[l]) : l \in Lists}

LEMMA ContentsAre ==
    ASSUME NEW sched \in [Lists -> Seq(WorkItems)], Within(sched, Homes)
    PROVE  /\ \A e : e \in Contents(sched) <=>
                 \E l \in Lists : \E k \in 1..Len(sched[l]) : e = sched[l][k]
           /\ \A e \in Contents(sched) :
                 /\ e \in WorkItems
                 /\ ListOf(e.trigger) \in Lists
                 /\ e \in ToSet(sched[ListOf(e.trigger)])
                 /\ \E k \in 1..Len(sched[ListOf(e.trigger)]) :
                        e = sched[ListOf(e.trigger)][k]
<1>1. \A l \in Lists : sched[l] \in Seq(WorkItems)
  OBVIOUS
<1>2. \A l \in Lists : \A e :
          e \in ToSet(sched[l]) <=> \E k \in 1..Len(sched[l]) : e = sched[l][k]
  BY <1>1, ToSetIs
<1>3. \A e : e \in Contents(sched) <=>
          \E l \in Lists : \E k \in 1..Len(sched[l]) : e = sched[l][k]
  BY <1>2 DEF Contents
<1>4. ASSUME NEW e \in Contents(sched)
      PROVE  /\ e \in WorkItems
             /\ ListOf(e.trigger) \in Lists
             /\ e \in ToSet(sched[ListOf(e.trigger)])
             /\ \E k \in 1..Len(sched[ListOf(e.trigger)]) :
                    e = sched[ListOf(e.trigger)][k]
  <2>1. PICK l \in Lists : \E k \in 1..Len(sched[l]) : e = sched[l][k]
    BY <1>3
  <2>2. PICK k \in 1..Len(sched[l]) : e = sched[l][k]
    BY <2>1
  <2>3. e \in WorkItems /\ ListOf(e.trigger) = l
    BY <2>2 DEF Within, Homes
  <2> QED
    BY <1>2, <2>1, <2>3
<1> QED
  BY <1>3, <1>4

(* An item comes to a list, or goes from the list it belongs to.           *)
Gains(sched, after, m, w) ==
    /\ ToSet(after[m]) = ToSet(sched[m]) \cup {w}
    /\ \A l \in Lists : l # m => after[l] = sched[l]

Loses(sched, after, m, w) ==
    /\ ToSet(after[m]) = ToSet(sched[m]) \ {w}
    /\ \A l \in Lists : l # m => after[l] = sched[l]

LEMMA ContentsAdded ==
    ASSUME NEW sched, NEW after, NEW m \in Lists, NEW w,
           Gains(sched, after, m, w)
    PROVE  Contents(after) = Contents(sched) \cup {w}
<1>1. \A e : e \in Contents(after) <=> \E l \in Lists : e \in ToSet(after[l])
  BY DEF Contents
<1>2. \A e : e \in Contents(sched) <=> \E l \in Lists : e \in ToSet(sched[l])
  BY DEF Contents
<1>3. \A e : e \in Contents(after) => e \in Contents(sched) \cup {w}
  BY <1>1, <1>2 DEF Gains
<1>4. \A e : e \in Contents(sched) \cup {w} => e \in Contents(after)
  BY <1>1, <1>2 DEF Gains
<1> QED
  BY <1>3, <1>4

LEMMA ContentsTaken ==
    ASSUME NEW sched \in [Lists -> Seq(WorkItems)], Within(sched, Homes),
           NEW after, NEW m \in Lists, NEW w \in WorkItems, ListOf(w.trigger) = m,
           Loses(sched, after, m, w)
    PROVE  Contents(after) = Contents(sched) \ {w}
<1>1. \A e : e \in Contents(after) <=> \E l \in Lists : e \in ToSet(after[l])
  BY DEF Contents
<1>2. \A e : e \in Contents(sched) <=> \E l \in Lists : e \in ToSet(sched[l])
  BY DEF Contents
<1>3. \A l \in Lists : l # m => w \notin ToSet(sched[l])
  <2> SUFFICES ASSUME NEW l \in Lists, w \in ToSet(sched[l])
               PROVE  l = m
    OBVIOUS
  <2>1. sched[l] \in Seq(WorkItems)
    OBVIOUS
  <2>2. PICK k \in 1..Len(sched[l]) : w = sched[l][k]
    BY <2>1, ToSetIs
  <2> QED
    BY <2>2 DEF Within, Homes
<1>4. \A e : e \in Contents(after) => e \in Contents(sched) \ {w}
  BY <1>1, <1>2, <1>3 DEF Loses
<1>5. \A e : e \in Contents(sched) \ {w} => e \in Contents(after)
  BY <1>1, <1>2 DEF Loses
<1> QED
  BY <1>4, <1>5

(* Scheduling an item that no list holds.                                  *)
LEMMA ScheduledContents ==
    ASSUME NEW sched \in [Lists -> Seq(WorkItems)], Apart(sched),
           NEW item \in WorkItems, NEW time \in [Lists -> Nat],
           \A k \in 1..Len(sched[ListOf(item.trigger)]) :
               sched[ListOf(item.trigger)][k].id # item.id
    PROVE  /\ Contents(Scheduled(sched, item, time))
                 = Contents(sched) \cup {Timed(item, time)}
           /\ Apart(Scheduled(sched, item, time))
<1> DEFINE m == ListOf(item.trigger)
           w == Timed(item, time)
           new == InsertOrdered(sched[m], w)
<1>1. /\ m \in Lists /\ w \in WorkItems /\ w.id = item.id
      /\ w.trigger = item.trigger /\ sched[m] \in Seq(WorkItems)
  BY ListOfType, TimedType, TimedKeeps
<1>2. Scheduled(sched, item, time) = [sched EXCEPT ![m] = new]
  BY DEF Scheduled
<1>3. w \in Homes[m]
  BY <1>1 DEF Homes
<1>4. Within(Scheduled(sched, item, time), Homes)
  BY <1>3, WithinScheduled DEF Apart
<1>5. \A k \in 1..Len(sched[m]) : sched[m][k].id # w.id
  BY <1>1
<1> HIDE DEF m, w
<1>6. ToSet(new) = ToSet(sched[m]) \cup {w} /\ Unrepeated(new)
  BY <1>1, <1>5, InsertSet DEF Apart
<1> DEFINE after == [sched EXCEPT ![m] = new]
<1>7. after[m] = new /\ \A l \in Lists : l # m => after[l] = sched[l]
  BY <1>1
<1> HIDE DEF new, after
<1>8. Contents(after) = Contents(sched) \cup {w}
  <2>1. Gains(sched, after, m, w)
    BY <1>6, <1>7 DEF Gains
  <2> QED
    BY <1>1, <2>1, ContentsAdded
<1>9. \A l \in Lists : Unrepeated(after[l])
  BY <1>6, <1>7 DEF Apart
<1> QED
  BY <1>2, <1>4, <1>8, <1>9 DEF Apart, m, w, after, new

(* Taking out the head of a list, or its first progress item.              *)
LEMMA TailContents ==
    ASSUME NEW sched \in [Lists -> Seq(WorkItems)], Apart(sched),
           NEW l \in Lists, sched[l] # << >>
    PROVE  LET item == Head(sched[l])
               rest == [sched EXCEPT ![l] = Tail(@)]
           IN  /\ item \in WorkItems /\ ListOf(item.trigger) = l
               /\ rest \in [Lists -> Seq(WorkItems)]
               /\ Contents(rest) = Contents(sched) \ {item}
               /\ Apart(rest)
               /\ \A k \in 1..Len(rest[l]) : rest[l][k].id # item.id
<1> DEFINE item == Head(sched[l])
           new  == Tail(sched[l])
           rest == [sched EXCEPT ![l] = new]
<1>1. /\ sched[l] \in Seq(WorkItems) /\ new \in Seq(WorkItems)
      /\ item = sched[l][1] /\ 1 \in 1..Len(sched[l])
  BY HeadTailProperties, EmptySeq
<1>2. item \in WorkItems /\ ListOf(item.trigger) = l
  BY <1>1 DEF Apart, Within, Homes
<1>3. /\ ToSet(new) = ToSet(sched[l]) \ {item}
      /\ Unrepeated(new)
      /\ \A k \in 1..Len(new) : new[k].id # item.id
  BY <1>1, TailSet DEF Apart
<1>4. Within(rest, Homes)
  BY <1>1, TailElements, WithinThinned DEF Apart
<1>5. /\ rest \in [Lists -> Seq(WorkItems)] /\ rest[l] = new
      /\ \A m \in Lists : m # l => rest[m] = sched[m]
  BY <1>1
<1> HIDE DEF new, item, rest
<1>6. Contents(rest) = Contents(sched) \ {item}
  <2>1. Loses(sched, rest, l, item)
    BY <1>3, <1>5 DEF Loses
  <2> QED
    BY <1>2, <2>1, ContentsTaken DEF Apart
<1>7. \A m \in Lists : Unrepeated(rest[m])
  BY <1>3, <1>5 DEF Apart
<1> QED
  BY <1>2, <1>3, <1>4, <1>5, <1>6, <1>7 DEF Apart, rest, new, item

LEMMA RemoveContents ==
    ASSUME NEW sched \in [Lists -> Seq(WorkItems)], Apart(sched),
           NEW l \in Lists, ProgressAt(sched[l]) # {}
    PROVE  LET item == sched[l][FirstProgress(sched[l])]
               rest == [sched EXCEPT ![l] = WithoutFirstProgress(@)]
           IN  /\ item \in Contents(sched) /\ ListOf(item.trigger) = l
               /\ item.name = "PROGRESS"
               /\ Contents(rest) = Contents(sched) \ {item}
               /\ Apart(rest)
<1> DEFINE p    == FirstProgress(sched[l])
           item == sched[l][p]
           new  == WithoutFirstProgress(sched[l])
           rest == [sched EXCEPT ![l] = new]
<1>1. sched[l] \in Seq(WorkItems)
  OBVIOUS
<1>2. /\ ToSet(new) = ToSet(sched[l]) \ {item}
      /\ Unrepeated(new)
      /\ p \in 1..Len(sched[l]) /\ item.name = "PROGRESS"
  BY <1>1, RemoveSet DEF Apart
<1>3. Within(rest, Homes)
  BY <1>1, RemoveElements, WithinThinned DEF Apart
<1> HIDE DEF new, p
<1>4. item \in WorkItems /\ ListOf(item.trigger) = l
  BY <1>2 DEF Apart, Within, Homes
<1>5. item \in Contents(sched)
  BY <1>2, ContentsAre DEF Apart
<1>6. rest[l] = new /\ \A m \in Lists : m # l => rest[m] = sched[m]
  OBVIOUS
<1> HIDE DEF item, rest
<1>7. Contents(rest) = Contents(sched) \ {item}
  <2>1. Loses(sched, rest, l, item)
    BY <1>2, <1>6 DEF Loses
  <2> QED
    BY <1>4, <2>1, ContentsTaken DEF Apart
<1>8. \A m \in Lists : Unrepeated(rest[m])
  BY <1>2, <1>6 DEF Apart
<1> QED
  BY <1>2, <1>3, <1>4, <1>5, <1>7, <1>8 DEF Apart, rest, new, item, p

-----------------------------------------------------------------------------
(***************************************************************************)
(* What the steps of the loop do to the schedule as a set.                 *)
(***************************************************************************)
LEMMA DrainItemContents ==
    ASSUME TypeOK, OrderInv, Apart(schedule), DrainItem
    PROVE  /\ Waiting' = Waiting \cup {Timed(Head(ctrlWorkList), now)}
           /\ Apart(schedule')
<1> DEFINE item == Head(ctrlWorkList)
           m    == ListOf(item.trigger)
<1>1. /\ schedule \in [Lists -> Seq(WorkItems)] /\ now \in [Lists -> Nat]
      /\ ctrlWorkList \in Seq(WorkItems) /\ ctrlWorkList # << >>
      /\ schedule' = Scheduled(schedule, item, now)
  BY DEF TypeOK, DrainItem
<1>2. /\ item \in WorkItems /\ item.id \in Nat
      /\ item = ctrlWorkList[1] /\ 1 \in 1..Len(ctrlWorkList)
  BY <1>1, HeadTailProperties, EmptySeq, NowIsZero
<1>3. m \in Lists
  BY ListOfType
<1>4. ASSUME NEW k \in 1..Len(schedule[m])
      PROVE  schedule[m][k].id # item.id
  <2>1. schedule[m][k] \in WorkItems
    BY <1>1, <1>3, ElementOfSeq
  <2>2. schedule[m][k].id < item.id /\ schedule[m][k].id \in Nat
    BY <1>2, <1>3, <2>1, NowIsZero DEF OrderInv, SchedInv, OlderThan
  <2> QED
    BY <1>2, <2>2
<1> HIDE DEF item
<1>5. /\ Contents(schedule') = Contents(schedule) \cup {Timed(item, now)}
      /\ Apart(schedule')
  BY <1>1, <1>2, <1>4, ScheduledContents
<1> QED
  BY <1>5 DEF Waiting, Contents, item

LEMMA DrainClearingContents ==
    ASSUME TypeOK, Apart(schedule), DrainClearing
    PROVE  LET l == Head(ctrlWorkList).arg IN
           /\ Apart(schedule')
           /\ \/ /\ \E j \in Waiting :
                       /\ j.name = "PROGRESS" /\ ListOf(j.trigger) = l
                       /\ Waiting' = Waiting \ {j}
                 /\ UNCHANGED ctrlWorkList
              \/ /\ \A j \in Waiting : j.name = "PROGRESS" => ListOf(j.trigger) # l
                 /\ ctrlWorkList' = Tail(ctrlWorkList)
                 /\ Waiting' = Waiting
<1> DEFINE l == Head(ctrlWorkList).arg
<1>1. schedule \in [Lists -> Seq(WorkItems)]
  BY DEF TypeOK
<1>2. l \in Lists
  <2>1. Head(ctrlWorkList) \in WorkItems
    BY DEF DrainClearing, TypeOK
  <2> QED
    BY <2>1 DEF DrainClearing, WorkItems
<1>3. Waiting = Contents(schedule) /\ Waiting' = Contents(schedule')
  BY DEF Waiting, Contents
<1> HIDE DEF l
<1>4. CASE /\ ProgressAt(schedule[l]) # {}
           /\ schedule' = [schedule EXCEPT ![l] = WithoutFirstProgress(@)]
           /\ UNCHANGED ctrlWorkList
  <2> DEFINE j == schedule[l][FirstProgress(schedule[l])]
  <2>1. /\ j \in Contents(schedule) /\ ListOf(j.trigger) = l
        /\ j.name = "PROGRESS"
        /\ Contents(schedule') = Contents(schedule) \ {j}
        /\ Apart(schedule')
    BY <1>1, <1>2, <1>4, RemoveContents
  <2> HIDE DEF j
  <2> QED
    BY <1>3, <1>4, <2>1 DEF l
<1>5. CASE /\ ProgressAt(schedule[l]) = {}
           /\ ctrlWorkList' = Tail(ctrlWorkList)
           /\ UNCHANGED schedule
  <2>1. ASSUME NEW j \in Waiting, j.name = "PROGRESS"
        PROVE  ListOf(j.trigger) # l
    <3> SUFFICES ASSUME ListOf(j.trigger) = l
                 PROVE  FALSE
      OBVIOUS
    <3>1. PICK k \in 1..Len(schedule[l]) : j = schedule[l][k]
      BY <1>1, <1>3, ContentsAre DEF Apart
    <3> QED
      BY <1>5, <2>1, <3>1 DEF ProgressAt
  <2> QED
    BY <1>3, <1>5, <2>1 DEF l
<1> QED
  BY <1>4, <1>5 DEF DrainClearing, l

LEMMA ProcessEventContents ==
    ASSUME TypeOK, Apart(schedule), NEW l \in Lists, ProcessEvent(l)
    PROVE  LET item == Head(schedule[l]) IN
           /\ item \in WorkItems /\ ListOf(item.trigger) = l
           /\ Waiting' = IF Periodic(item.trigger)
                         THEN (Waiting \ {item}) \cup {Timed(item, now)}
                         ELSE Waiting \ {item}
           /\ Apart(schedule')
<1> DEFINE item == Head(schedule[l])
           rest == [schedule EXCEPT ![l] = Tail(@)]
<1>1. /\ schedule \in [Lists -> Seq(WorkItems)] /\ now \in [Lists -> Nat]
      /\ schedule[l] # << >>
  BY DEF TypeOK, ProcessEvent, Ready
<1>2. /\ item \in WorkItems /\ ListOf(item.trigger) = l
      /\ rest \in [Lists -> Seq(WorkItems)]
      /\ Contents(rest) = Contents(schedule) \ {item}
      /\ Apart(rest)
      /\ \A k \in 1..Len(rest[l]) : rest[l][k].id # item.id
  BY <1>1, TailContents
<1>3. schedule' = IF Periodic(item.trigger) THEN Scheduled(rest, item, now) ELSE rest
  BY DEF ProcessEvent
<1> HIDE DEF item, rest
<1>4. /\ Contents(Scheduled(rest, item, now)) = Contents(rest) \cup {Timed(item, now)}
      /\ Apart(Scheduled(rest, item, now))
  BY <1>1, <1>2, ScheduledContents
<1>5. Waiting = Contents(schedule) /\ Waiting' = Contents(schedule')
  BY DEF Waiting, Contents
<1>6. CASE Periodic(item.trigger)
  BY <1>2, <1>3, <1>4, <1>5, <1>6 DEF item
<1>7. CASE ~Periodic(item.trigger)
  BY <1>2, <1>3, <1>5, <1>7 DEF item
<1> QED
  BY <1>6, <1>7

LEMMA ApartInit == Init => Apart(schedule)
BY DEF Init, EmptySchedule, Apart, Within, Unrepeated

LEMMA ApartStep ==
    TypeOK /\ OrderInv /\ Apart(schedule) /\ [Next]_vars => Apart(schedule')
<1> SUFFICES ASSUME TypeOK, OrderInv, Apart(schedule), [Next]_vars
             PROVE  Apart(schedule')
  OBVIOUS
<1>1. CASE UNCHANGED schedule
  BY <1>1
<1>2. CASE DrainItem
  BY <1>2, DrainItemContents
<1>3. CASE DrainClearing
  BY <1>3, DrainClearingContents
<1>4. CASE ReadyEvent
  <2>1. PICK k \in 1..Len(ReadyOrder) :
            ProcessEvent(ReadyOrder[k]) \/ Dies(ReadyOrder[k])
    BY <1>4 DEF ReadyEvent
  <2>2. CASE Dies(ReadyOrder[k])
    BY <2>2 DEF Dies, ctrlVars
  <2>3. CASE ProcessEvent(ReadyOrder[k])
    BY <2>3, ReadyOrderLists, ProcessEventContents
  <2> QED
    BY <2>1, <2>2, <2>3
<1>5. CASE Exit
  BY <1>5 DEF Exit, EmptySchedule, Apart, Within, Unrepeated
<1>6. CASE \/ Activated \/ Sample \/ ClearBreak \/ NoEventReady
           \/ AWB_InformProgress \/ BatchDone \/ Decide \/ BeginClock
           \/ ExecuteDone
           \/ \E d \in ClockSteps : EndClock(d)
  BY <1>1, <1>6 DEF Activated, Sample, ClearBreak, NoEventReady,
     AWB_InformProgress, BatchDone, Decide, BeginClock, ExecuteDone, EndClock,
     ctrlVars
<1>7. CASE Calls
  BY <1>1, <1>7 DEF Calls, FeederInit, CMD_Init, Startup, Usage, BatchProgress,
     DuringClock, CheckExitConditions, ctrlVars
<1>8. CASE UNCHANGED vars
  BY <1>1, <1>8 DEF vars, ctrlVars
<1> QED
  BY <1>2, <1>3, <1>4, <1>5, <1>6, <1>7, <1>8 DEF Next, Loop

-----------------------------------------------------------------------------
(***************************************************************************)
(* SYS_Execute is entered, and the chip clocked, only while the model is   *)
(* neither stopped nor ending, and with every bound on this side of every  *)
(* item that waits.                                                        *)
(***************************************************************************)
RunInv ==
    pc \in {"execute", "clock"} =>
        /\ ~pmStopped /\ ~pmExiting
        /\ \A l \in Lists : \A k \in 1..Len(schedule[l]) :
              /\ schedule[l][k].trigger # "NOW"
              /\ stopAt[l] <= schedule[l][k].actionTime

LEMMA DecideRun ==
    ASSUME TypeOK, OrderInv, HeadsAhead, Decide,
           NEW l \in Lists, NEW k \in 1..Len(schedule[l])
    PROVE  /\ schedule[l][k].trigger # "NOW"
           /\ Bounds[l] <= schedule[l][k].actionTime
<1> DEFINE head == schedule[l][1]
<1>1. schedule[l] \in Seq(WorkItems) /\ schedule[l] # << >> /\ now[l] \in Nat
  BY EmptySeq DEF TypeOK
<1>2. /\ Head(schedule[l]) = head /\ 1 \in 1..Len(schedule[l])
      /\ head \in WorkItems /\ schedule[l][k] \in WorkItems
  BY <1>1, HeadTailProperties, EmptySeq, ElementOfSeq
<1>3. head.trigger # "NOW" /\ now[l] < head.actionTime
  BY <1>1, <1>2 DEF HeadsAhead, Decide
<1>4. Bounds[l] = head.actionTime
  BY <1>1, <1>2, <1>3 DEF Bounds, NextEvent
<1>5. head.actionTime <= schedule[l][k].actionTime
  <2>1. CASE k = 1
    BY <1>2, <2>1, NowIsZero
  <2>2. CASE k # 1
    <3>1. 1 \in 1..(k - 1)
      BY <2>2
    <3> QED
      BY <3>1 DEF OrderInv, SchedInv, InOrder, Precedes
  <2> QED
    BY <2>1, <2>2
<1> HIDE DEF head
<1>6. schedule[l][k].trigger # "NOW"
  BY <1>1, <1>2, <1>3, <1>5, NowIsZero
<1> QED
  BY <1>4, <1>5, <1>6

LEMMA RunStep ==
    TypeOK /\ OrderInv /\ HeadsAhead /\ RunInv /\ [Next]_vars => RunInv'
<1> SUFFICES ASSUME TypeOK, OrderInv, HeadsAhead, RunInv, [Next]_vars
             PROVE  RunInv'
  OBVIOUS
<1>1. ASSUME pc' \notin {"execute", "clock"}
      PROVE  RunInv'
  BY <1>1 DEF RunInv
<1>2. ASSUME UNCHANGED << pmExiting, schedule, stopAt >>,
             pmStopped' => pmStopped,
             pc' \in {"execute", "clock"} => pc \in {"execute", "clock"}
      PROVE  RunInv'
  BY <1>2 DEF RunInv
<1>3. CASE Decide
  <2>1. CASE pc' = "loop"
    BY <1>1, <2>1
  <2>2. CASE /\ ~(pmStopped \/ pmExiting) /\ pc' = "execute" /\ stopAt' = Bounds
    <3>1. UNCHANGED << pmStopped, pmExiting, schedule >>
      BY <1>3 DEF Decide, ctrlVars
    <3>2. \A l \in Lists : \A k \in 1..Len(schedule[l]) :
              /\ schedule[l][k].trigger # "NOW"
              /\ Bounds[l] <= schedule[l][k].actionTime
      BY <1>3, DecideRun
    <3> QED
      BY <2>2, <3>1, <3>2 DEF RunInv
  <2> QED
    BY <1>3, <2>1, <2>2 DEF Decide, SYS_ExecuteEnter
<1>4. CASE BeginClock \/ \E d \in ClockSteps : EndClock(d)
  BY <1>2, <1>4 DEF BeginClock, EndClock, ctrlVars, sysVars
<1>5. CASE \/ Activated \/ Sample \/ DrainItem \/ DrainClearing \/ ClearBreak
           \/ NoEventReady \/ AWB_InformProgress \/ BatchDone \/ ExecuteDone
           \/ Exit
  BY <1>1, <1>5 DEF Activated, Sample, DrainItem, DrainClearing, ClearBreak,
     NoEventReady, AWB_InformProgress, BatchDone, ExecuteDone, Exit
<1>6. CASE ReadyEvent
  BY <1>1, <1>6 DEF ReadyEvent, ProcessEvent, Dies
<1>7. CASE Calls
  <2>1. CASE \/ \E c \in FeederCommands : FeederInit(c)
             \/ \E success \in BOOLEAN : CMD_Init(success)
             \/ \E c \in StartupCommands : Startup(c)
             \/ Usage
             \/ \E c \in WbCommands : BatchProgress(c)
    BY <1>1, <2>1 DEF FeederInit, CMD_Init, Startup, Usage, BatchProgress
  <2>2. CASE (\E c \in ChipCommands : DuringClock(c)) \/ CheckExitConditions
    <3>1. UNCHANGED << pc, pmExiting, schedule, stopAt >>
      BY <2>2 DEF DuringClock, CheckExitConditions, sysVars
    <3>2. pmStopped' => pmStopped
      BY <2>2 DEF DuringClock, CheckExitConditions, Issue
    <3> QED
      BY <1>2, <3>1, <3>2
  <2> QED
    BY <1>7, <2>1, <2>2 DEF Calls
<1>8. CASE UNCHANGED vars
  BY <1>2, <1>8 DEF vars, ctrlVars, sysVars
<1> QED
  BY <1>3, <1>4, <1>5, <1>6, <1>7, <1>8 DEF Next, Loop

-----------------------------------------------------------------------------
(***************************************************************************)
(* The steps of the service.  Names and lists mean the same there.         *)
(***************************************************************************)
LEMMA ServiceNames ==
    /\ Service!Lists = Lists
    /\ Service!Exact = Exact
    /\ \A trigger : Service!ListOf(trigger) = ListOf(trigger)
    /\ \A trigger : Service!Periodic(trigger) <=> Periodic(trigger)
BY DEF Service!Lists, Lists, Service!Exact, Exact, Service!ListOf, ListOf,
       Service!Periodic, Periodic

(* What is known to the controller was issued.                             *)
LEMMA KnownIds ==
    ASSUME TypeOK, OrderInv, NEW e \in Pending \cup Waiting
    PROVE  e \in WorkItems /\ e.id \in Nat /\ e.id <= issued
<1>1. /\ ctrlWorkList \in Seq(WorkItems) /\ issued \in Nat
      /\ \A l \in Lists : schedule[l] \in Seq(WorkItems)
  BY DEF TypeOK
<1>2. CASE e \in Pending
  <2>1. PICK j \in 1..Len(ctrlWorkList) : e = ctrlWorkList[j]
    BY <1>1, <1>2, ToSetIs DEF Pending
  <2>2. e \in WorkItems
    BY <1>1, <2>1, ElementOfSeq
  <2> QED
    BY <2>1, <2>2, NowIsZero DEF OrderInv, QueueInv
<1>3. CASE e \in Waiting
  <2>1. PICK l \in Lists : e \in ToSet(schedule[l])
    BY <1>3 DEF Waiting
  <2>2. PICK k \in 1..Len(schedule[l]) : e = schedule[l][k]
    BY <1>1, <2>1, ToSetIs
  <2>3. e \in WorkItems /\ e.id \in Nat
    BY <1>1, <2>2, ElementOfSeq, NowIsZero
  <2>4. e.id < issued + 1
    BY <2>2 DEF OrderInv, SchedInv, OlderThan
  <2> QED
    BY <1>1, <2>3, <2>4
<1> QED
  BY <1>2, <1>3

(* A new item joins what is pending, and is newer than all that is known.  *)
LEMMA EnlistKnown ==
    ASSUME TypeOK, OrderInv, NEW c \in AllCommands, Enlist(c)
    PROVE  /\ Pending' = Pending \cup {ItemOf(c)}
           /\ ItemOf(c).name = c.name
           /\ \A e \in Pending \cup Waiting : e.id < ItemOf(c).id
<1> DEFINE item == ItemOf(c)
<1>1. item \in WorkItems
  BY ItemOfType
<1>2. item.id = issued + 1 /\ item.name = c.name
  BY DEF ItemOf
<1>3. /\ ctrlWorkList' = Append(ctrlWorkList, item)
      /\ ctrlWorkList \in Seq(WorkItems) /\ issued \in Nat
  BY DEF Enlist, Add, TypeOK
<1> HIDE DEF item
<1>4. Pending' = Pending \cup {item}
  BY <1>1, <1>3, ToSetAppend DEF Pending
<1>5. ASSUME NEW e \in Pending \cup Waiting
      PROVE  e.id < item.id
  BY <1>2, <1>3, KnownIds
<1> QED
  BY <1>2, <1>4, <1>5 DEF item

LEMMA IssueIsIssue ==
    ASSUME TypeOK, OrderInv, NEW c \in AllCommands, Enlist(c),
           pmStopped' = IF c.name = "START" THEN FALSE ELSE pmStopped,
           Waiting' = Waiting, pmExiting' = pmExiting, clock' = clock,
           (pc' = "clock") <=> (pc = "clock")
    PROVE  Service!IssueOne
<1> DEFINE item == ItemOf(c)
<1>1. /\ Pending' = Pending \cup {item}
      /\ item.name = c.name
      /\ \A e \in Pending \cup Waiting : e.id < item.id
  BY EnlistKnown
<1> HIDE DEF item
<1>2. \A k \in Service!Known : k < item.id
  BY <1>1 DEF Service!Known
<1>3. item \in Pending'
  BY <1>1
<1> QED
  BY <1>1, <1>2, <1>3 DEF Service!IssueOne

(* An item that Schedule arms is armed as the service promises.            *)
LEMMA ArmedAsPromised ==
    ASSUME TypeOK, now = clock, NEW item \in WorkItems
    PROVE  Service!ArmedFrom(item, Timed(item, now))
<1> DEFINE w == Timed(item, now)
           t == now[ListOf(item.trigger)]
<1>1. now \in [Lists -> Nat]
  BY DEF TypeOK
<1>2. CASE Periodic(item.trigger)
  <2>1. /\ t \in Nat /\ item.period \in Nat /\ w.period = item.period
        /\ w = [item EXCEPT !.actionTime = w.actionTime]
        /\ w.actionTime \in Nat
        /\ w.actionTime > t
        /\ w.actionTime <= t + item.period + 1
        /\ w.actionTime % item.period = 0
    BY <1>1, <1>2, TimedArmed
  <2> HIDE DEF w, t
  <2>2. w.actionTime \in t..(t + item.period + 1)
    BY <2>1
  <2>3. t = clock[Service!ListOf(item.trigger)]
    BY ServiceNames DEF t
  <2> QED
    BY <1>2, <2>1, <2>2, <2>3, ServiceNames DEF Service!ArmedFrom, w
<1>3. CASE ~Periodic(item.trigger)
  <2>1. w = item
    BY <1>3 DEF Timed
  <2> QED
    BY <1>3, <2>1, ServiceNames DEF Service!ArmedFrom
<1> QED
  BY <1>2, <1>3

(* The head of the work list is the oldest item on it, and is there once.  *)
LEMMA HeadIsOldest ==
    ASSUME TypeOK, OrderInv, ctrlWorkList # << >>
    PROVE  /\ Head(ctrlWorkList) \in Pending
           /\ Head(ctrlWorkList) \in WorkItems
           /\ \A e \in Pending : Head(ctrlWorkList).id <= e.id
           /\ ToSet(Tail(ctrlWorkList)) = Pending \ {Head(ctrlWorkList)}
<1> DEFINE item == Head(ctrlWorkList)
<1>1. /\ ctrlWorkList \in Seq(WorkItems) /\ Len(ctrlWorkList) \in Nat
      /\ item = ctrlWorkList[1] /\ 1 \in 1..Len(ctrlWorkList)
      /\ \A j \in 1..Len(ctrlWorkList) :
            ctrlWorkList[j] \in WorkItems /\ ctrlWorkList[j].id \in Nat
  BY HeadTailProperties, EmptySeq, ElementOfSeq, NowIsZero DEF TypeOK
<1>2. \A j \in 1..Len(ctrlWorkList) : \A i \in 1..(j - 1) :
          ctrlWorkList[i].id < ctrlWorkList[j].id
  BY DEF OrderInv, QueueInv
<1>3. Unrepeated(ctrlWorkList)
  <2> SUFFICES ASSUME NEW i \in 1..Len(ctrlWorkList),
                      NEW j \in 1..Len(ctrlWorkList),
                      ctrlWorkList[i].id = ctrlWorkList[j].id
               PROVE  i = j
    BY DEF Unrepeated
  <2>1. CASE i < j
    <3>1. i \in 1..(j - 1)
      BY <2>1
    <3> QED
      BY <1>1, <1>2, <3>1
  <2>2. CASE j < i
    <3>1. j \in 1..(i - 1)
      BY <2>2
    <3> QED
      BY <1>1, <1>2, <3>1
  <2> QED
    BY <2>1, <2>2
<1>4. ToSet(Tail(ctrlWorkList)) = Pending \ {item}
  BY <1>1, <1>3, TailSet DEF Pending
<1>5. ASSUME NEW e \in Pending
      PROVE  item.id <= e.id
  <2>1. PICK j \in 1..Len(ctrlWorkList) : e = ctrlWorkList[j]
    BY <1>1, ToSetIs DEF Pending
  <2>2. CASE j = 1
    BY <1>1, <2>1, <2>2
  <2>3. CASE j # 1
    <3>1. 1 \in 1..(j - 1)
      BY <2>3
    <3> QED
      BY <1>1, <1>2, <2>1, <3>1
  <2> QED
    BY <2>2, <2>3
<1>6. item \in Pending
  BY <1>1, ToSetIs DEF Pending
<1> QED
  BY <1>1, <1>4, <1>5, <1>6

LEMMA DrainItemAccepts ==
    ASSUME TypeOK, OrderInv, SampledInv, Apart(schedule), DrainItem
    PROVE  Service!Accept
<1> DEFINE item == Head(ctrlWorkList)
           w    == Timed(item, now)
<1>1. /\ ctrlWorkList # << >> /\ item.name # "CLEARPROGRESS"
      /\ pc = "drain" /\ now = clock
      /\ ctrlWorkList' = Tail(ctrlWorkList)
      /\ UNCHANGED << pc, clock, pmStopped, pmExiting >>
  BY DEF DrainItem, sysVars, SampledInv, Sampled
<1>2. /\ item \in Pending /\ item \in WorkItems
      /\ \A e \in Pending : item.id <= e.id
      /\ ToSet(Tail(ctrlWorkList)) = Pending \ {item}
  BY <1>1, HeadIsOldest
<1>3. Waiting' = Waiting \cup {w}
  BY DrainItemContents
<1>4. Service!ArmedFrom(item, w)
  BY <1>1, <1>2, ArmedAsPromised
<1> HIDE DEF item, w
<1>5. Pending' = Pending \ {item}
  BY <1>1, <1>2 DEF Pending
<1>6. Service!Oldest(item)
  BY <1>2 DEF Service!Oldest
<1>7. w \in Waiting'
  BY <1>3
<1> QED
  BY <1>1, <1>2, <1>3, <1>4, <1>5, <1>6, <1>7 DEF Service!Accept

LEMMA DrainClearingClears ==
    ASSUME TypeOK, OrderInv, Apart(schedule), DrainClearing
    PROVE  Service!ClearOne
<1> DEFINE item == Head(ctrlWorkList)
<1>1. /\ ctrlWorkList # << >> /\ item.name = "CLEARPROGRESS" /\ pc = "drain"
      /\ UNCHANGED << pc, clock, pmStopped, pmExiting >>
  BY DEF DrainClearing, sysVars
<1>2. /\ item \in Pending
      /\ \A e \in Pending : item.id <= e.id
      /\ ToSet(Tail(ctrlWorkList)) = Pending \ {item}
  BY <1>1, HeadIsOldest
<1>3. \/ /\ \E j \in Waiting :
                  /\ j.name = "PROGRESS" /\ ListOf(j.trigger) = item.arg
                  /\ Waiting' = Waiting \ {j}
         /\ UNCHANGED ctrlWorkList
      \/ /\ \A j \in Waiting : j.name = "PROGRESS" => ListOf(j.trigger) # item.arg
         /\ ctrlWorkList' = Tail(ctrlWorkList)
         /\ Waiting' = Waiting
  BY DrainClearingContents
<1> HIDE DEF item
<1>4. Service!Oldest(item)
  BY <1>2 DEF Service!Oldest
<1>5. CASE /\ \E j \in Waiting :
                  /\ j.name = "PROGRESS" /\ ListOf(j.trigger) = item.arg
                  /\ Waiting' = Waiting \ {j}
           /\ UNCHANGED ctrlWorkList
  <2>1. Pending' = Pending
    BY <1>5 DEF Pending
  <2> QED
    BY <1>1, <1>2, <1>4, <1>5, <2>1, ServiceNames DEF Service!ClearOne
<1>6. CASE /\ \A j \in Waiting : j.name = "PROGRESS" => ListOf(j.trigger) # item.arg
           /\ ctrlWorkList' = Tail(ctrlWorkList)
           /\ Waiting' = Waiting
  <2>1. Pending' = Pending \ {item}
    BY <1>2, <1>6 DEF Pending
  <2> QED
    BY <1>1, <1>2, <1>4, <1>6, <2>1, ServiceNames DEF Service!ClearOne
<1> QED
  BY <1>3, <1>5, <1>6

LEMMA ProcessEventPerforms ==
    ASSUME TypeOK, OrderInv, SampledInv, Apart(schedule), pc = "ready",
           NEW l \in Lists, ProcessEvent(l)
    PROVE  Service!Perform
<1> DEFINE item == Head(schedule[l])
           w    == Timed(item, now)
<1>1. /\ schedule \in [Lists -> Seq(WorkItems)]
      /\ schedule[l] \in Seq(WorkItems) /\ schedule[l] # << >>
      /\ now = clock /\ Ready(schedule, l, now)
      /\ UNCHANGED << pc, clock >>
  BY DEF TypeOK, ProcessEvent, Ready, SampledInv, Sampled
<1>2. /\ item \in WorkItems /\ ListOf(item.trigger) = l
      /\ Waiting' = IF Periodic(item.trigger)
                    THEN (Waiting \ {item}) \cup {w}
                    ELSE Waiting \ {item}
  BY ProcessEventContents
<1>3. item = schedule[l][1] /\ 1 \in 1..Len(schedule[l])
  BY <1>1, HeadTailProperties, EmptySeq
<1>4. item \in Waiting
  BY <1>1, <1>3, ToSetIs DEF Waiting
<1>5. Service!Due(item)
  <2>1. /\ item.actionTime \in Nat /\ clock[l] \in Nat
    BY <1>2, NowIsZero DEF TypeOK, SysTypeOK
  <2>2. item.trigger = "NOW" \/ item.actionTime <= clock[l]
    BY <1>1, <2>1 DEF Ready
  <2> QED
    BY <1>2, <2>2, ServiceNames DEF Service!Due
<1>6. ASSUME NEW j \in Waiting, ListOf(j.trigger) = l
      PROVE  ~Service!Before(j, item)
  <2>1. Waiting = Contents(schedule)
    BY DEF Waiting, Contents
  <2>2. PICK k \in 1..Len(schedule[l]) : j = schedule[l][k]
    BY <1>1, <1>6, <2>1, ContentsAre DEF Apart
  <2>3. /\ j \in WorkItems /\ j.actionTime \in Nat /\ j.id \in Nat
        /\ item.actionTime \in Nat /\ item.id \in Nat
    BY <1>1, <1>2, <2>2, ElementOfSeq, NowIsZero
  <2>4. CASE k = 1
    BY <1>3, <2>2, <2>3, <2>4 DEF Service!Before
  <2>5. CASE k # 1
    <3>1. 1 \in 1..(k - 1)
      BY <2>5
    <3>2. Precedes(item, j)
      BY <1>3, <2>2, <3>1 DEF OrderInv, SchedInv, InOrder
    <3> HIDE DEF item
    <3> QED
      BY <2>3, <3>2, ServiceNames DEF Precedes, Service!Before
  <2> QED
    BY <2>4, <2>5
<1>7. Service!ArmedFrom(item, w)
  BY <1>1, <1>2, ArmedAsPromised
<1>8. CmdAction(item) /\ PmAction(item)
  BY DEF ProcessEvent
<1> HIDE DEF item, w
<1>9. Service!Effect(item)
  BY <1>8 DEF CmdAction, Service!Effect
<1>10. IF Service!Periodic(item.trigger)
       THEN \E armed \in Waiting' :
               /\ Waiting' = (Waiting \ {item}) \cup {armed}
               /\ Service!ArmedFrom(item, armed)
       ELSE Waiting' = Waiting \ {item}
  <2>1. CASE Periodic(item.trigger)
    <3>1. w \in Waiting' /\ Waiting' = (Waiting \ {item}) \cup {w}
      BY <1>2, <2>1
    <3> QED
      BY <1>7, <2>1, <3>1, ServiceNames
  <2>2. CASE ~Periodic(item.trigger)
    BY <1>2, <2>2, ServiceNames
  <2> QED
    BY <2>1, <2>2
<1>11. \/ Pending' = Pending
       \/ /\ item.name = "THDSKIP"
          /\ \E k \in Pending' :
                /\ Pending' = Pending \cup {k}
                /\ \A n \in Service!Known : n < k.id
  <2>1. CASE UNCHANGED ctrlWorkList
    BY <2>1 DEF Pending
  <2>2. ASSUME item.name = "THDSKIP", NEW c \in FeederCommands, Enlist(c)
        PROVE  \E k \in Pending' :
                  /\ Pending' = Pending \cup {k}
                  /\ \A n \in Service!Known : n < k.id
    <3> DEFINE new == ItemOf(c)
    <3>1. /\ Pending' = Pending \cup {new}
          /\ \A e \in Pending \cup Waiting : e.id < new.id
      BY <2>2, EnlistKnown, CallersIssueCommands
    <3> HIDE DEF new
    <3>2. \A n \in Service!Known : n < new.id
      BY <3>1 DEF Service!Known
    <3>3. new \in Pending'
      BY <3>1
    <3> QED
      BY <3>1, <3>2, <3>3
  <2> QED
    BY <1>8, <2>1, <2>2 DEF PmAction
<1>12. \A j \in Waiting :
          Service!ListOf(j.trigger) = Service!ListOf(item.trigger)
              => ~Service!Before(j, item)
  BY <1>2, <1>6, ServiceNames
<1>13. clock' = clock /\ (pc' = "clock") = (pc = "clock") /\ pc # "clock"
  BY <1>1
<1> QED
  BY <1>4, <1>5, <1>9, <1>10, <1>11, <1>12, <1>13 DEF Service!Perform

LEMMA BeginClockBegins ==
    ASSUME TypeOK, ~STOP_THREAD, BreakInv, RunInv, Apart(schedule), BeginClock
    PROVE  Service!BeginCycle
<1>1. /\ pc = "execute" /\ pc' = "clock" /\ ~sysBreak
      /\ \A l \in Honoured : clock[l] < stopAt[l]
      /\ UNCHANGED << ctrlWorkList, schedule, clock, pmStopped, pmExiting >>
  BY DEF BeginClock, Running, ctrlVars, sysVars
<1>2. ~pmStopped /\ ~pmExiting
  BY <1>1 DEF RunInv
<1>3. Pending = {}
  <2>1. ctrlWorkList = << >>
    BY <1>1 DEF BreakInv, Covered
  <2> QED
    BY <2>1 DEF Pending, ToSet
<1>4. ASSUME NEW i \in Waiting, ListOf(i.trigger) \in Honoured
      PROVE  ~Service!Due(i)
  <2> DEFINE l == ListOf(i.trigger)
  <2>1. /\ schedule \in [Lists -> Seq(WorkItems)] /\ Waiting = Contents(schedule)
        /\ l \in Lists /\ clock[l] \in Nat /\ stopAt[l] \in Nat
    BY ListOfType DEF TypeOK, SysTypeOK, Waiting, Contents
  <2>2. PICK k \in 1..Len(schedule[l]) : i = schedule[l][k]
    BY <2>1, ContentsAre DEF Apart
  <2>3. i \in WorkItems /\ i.actionTime \in Nat
    BY <2>1, <2>2, ElementOfSeq, NowIsZero
  <2>4. i.trigger # "NOW" /\ stopAt[l] <= i.actionTime
    BY <1>1, <2>1, <2>2 DEF RunInv
  <2>5. clock[l] < stopAt[l]
    BY <1>1, <1>4
  <2>6. ~(i.actionTime <= clock[l])
    BY <2>1, <2>3, <2>4, <2>5
  <2> QED
    BY <2>4, <2>6, ServiceNames DEF Service!Due
<1>5. Waiting' = Waiting /\ Pending' = Pending
  BY <1>1 DEF Waiting, Pending
<1>6. \A i \in Waiting : Service!ListOf(i.trigger) \in Honoured => ~Service!Due(i)
  BY <1>4, ServiceNames
<1> QED
  BY <1>1, <1>2, <1>3, <1>5, <1>6 DEF Service!BeginCycle

LEMMA EndClockEnds ==
    ASSUME OneByOne, TypeOK, TimeInv, RunInv, Apart(schedule),
           NEW d \in ClockSteps, EndClock(d)
    PROVE  Service!EndCycle
<1>1. /\ pc = "clock" /\ pc' = "execute"
      /\ UNCHANGED << ctrlWorkList, schedule, pmStopped, pmExiting >>
      /\ clock' = [l \in Lists |-> clock[l] + d[l]]
  BY DEF EndClock, Advance, ctrlVars
<1>2. AheadOf(schedule, clock')
  BY <1>1, EndClockTime DEF TimeInv, OnTime, AheadOf
<1>3. ASSUME NEW i \in Waiting, ListOf(i.trigger) \in Exact
      PROVE  clock'[ListOf(i.trigger)] <= i.actionTime
  <2> DEFINE l == ListOf(i.trigger)
  <2>1. /\ schedule \in [Lists -> Seq(WorkItems)] /\ Waiting = Contents(schedule)
        /\ l \in Lists
    BY ListOfType DEF TypeOK, Waiting, Contents
  <2>2. PICK k \in 1..Len(schedule[l]) : i = schedule[l][k]
    BY <2>1, ContentsAre DEF Apart
  <2>3. i.trigger # "NOW"
    BY <1>1, <2>1, <2>2 DEF RunInv
  <2> QED
    BY <1>2, <1>3, <2>2, <2>3 DEF AheadOf
<1>4. Waiting' = Waiting /\ Pending' = Pending
  BY <1>1 DEF Waiting, Pending
<1>5. \A i \in Waiting :
         LET l == Service!ListOf(i.trigger) IN
         l \in Service!Exact \cap Honoured => clock'[l] <= i.actionTime
  BY <1>3, ServiceNames
<1>6. clock' = [l \in Service!Lists |-> clock[l] + d[l]]
  BY <1>1, ServiceNames
<1> QED
  BY <1>1, <1>4, <1>5, <1>6 DEF Service!EndCycle

LEMMA ExitDiscards ==
    ASSUME Exit
    PROVE  Service!Discard
<1>1. /\ pc = "loop" /\ pc' = "exited" /\ pmExiting
      /\ ctrlWorkList' = << >> /\ schedule' = EmptySchedule
      /\ UNCHANGED << clock, pmStopped, pmExiting >>
  BY DEF Exit, sysVars
<1>2. Pending' = {}
  BY <1>1 DEF Pending, ToSet
<1>3. Waiting' = {}
  <2>1. \A l \in Lists : ToSet(schedule'[l]) = {}
    BY <1>1 DEF EmptySchedule, ToSet
  <2> QED
    BY <2>1 DEF Waiting
<1> QED
  BY <1>1, <1>2, <1>3 DEF Service!Discard

(* What remains changes nothing that the service sees.                     *)
LEMMA Unseen ==
    ASSUME UNCHANGED << ctrlWorkList, schedule, clock, pmStopped, pmExiting >>,
           (pc' = "clock") <=> (pc = "clock")
    PROVE  UNCHANGED Service!cvars
<1>1. Pending' = Pending /\ Waiting' = Waiting
  BY DEF Pending, Waiting
<1> QED
  BY <1>1 DEF Service!cvars

LEMMA ServiceStep ==
    OneByOne /\ ~STOP_THREAD /\ TypeOK /\ OrderInv /\ BreakInv /\ TimeInv
    /\ RunInv /\ Apart(schedule) /\ [Next]_vars
        => [Service!CNext]_(Service!cvars)
<1> SUFFICES ASSUME OneByOne, ~STOP_THREAD, TypeOK, OrderInv, BreakInv, TimeInv,
                    RunInv, Apart(schedule), [Next]_vars
             PROVE  [Service!CNext]_(Service!cvars)
  OBVIOUS
<1>1. SampledInv
  BY DEF TimeInv, SampledInv
<1>2. ASSUME NEW c \in AllCommands, Issue(c), UNCHANGED << pc, schedule, pmExiting, clock >>
      PROVE  Service!CNext
  <2>1. Waiting' = Waiting
    BY <1>2 DEF Waiting
  <2> QED
    BY <1>2, <2>1, IssueIsIssue DEF Issue, Service!CNext
<1>3. ASSUME NEW c \in FeederCommands, FeederInit(c)
      PROVE  Service!CNext
  <2>1. Waiting' = Waiting /\ c \in AllCommands
    BY <1>3, CallersIssueCommands DEF FeederInit, Waiting
  <2>2. pmStopped' = IF c.name = "START" THEN FALSE ELSE pmStopped
    BY <1>3 DEF FeederInit
  <2> QED
    BY <1>3, <2>1, <2>2, IssueIsIssue DEF FeederInit, sysVars, Service!CNext
<1>4. ASSUME NEW c \in StartupCommands, Startup(c)
      PROVE  Service!CNext
  BY <1>2, <1>4, CallersIssueCommands DEF Startup
<1>5. ASSUME NEW c \in WbCommands, BatchProgress(c)
      PROVE  Service!CNext
  BY <1>2, <1>5, CallersIssueCommands DEF BatchProgress
<1>6. ASSUME NEW c \in ChipCommands, DuringClock(c)
      PROVE  Service!CNext
  BY <1>2, <1>6, CallersIssueCommands DEF DuringClock
<1>7. CASE CheckExitConditions
  BY <1>7 DEF CheckExitConditions
<1>8. CASE ExecuteDone
  <2>1. UNCHANGED << schedule, pmExiting, clock >> /\ pc = "execute" /\ pc' = "loop"
    BY <1>8 DEF ExecuteDone
  <2>2. CASE markerHit
    <3> DEFINE stop == CMD_Stop("NOW", 0)
    <3>1. Issue(stop) /\ stop \in AllCommands
      BY <1>8, <2>2, CallersIssueCommands DEF ExecuteDone
    <3> HIDE DEF stop
    <3>2. Waiting' = Waiting
      BY <2>1 DEF Waiting
    <3> QED
      BY <2>1, <3>1, <3>2, IssueIsIssue DEF Issue, Service!CNext
  <2>3. CASE ~markerHit
    <3>1. UNCHANGED << ctrlWorkList, pmStopped >>
      BY <1>8, <2>3 DEF ExecuteDone
    <3> QED
      BY <2>1, <3>1, Unseen
  <2> QED
    BY <2>2, <2>3
<1>9. CASE DrainItem
  BY <1>1, <1>9, DrainItemAccepts DEF Service!CNext
<1>10. CASE DrainClearing
  BY <1>10, DrainClearingClears DEF Service!CNext
<1>11. CASE ReadyEvent
  <2>1. PICK k \in 1..Len(ReadyOrder) :
            ProcessEvent(ReadyOrder[k]) \/ Dies(ReadyOrder[k])
    BY <1>11 DEF ReadyEvent
  <2>2. CASE Dies(ReadyOrder[k])
    BY <1>11, <2>2, Unseen DEF ReadyEvent, Dies, ctrlVars, sysVars
  <2>3. CASE ProcessEvent(ReadyOrder[k])
    <3>1. pc = "ready"
      BY <1>11 DEF ReadyEvent
    <3> QED
      BY <1>1, <2>3, <3>1, ReadyOrderLists, ProcessEventPerforms DEF Service!CNext
  <2> QED
    BY <2>1, <2>2, <2>3
<1>12. CASE BeginClock
  BY <1>12, BeginClockBegins DEF Service!CNext
<1>13. ASSUME NEW d \in ClockSteps, EndClock(d)
       PROVE  Service!CNext
  BY <1>13, EndClockEnds DEF Service!CNext
<1>14. CASE Exit
  BY <1>14, ExitDiscards DEF Service!CNext
<1>15. CASE \/ Activated \/ Sample \/ ClearBreak \/ NoEventReady
            \/ AWB_InformProgress \/ BatchDone \/ Decide \/ Usage
            \/ \E success \in BOOLEAN : CMD_Init(success)
  BY <1>15, Unseen DEF Activated, Sample, ClearBreak, NoEventReady,
     AWB_InformProgress, BatchDone, Decide, Usage, CMD_Init, ctrlVars, sysVars
<1>16. CASE UNCHANGED vars
  BY <1>16, Unseen DEF vars, ctrlVars, sysVars
<1> QED
  BY <1>3, <1>4, <1>5, <1>6, <1>7, <1>8, <1>9, <1>10, <1>11, <1>12, <1>13, <1>14,
     <1>15, <1>16 DEF Next, Loop, Calls

(***************************************************************************)
(* The controller keeps its promise to those who issue commands: on a      *)
(* system whose clocks step through cycles and nanoseconds one by one, and *)
(* where a thread's end asks for no exit, every step of the loop is a step *)
(* of CommandService or none at all.                                       *)
(***************************************************************************)
THEOREM PromiseIsKept ==
    ASSUME OneByOne, ~STOP_THREAD
    PROVE  Spec => KeepsPromise
<1>1. Init => Service!CInit
  <2> SUFFICES ASSUME Init
               PROVE  Service!CInit
    OBVIOUS
  <2>1. Pending = {} /\ Waiting = {}
    BY DEF Init, EmptySchedule, Pending, Waiting, ToSet
  <2> QED
    BY <2>1, ServiceNames DEF Init, SysInit, Service!CInit
<1>2. Init => /\ TypeOK /\ OrderInv /\ BreakInv /\ TimeInv
              /\ HeadsAhead /\ RunInv /\ Apart(schedule)
  BY TypeInit, OrderInit, BreakInit, TimeInit, ApartInit DEF Init, HeadsAhead, RunInv
<1> DEFINE IInv == /\ TypeOK /\ OrderInv /\ BreakInv /\ TimeInv
                   /\ HeadsAhead /\ RunInv /\ Apart(schedule)
<1>3. IInv /\ [Next]_vars => IInv'
  BY TypeStep, OrderStep, BreakStep, TimeStep, HeadsStep, RunStep, ApartStep DEF Apart
<1>4. IInv /\ [Next]_vars => [Service!CNext]_(Service!cvars)
  BY ServiceStep
<1> HIDE DEF IInv
<1>5. Init => IInv
  BY <1>2 DEF IInv
<1> QED
  BY <1>1, <1>3, <1>4, <1>5, PTL DEF Spec, KeepsPromise, Service!CSpec
=============================================================================
