--------------------------- MODULE ScheduleProofs ---------------------------
(***************************************************************************)
(* Lemmas about the operations of a work list and of the schedule: the     *)
(* types of what they return, what they keep, and the order they keep.     *)
(***************************************************************************)
EXTENDS Schedule, SequenceTheorems, FiniteSetTheorems, TLAPS

(***************************************************************************)
(* A nonempty set of natural numbers has a least element: the interval     *)
(* from 0 to a number shrinks as the number does, and strict inclusion of  *)
(* finite sets is well founded.                                            *)
(***************************************************************************)
LEMMA LeastNumber ==
    ASSUME NEW T \in SUBSET Nat, T # {}
    PROVE  \E n \in T : \A m \in T : n <= m
<1> PICK top \in T : TRUE
  OBVIOUS
<1> DEFINE S == 0..top
           F == {0..n : n \in {k \in T : k <= top}}
<1>1. IsFiniteSet(S)
  BY FS_Interval
<1>2. F # {} /\ F \subseteq SUBSET S
  OBVIOUS
<1>3. PICK X \in F : \A Y \in F : <<Y, X>> \notin StrictSubsetOrdering(S)
  <2> DEFINE R == StrictSubsetOrdering(S)
             D == SUBSET S
  <2>1. IsWellFoundedOn(R, D)
    BY <1>1, FS_FiniteSubsetsOfFinite, FS_StrictSubsetOrderingWellFounded
  <2> HIDE DEF F, S, R, D
  <2>2. F \subseteq D /\ F # {}
    BY <1>2 DEF D
  <2>3. \E X \in F : \A Y \in F : ~(<<Y, X>> \in R)
    BY <2>1, <2>2, WFMin
  <2> QED
    BY <2>3 DEF R
<1>4. PICK n \in T : n <= top /\ X = 0..n
  OBVIOUS
<1>5. ASSUME NEW m \in T, m < n
      PROVE  FALSE
  <2>1. 0..m \in F /\ 0..m # 0..n /\ 0..m \subseteq 0..n
    BY <1>4, <1>5
  <2> QED
    BY <1>2, <1>3, <1>4, <2>1 DEF StrictSubsetOrdering
<1> QED
  BY <1>5

(***************************************************************************)
(* NotLater is well defined: the scan of InsertOrdered stops at the first  *)
(* item that is later than the new one, or at the end.                     *)
(***************************************************************************)
LEMMA NotLaterProperties ==
    ASSUME NEW list \in Seq(Items), NEW wi \in Items
    PROVE  /\ NotLater(list, wi) \in 0..Len(list)
           /\ \A i \in 1..NotLater(list, wi) :
                 list[i].actionTime <= wi.actionTime
           /\ NotLater(list, wi) < Len(list) =>
                 list[NotLater(list, wi) + 1].actionTime > wi.actionTime
<1> DEFINE P(k) == /\ \A i \in 1..k : list[i].actionTime <= wi.actionTime
                   /\ k < Len(list) => list[k + 1].actionTime > wi.actionTime
           T == {i \in 1..Len(list) : list[i].actionTime > wi.actionTime}
<1>1. Len(list) \in Nat /\ wi.actionTime \in Nat
      /\ \A i \in 1..Len(list) : list[i].actionTime \in Nat
  <2>1. \A i \in 1..Len(list) : list[i] \in Items
    BY ElementOfSeq
  <2> QED
    BY <2>1 DEF Items
<1>2. \E k \in 0..Len(list) : P(k)
  <2>1. CASE T = {}
    BY <1>1, <2>1
  <2>2. CASE T # {}
    <3>1. PICK n \in T : \A m \in T : n <= m
      <4>1. T \in SUBSET Nat
        BY <1>1
      <4> HIDE DEF T
      <4> QED
        BY <2>2, <4>1, LeastNumber
    <3>2. n - 1 \in 0..Len(list) /\ P(n - 1)
      BY <1>1, <3>1
    <3> QED
      BY <3>2
  <2> QED
    BY <2>1, <2>2
<1>3. NotLater(list, wi) = CHOOSE k \in 0..Len(list) : P(k)
  BY DEF NotLater
<1> HIDE DEF P
<1>4. NotLater(list, wi) \in 0..Len(list) /\ P(NotLater(list, wi))
  BY <1>2, <1>3
<1> QED
  BY <1>4 DEF P

(***************************************************************************)
(* Where the items of the list and the new item are afterwards.            *)
(***************************************************************************)
LEMMA InsertOrderedProperties ==
    ASSUME NEW S \in SUBSET Items, NEW list \in Seq(S), NEW wi \in S
    PROVE  LET k   == NotLater(list, wi)
               new == InsertOrdered(list, wi)
           IN  /\ new \in Seq(S)
               /\ Len(new) = Len(list) + 1
               /\ \A i \in 1..Len(new) :
                     new[i] = IF i <= k THEN list[i]
                              ELSE IF i = k + 1 THEN wi ELSE list[i - 1]
<1> DEFINE k == NotLater(list, wi)
           front == SubSeq(list, 1, k)
           back  == SubSeq(list, k + 1, Len(list))
<1>1. k \in 0..Len(list) /\ Len(list) \in Nat
  <2>1. list \in Seq(Items)
    BY SeqMonotonic
  <2> QED
    BY <2>1, NotLaterProperties
<1>2. InsertOrdered(list, wi) = (front \o <<wi>>) \o back
  <2>1. (k + 1) - 1 = k
    BY <1>1
  <2> QED
    BY <2>1 DEF InsertOrdered, InsertAt
<1> HIDE DEF k
<1>3. /\ front \in Seq(S) /\ Len(front) = k
      /\ \A i \in 1..k : front[i] = list[i]
  <2>1. \A i \in 1..k : list[i] \in S
    BY <1>1, ElementOfSeq
  <2> QED
    BY <1>1, <2>1, SubSeqProperties
<1>4. /\ back \in Seq(S) /\ Len(back) = Len(list) - k
      /\ \A i \in 1..(Len(list) - k) : back[i] = list[i + k]
  <2>1. \A i \in (k + 1)..Len(list) : list[i] \in S
    BY <1>1, ElementOfSeq
  <2>2. /\ back \in Seq(S)
        /\ Len(back) = IF k + 1 <= Len(list) THEN Len(list) - (k + 1) + 1 ELSE 0
        /\ \A i \in 1..(Len(list) - (k + 1) + 1) : back[i] = list[(k + 1) + i - 1]
    BY <1>1, <2>1, SubSeqProperties
  <2> QED
    BY <1>1, <2>2
<1> HIDE DEF front, back
<1>5. <<wi>> \in Seq(S) /\ Len(<<wi>>) = 1 /\ <<wi>>[1] = wi
  OBVIOUS
<1> DEFINE fw == front \o <<wi>>
<1>6. /\ fw \in Seq(S)
      /\ Len(fw) = k + 1
      /\ \A i \in 1..(k + 1) : fw[i] = IF i <= k THEN list[i] ELSE wi
  BY <1>1, <1>3, <1>5, ConcatProperties
<1> HIDE DEF fw
<1>7. /\ fw \o back \in Seq(S)
      /\ Len(fw \o back) = (k + 1) + (Len(list) - k)
      /\ \A i \in 1..((k + 1) + (Len(list) - k)) :
            (fw \o back)[i] = IF i <= k + 1 THEN fw[i] ELSE back[i - (k + 1)]
  <2>1. fw \in Seq(S) /\ back \in Seq(S)
    BY <1>4, <1>6
  <2>2. /\ fw \o back \in Seq(S)
        /\ Len(fw \o back) = Len(fw) + Len(back)
        /\ \A i \in 1..(Len(fw) + Len(back)) :
              (fw \o back)[i] = IF i <= Len(fw) THEN fw[i]
                                ELSE back[i - Len(fw)]
    BY <2>1, ConcatProperties
  <2>3. Len(fw) = k + 1 /\ Len(back) = Len(list) - k
    BY <1>4, <1>6
  <2> QED
    BY <2>2, <2>3
<1> DEFINE new == fw \o back
<1> HIDE DEF new
<1>8. /\ new \in Seq(S)
      /\ Len(new) = Len(list) + 1
      /\ \A i \in 1..Len(new) :
            new[i] = IF i <= k THEN list[i]
                     ELSE IF i = k + 1 THEN wi ELSE list[i - 1]
  <2>1. (k + 1) + (Len(list) - k) = Len(list) + 1
    BY <1>1
  <2>2. \A i \in 1..(Len(list) + 1) :
           new[i] = IF i <= k + 1 THEN fw[i] ELSE back[i - (k + 1)]
    BY <1>7, <2>1 DEF new
  <2>3. \A i \in 1..(Len(list) + 1) :
           i > k + 1 => back[i - (k + 1)] = list[i - 1]
    <3> SUFFICES ASSUME NEW i \in 1..(Len(list) + 1), i > k + 1
                 PROVE  back[i - (k + 1)] = list[i - 1]
      OBVIOUS
    <3>1. i - (k + 1) \in 1..(Len(list) - k)
      BY <1>1
    <3>2. (i - (k + 1)) + k = i - 1
      BY <1>1
    <3> QED
      BY <1>4, <3>1, <3>2
  <2> QED
    BY <1>1, <1>6, <1>7, <2>1, <2>2, <2>3 DEF new
<1> QED
  BY <1>2, <1>8 DEF fw, new, k

(***************************************************************************)
(* Insertion keeps a list in order, if the new item is periodic or younger *)
(* than every item of the list.                                            *)
(***************************************************************************)
LEMMA InsertKeepsOrder ==
    ASSUME NEW list \in Seq(Items), NEW wi \in Items, InOrder(list),
           \/ Periodic(wi.trigger)
           \/ \A i \in 1..Len(list) : list[i].id < wi.id
    PROVE  InOrder(InsertOrdered(list, wi))
<1> DEFINE k == NotLater(list, wi)
           new == InsertOrdered(list, wi)
<1>1. /\ k \in 0..Len(list) /\ Len(list) \in Nat
      /\ \A i \in 1..k : list[i].actionTime <= wi.actionTime
      /\ k < Len(list) => list[k + 1].actionTime > wi.actionTime
  BY NotLaterProperties
<1>2. /\ Len(new) = Len(list) + 1
      /\ \A i \in 1..Len(new) :
            new[i] = IF i <= k THEN list[i]
                     ELSE IF i = k + 1 THEN wi ELSE list[i - 1]
  <2>1. Items \in SUBSET Items
    OBVIOUS
  <2> QED
    BY <2>1, InsertOrderedProperties
<1>3. /\ wi.actionTime \in Nat
      /\ \A i \in 1..Len(list) : list[i].actionTime \in Nat
  <2>1. \A i \in 1..Len(list) : list[i] \in Items
    BY ElementOfSeq
  <2> QED
    BY <2>1 DEF Items
<1> HIDE DEF k, new
<1> SUFFICES ASSUME NEW j \in 1..Len(new), NEW i \in 1..(j - 1)
             PROVE  Precedes(new[i], new[j])
  BY DEF InOrder, new
<1>4. i \in 1..Len(new) /\ j \in Int /\ i \in Int /\ i < j
  BY <1>1, <1>2
<1>5. \A m \in 1..Len(list) : \A n \in 1..(m - 1) : Precedes(list[n], list[m])
  BY DEF InOrder
<1>6. CASE j <= k
  BY <1>1, <1>2, <1>4, <1>5, <1>6
<1>7. CASE j = k + 1
  <2>1. new[j] = wi /\ new[i] = list[i] /\ i \in 1..k /\ i \in 1..Len(list)
    BY <1>1, <1>2, <1>4, <1>7
  <2>2. list[i].actionTime <= wi.actionTime
    BY <1>1, <2>1
  <2> QED
    BY <2>1, <2>2 DEF Precedes
<1>8. CASE j > k + 1 /\ i # k + 1
  <2> DEFINE m == j - 1
             n == IF i <= k THEN i ELSE i - 1
  <2>1. m \in 1..Len(list) /\ n \in 1..(m - 1)
    BY <1>1, <1>2, <1>4, <1>8
  <2>2. new[j] = list[m] /\ new[i] = list[n]
    BY <1>1, <1>2, <1>4, <1>8
  <2> QED
    BY <1>5, <2>1, <2>2
<1>9. CASE j > k + 1 /\ i = k + 1
  <2>1. j - 1 \in 1..Len(list) /\ k + 1 \in 1..Len(list) /\ k < Len(list)
    BY <1>1, <1>2, <1>4, <1>9
  <2>2. new[i] = wi /\ new[j] = list[j - 1]
    BY <1>1, <1>2, <1>4, <1>9
  <2>3. list[k + 1].actionTime > wi.actionTime
    BY <1>1, <2>1
  <2>4. list[k + 1].actionTime <= list[j - 1].actionTime
    <3>1. CASE j - 1 = k + 1
      BY <1>3, <2>1, <3>1
    <3>2. CASE j - 1 # k + 1
      <4>1. k + 1 \in 1..((j - 1) - 1)
        BY <1>1, <1>4, <1>9, <2>1, <3>2
      <4> QED
        BY <1>5, <2>1, <4>1 DEF Precedes
    <3> QED
      BY <3>1, <3>2
  <2> QED
    BY <1>3, <2>1, <2>2, <2>3, <2>4 DEF Precedes
<1> QED
  BY <1>1, <1>4, <1>6, <1>7, <1>8, <1>9

(***************************************************************************)
(* Taking one item out of a list.                                          *)
(***************************************************************************)
LEMMA RemoveAtProperties ==
    ASSUME NEW S, NEW list \in Seq(S), NEW p \in 1..Len(list)
    PROVE  LET new == RemoveAt(list, p)
           IN  /\ new \in Seq(S)
               /\ Len(new) = Len(list) - 1
               /\ \A i \in 1..Len(new) :
                     new[i] = IF i < p THEN list[i] ELSE list[i + 1]
<1> DEFINE front == SubSeq(list, 1, p - 1)
           back  == SubSeq(list, p + 1, Len(list))
           new   == RemoveAt(list, p)
<1>1. Len(list) \in Nat /\ p \in Nat /\ \A i \in 1..Len(list) : list[i] \in S
  BY ElementOfSeq
<1>2. /\ front \in Seq(S) /\ Len(front) = p - 1
      /\ \A i \in 1..(p - 1) : front[i] = list[i]
  <2>1. \A i \in 1..(p - 1) : list[i] \in S
    BY <1>1
  <2>2. /\ front \in Seq(S)
        /\ Len(front) = IF 1 <= p - 1 THEN (p - 1) - 1 + 1 ELSE 0
        /\ \A i \in 1..((p - 1) - 1 + 1) : front[i] = list[1 + i - 1]
    BY <1>1, <2>1, SubSeqProperties
  <2> QED
    BY <1>1, <2>2
<1>3. /\ back \in Seq(S) /\ Len(back) = Len(list) - p
      /\ \A i \in 1..(Len(list) - p) : back[i] = list[i + p]
  <2>1. \A i \in (p + 1)..Len(list) : list[i] \in S
    BY <1>1
  <2>2. /\ back \in Seq(S)
        /\ Len(back) = IF p + 1 <= Len(list) THEN Len(list) - (p + 1) + 1 ELSE 0
        /\ \A i \in 1..(Len(list) - (p + 1) + 1) : back[i] = list[(p + 1) + i - 1]
    BY <1>1, <2>1, SubSeqProperties
  <2> QED
    BY <1>1, <2>2
<1>4. new = front \o back
  BY DEF RemoveAt
<1> HIDE DEF front, back, new
<1>5. /\ new \in Seq(S)
      /\ Len(new) = Len(front) + Len(back)
      /\ \A i \in 1..(Len(front) + Len(back)) :
            new[i] = IF i <= Len(front) THEN front[i] ELSE back[i - Len(front)]
  <2>1. front \in Seq(S) /\ back \in Seq(S)
    BY <1>2, <1>3
  <2>2. /\ front \o back \in Seq(S)
        /\ Len(front \o back) = Len(front) + Len(back)
        /\ \A i \in 1..(Len(front) + Len(back)) :
              (front \o back)[i] = IF i <= Len(front) THEN front[i]
                                   ELSE back[i - Len(front)]
    BY <2>1, ConcatProperties
  <2> QED
    BY <1>4, <2>2
<1>6. Len(front) + Len(back) = Len(list) - 1
  BY <1>1, <1>2, <1>3
<1>7. ASSUME NEW i \in 1..(Len(list) - 1)
      PROVE  new[i] = IF i < p THEN list[i] ELSE list[i + 1]
  <2>1. CASE i < p
    BY <1>1, <1>2, <1>5, <1>6, <2>1
  <2>2. CASE ~(i < p)
    <3>1. new[i] = back[i - (p - 1)]
      BY <1>1, <1>2, <1>5, <1>6, <2>2
    <3>2. i - (p - 1) \in 1..(Len(list) - p) /\ (i - (p - 1)) + p = i + 1
      BY <1>1, <2>2
    <3> QED
      BY <1>3, <2>2, <3>1, <3>2
  <2> QED
    BY <2>1, <2>2
<1> QED
  BY <1>5, <1>6, <1>7 DEF new

LEMMA FirstProgressProperties ==
    ASSUME NEW list \in Seq(Items), ProgressAt(list) # {}
    PROVE  /\ FirstProgress(list) \in 1..Len(list)
           /\ list[FirstProgress(list)].name = "PROGRESS"
<1> DEFINE T == ProgressAt(list)
<1>1. T \in SUBSET Nat /\ T \subseteq 1..Len(list)
  BY DEF ProgressAt
<1>2. \E i \in T : \A j \in T : i <= j
  <2> HIDE DEF T
  <2> QED
    BY <1>1, LeastNumber DEF T
<1>3. FirstProgress(list) \in T
  BY <1>2 DEF FirstProgress
<1> QED
  BY <1>1, <1>3 DEF ProgressAt

(***************************************************************************)
(* A list whose items are some of the items of an ordered list, in the     *)
(* same order, is in order.                                                *)
(***************************************************************************)
LEMMA RemoveKeepsOrder ==
    ASSUME NEW list \in Seq(Items), NEW p \in 1..Len(list), InOrder(list)
    PROVE  InOrder(RemoveAt(list, p))
<1> DEFINE new == RemoveAt(list, p)
           at(i) == IF i < p THEN i ELSE i + 1
<1>1. Len(new) = Len(list) - 1 /\ \A i \in 1..Len(new) : new[i] = list[at(i)]
  <2>1. \A i \in 1..Len(new) : new[i] = IF i < p THEN list[i] ELSE list[i + 1]
    BY RemoveAtProperties
  <2>2. Len(new) = Len(list) - 1
    BY RemoveAtProperties
  <2> QED
    BY <2>1, <2>2
<1> HIDE DEF new
<1>2. ASSUME NEW j \in 1..Len(new), NEW i \in 1..(j - 1)
      PROVE  Precedes(new[i], new[j])
  <2>1. i \in 1..Len(new) /\ at(j) \in 1..Len(list) /\ at(i) \in 1..(at(j) - 1)
    BY <1>1
  <2> QED
    BY <1>1, <2>1 DEF InOrder
<1> QED
  BY <1>2 DEF InOrder, new

LEMMA TailKeepsOrder ==
    ASSUME NEW list \in Seq(Items), list # << >>, InOrder(list)
    PROVE  InOrder(Tail(list))
<1>1. /\ Len(Tail(list)) = Len(list) - 1
      /\ \A i \in 1..Len(Tail(list)) : Tail(list)[i] = list[i + 1]
  BY HeadTailProperties
<1>2. ASSUME NEW j \in 1..Len(Tail(list)), NEW i \in 1..(j - 1)
      PROVE  Precedes(Tail(list)[i], Tail(list)[j])
  <2>1. /\ i \in 1..Len(Tail(list))
        /\ j + 1 \in 1..Len(list) /\ i + 1 \in 1..((j + 1) - 1)
    BY <1>1
  <2> QED
    BY <1>1, <2>1 DEF InOrder
<1> QED
  BY <1>2 DEF InOrder

-----------------------------------------------------------------------------
(***************************************************************************)
(* The schedule: one work list per unit of time.                           *)
(***************************************************************************)
LEMMA NextDueType ==
    ASSUME NEW trigger, NEW current \in Nat, NEW period \in Nat, period > 0
    PROVE  NextDue(trigger, current, period) \in Nat
<1>1. ASSUME NEW x \in Nat
      PROVE  (x \div period) * period \in Nat
  <2>1. x \div period \in Nat
    OBVIOUS
  <2> QED
    BY <2>1
<1>2. current + period \in Nat /\ current + 1 + period \in Nat
  OBVIOUS
<1> QED
  BY <1>1, <1>2 DEF NextDue

LEMMA ListOfType == \A trigger : ListOf(trigger) \in Lists
BY DEF ListOf, Lists

LEMMA WorkItemsAreItems == WorkItems \in SUBSET Items
BY DEF WorkItems

LEMMA TimedType ==
    ASSUME NEW item \in WorkItems, NEW time \in [Lists -> Nat]
    PROVE  Timed(item, time) \in WorkItems
<1>1. CASE Periodic(item.trigger)
  <2>1. time[ListOf(item.trigger)] \in Nat
    BY ListOfType
  <2> DEFINE due == NextDue(item.trigger, time[ListOf(item.trigger)], item.period)
  <2>2. due \in Nat
    BY <1>1, <2>1, NextDueType DEF WorkItems, Items
  <2> HIDE DEF due
  <2>3. item.trigger # "NOW"
    BY <1>1 DEF Periodic
  <2>4. [item EXCEPT !.actionTime = due] \in WorkItems
    BY <1>1, <2>2, <2>3 DEF WorkItems, Items
  <2> QED
    BY <1>1, <2>4 DEF Timed, due
<1>2. CASE ~Periodic(item.trigger)
  BY <1>2 DEF Timed
<1> QED
  BY <1>1, <1>2

LEMMA ScheduledType ==
    ASSUME NEW sched \in [Lists -> Seq(WorkItems)], NEW item \in WorkItems,
           NEW time \in [Lists -> Nat]
    PROVE  Scheduled(sched, item, time) \in [Lists -> Seq(WorkItems)]
<1> DEFINE l == ListOf(item.trigger)
           w == Timed(item, time)
<1>1. l \in Lists /\ w \in WorkItems
  BY ListOfType, TimedType
<1> HIDE DEF l, w
<1>2. InsertOrdered(sched[l], w) \in Seq(WorkItems)
  <2>1. sched[l] \in Seq(WorkItems)
    BY <1>1
  <2> QED
    BY <1>1, <2>1, WorkItemsAreItems, InsertOrderedProperties
<1> QED
  BY <1>1, <1>2 DEF Scheduled, l, w

-----------------------------------------------------------------------------
(***************************************************************************)
(* Order.  "list" is the controller's work list and n the number of items  *)
(* created so far.  The ids of the work list rise, and what is scheduled   *)
(* was created before what is not: this is why inserting the head of the   *)
(* work list behind its equals keeps each list in order.                   *)
(***************************************************************************)
QueueInv(list, n) ==
    /\ \A j \in 1..Len(list) : list[j].id <= n
    /\ \A j \in 1..Len(list) : \A i \in 1..(j - 1) : list[i].id < list[j].id

OlderThan(seq, id) == \A k \in 1..Len(seq) : seq[k].id < id

SchedInv(sched, list, n) ==
    \A l \in Lists :
        /\ InOrder(sched[l])
        /\ OlderThan(sched[l], n + 1)
        /\ \A j \in 1..Len(list) : OlderThan(sched[l], list[j].id)

LEMMA TimedKeeps ==
    ASSUME NEW item \in WorkItems, NEW time
    PROVE  /\ Timed(item, time).id = item.id
           /\ Timed(item, time).trigger = item.trigger
BY DEF Timed, WorkItems, Items

LEMMA InsertOlder ==
    ASSUME NEW seq \in Seq(WorkItems), NEW wi \in WorkItems, NEW id \in Nat,
           OlderThan(seq, id), wi.id < id
    PROVE  OlderThan(InsertOrdered(seq, wi), id)
<1> DEFINE k == NotLater(seq, wi)
           new == InsertOrdered(seq, wi)
<1>1. /\ Len(new) = Len(seq) + 1
      /\ \A i \in 1..Len(new) :
            new[i] = IF i <= k THEN seq[i]
                     ELSE IF i = k + 1 THEN wi ELSE seq[i - 1]
  BY InsertOrderedProperties, WorkItemsAreItems
<1>2. k \in 0..Len(seq) /\ Len(seq) \in Nat
  BY NotLaterProperties, WorkItemsAreItems
<1> HIDE DEF k, new
<1>3. ASSUME NEW i \in 1..Len(new)
      PROVE  new[i].id < id
  <2>1. CASE i <= k
    BY <1>1, <1>2, <2>1 DEF OlderThan
  <2>2. CASE i = k + 1
    BY <1>1, <1>2, <2>2
  <2>3. CASE i > k + 1
    <3>1. i - 1 \in 1..Len(seq) /\ new[i] = seq[i - 1]
      BY <1>1, <1>2, <2>3
    <3> QED
      BY <3>1 DEF OlderThan
  <2> QED
    BY <1>2, <2>1, <2>2, <2>3
<1> QED
  BY <1>3 DEF OlderThan, new

LEMMA ScheduledOrder ==
    ASSUME NEW sched \in [Lists -> Seq(WorkItems)], NEW list \in Seq(WorkItems),
           NEW n \in Nat, NEW item \in WorkItems, NEW time \in [Lists -> Nat],
           SchedInv(sched, list, n),
           item.id <= n,
           \A j \in 1..Len(list) : item.id < list[j].id,
           \/ Periodic(item.trigger)
           \/ OlderThan(sched[ListOf(item.trigger)], item.id)
    PROVE  SchedInv(Scheduled(sched, item, time), list, n)
<1> DEFINE m == ListOf(item.trigger)
           w == Timed(item, time)
           new == InsertOrdered(sched[m], w)
<1>1. /\ m \in Lists /\ w \in WorkItems /\ w.id = item.id
      /\ w.trigger = item.trigger
  BY ListOfType, TimedType, TimedKeeps
<1>2. sched[m] \in Seq(WorkItems) /\ item.id \in Nat
  BY <1>1 DEF WorkItems, Items
<1>3. Periodic(w.trigger) \/ OlderThan(sched[m], w.id)
  BY <1>1
<1>4. Scheduled(sched, item, time) = [sched EXCEPT ![m] = new]
  BY DEF Scheduled
<1> HIDE DEF m, w
<1>5. InOrder(new)
  <2>1. InOrder(sched[m])
    BY <1>1 DEF SchedInv
  <2>2. sched[m] \in Seq(Items) /\ w \in Items
    BY <1>1, <1>2, WorkItemsAreItems, SeqMonotonic
  <2>3. Periodic(w.trigger) \/ \A i \in 1..Len(sched[m]) : sched[m][i].id < w.id
    BY <1>3 DEF OlderThan
  <2> QED
    BY <2>1, <2>2, <2>3, InsertKeepsOrder
<1>6. OlderThan(new, n + 1)
  BY <1>1, <1>2, InsertOlder DEF SchedInv
<1>7. ASSUME NEW j \in 1..Len(list)
      PROVE  OlderThan(new, list[j].id)
  <2>1. list[j] \in WorkItems
    BY ElementOfSeq
  <2>2. list[j].id \in Nat
    BY <2>1 DEF WorkItems, Items
  <2> QED
    BY <1>1, <1>2, <2>2, InsertOlder DEF SchedInv
<1> HIDE DEF new
<1> QED
  BY <1>1, <1>4, <1>5, <1>6, <1>7 DEF SchedInv

(* Taking items out of a list of the schedule.                             *)
LEMMA ThinnedOrder ==
    ASSUME NEW sched \in [Lists -> Seq(WorkItems)], NEW list, NEW n \in Nat,
           SchedInv(sched, list, n),
           NEW m \in Lists, NEW new \in Seq(WorkItems), InOrder(new),
           \A i \in 1..Len(new) : \E k \in 1..Len(sched[m]) : new[i] = sched[m][k]
    PROVE  SchedInv([sched EXCEPT ![m] = new], list, n)
<1>1. ASSUME NEW id, OlderThan(sched[m], id)
      PROVE  OlderThan(new, id)
  BY <1>1 DEF OlderThan
<1> QED
  BY <1>1 DEF SchedInv

LEMMA TailOrder ==
    ASSUME NEW sched \in [Lists -> Seq(WorkItems)], NEW list, NEW n \in Nat,
           SchedInv(sched, list, n), NEW m \in Lists, sched[m] # << >>
    PROVE  SchedInv([sched EXCEPT ![m] = Tail(@)], list, n)
<1> DEFINE new == Tail(sched[m])
<1>1. sched[m] \in Seq(WorkItems) /\ sched[m] \in Seq(Items)
  BY WorkItemsAreItems, SeqMonotonic
<1>2. new \in Seq(WorkItems) /\ Len(new) = Len(sched[m]) - 1
  BY <1>1, HeadTailProperties
<1>3. \A i \in 1..Len(new) : i + 1 \in 1..Len(sched[m]) /\ new[i] = sched[m][i + 1]
  BY <1>1, HeadTailProperties
<1>4. InOrder(new)
  BY <1>1, TailKeepsOrder DEF SchedInv
<1> HIDE DEF new
<1>5. SchedInv([sched EXCEPT ![m] = new], list, n)
  BY <1>2, <1>3, <1>4, ThinnedOrder
<1> QED
  BY <1>5 DEF new

LEMMA RemoveOrder ==
    ASSUME NEW sched \in [Lists -> Seq(WorkItems)], NEW list, NEW n \in Nat,
           SchedInv(sched, list, n), NEW m \in Lists,
           ProgressAt(sched[m]) # {}
    PROVE  SchedInv([sched EXCEPT ![m] = WithoutFirstProgress(@)], list, n)
<1> DEFINE p == FirstProgress(sched[m])
           new == RemoveAt(sched[m], p)
<1>1. sched[m] \in Seq(WorkItems) /\ sched[m] \in Seq(Items)
  BY WorkItemsAreItems, SeqMonotonic
<1>2. p \in 1..Len(sched[m]) /\ Len(sched[m]) \in Nat
  BY <1>1, FirstProgressProperties
<1> HIDE DEF p
<1>3. /\ new \in Seq(WorkItems) /\ Len(new) = Len(sched[m]) - 1
      /\ \A i \in 1..Len(new) :
            new[i] = IF i < p THEN sched[m][i] ELSE sched[m][i + 1]
  BY <1>1, <1>2, RemoveAtProperties
<1>4. InOrder(new)
  BY <1>1, <1>2, RemoveKeepsOrder DEF SchedInv
<1> HIDE DEF new
<1>5. ASSUME NEW i \in 1..Len(new)
      PROVE  \E k \in 1..Len(sched[m]) : new[i] = sched[m][k]
  <2>1. i \in 1..Len(sched[m]) /\ i + 1 \in 1..Len(sched[m])
    BY <1>2, <1>3
  <2> QED
    BY <1>3, <2>1
<1>6. SchedInv([sched EXCEPT ![m] = new], list, n)
  BY <1>3, <1>4, <1>5, ThinnedOrder
<1> QED
  BY <1>6 DEF new, p, WithoutFirstProgress

(* A new item on the work list.                                            *)
LEMMA AppendOrder ==
    ASSUME NEW sched \in [Lists -> Seq(WorkItems)], NEW list \in Seq(WorkItems),
           NEW n \in Nat, NEW item \in WorkItems, item.id = n + 1,
           QueueInv(list, n), SchedInv(sched, list, n)
    PROVE  /\ QueueInv(Append(list, item), n + 1)
           /\ SchedInv(sched, Append(list, item), n + 1)
<1> DEFINE new == Append(list, item)
<1>1. /\ Len(new) = Len(list) + 1
      /\ Len(list) \in Nat
      /\ \A j \in 1..Len(list) : new[j] = list[j]
      /\ new[Len(list) + 1] = item
  OBVIOUS
<1>2. \A j \in 1..Len(list) : list[j].id \in Nat
  <2>1. \A j \in 1..Len(list) : list[j] \in WorkItems
    BY ElementOfSeq
  <2> QED
    BY <2>1 DEF WorkItems, Items
<1> HIDE DEF new
<1>3. QueueInv(new, n + 1)
  <2>1. \A j \in 1..Len(new) : new[j].id <= n + 1
    BY <1>1, <1>2 DEF QueueInv
  <2>2. ASSUME NEW j \in 1..Len(new), NEW i \in 1..(j - 1)
        PROVE  new[i].id < new[j].id
    <3>1. CASE j \in 1..Len(list)
      BY <1>1, <3>1 DEF QueueInv
    <3>2. CASE j = Len(list) + 1
      BY <1>1, <1>2, <3>2 DEF QueueInv
    <3> QED
      BY <1>1, <3>1, <3>2
  <2> QED
    BY <2>1, <2>2 DEF QueueInv
<1>4. ASSUME NEW l \in Lists
      PROVE  /\ OlderThan(sched[l], n + 1 + 1)
             /\ \A j \in 1..Len(new) : OlderThan(sched[l], new[j].id)
  <2>1. OlderThan(sched[l], n + 1)
    BY DEF SchedInv
  <2>2. \A k \in 1..Len(sched[l]) : sched[l][k].id \in Nat
    <3>1. \A k \in 1..Len(sched[l]) : sched[l][k] \in WorkItems
      BY ElementOfSeq
    <3> QED
      BY <3>1 DEF WorkItems, Items
  <2>3. OlderThan(sched[l], n + 1 + 1)
    BY <2>1, <2>2 DEF OlderThan
  <2>4. ASSUME NEW j \in 1..Len(new)
        PROVE  OlderThan(sched[l], new[j].id)
    <3>1. CASE j \in 1..Len(list)
      BY <1>1, <3>1 DEF SchedInv
    <3>2. CASE j = Len(list) + 1
      BY <1>1, <2>1, <3>2
    <3> QED
      BY <1>1, <3>1, <3>2
  <2> QED
    BY <2>3, <2>4
<1> QED
  BY <1>3, <1>4 DEF SchedInv, new

(* The head of the work list goes to the schedule.                         *)
LEMMA DrainOrder ==
    ASSUME NEW sched \in [Lists -> Seq(WorkItems)], NEW list \in Seq(WorkItems),
           NEW n \in Nat, NEW time \in [Lists -> Nat], list # << >>,
           QueueInv(list, n), SchedInv(sched, list, n)
    PROVE  /\ QueueInv(Tail(list), n)
           /\ SchedInv(sched, Tail(list), n)
           /\ SchedInv(Scheduled(sched, Head(list), time), Tail(list), n)
<1> DEFINE item == Head(list)
           rest == Tail(list)
<1>1. /\ Len(list) \in Nat /\ 1 \in 1..Len(list)
      /\ item = list[1] /\ item \in WorkItems
      /\ rest \in Seq(WorkItems) /\ Len(rest) = Len(list) - 1
      /\ \A j \in 1..Len(rest) : rest[j] = list[j + 1] /\ j + 1 \in 1..Len(list)
  BY HeadTailProperties, EmptySeq
<1> HIDE DEF item, rest
<1>2. QueueInv(rest, n)
  <2>1. \A j \in 1..Len(rest) : rest[j].id <= n
    BY <1>1 DEF QueueInv
  <2>2. ASSUME NEW j \in 1..Len(rest), NEW i \in 1..(j - 1)
        PROVE  rest[i].id < rest[j].id
    <3>1. /\ i \in 1..Len(rest) /\ j + 1 \in 1..Len(list)
          /\ i + 1 \in 1..((j + 1) - 1)
      BY <1>1
    <3> QED
      BY <1>1, <3>1 DEF QueueInv
  <2> QED
    BY <2>1, <2>2 DEF QueueInv
<1>3. SchedInv(sched, rest, n)
  BY <1>1 DEF SchedInv
<1>4. item.id <= n /\ \A j \in 1..Len(rest) : item.id < rest[j].id
  <2>1. \A j \in 1..Len(rest) : 1 \in 1..((j + 1) - 1)
    BY <1>1
  <2> QED
    BY <1>1, <2>1 DEF QueueInv
<1>5. OlderThan(sched[ListOf(item.trigger)], item.id)
  BY <1>1, ListOfType DEF SchedInv
<1>6. SchedInv(Scheduled(sched, item, time), rest, n)
  BY <1>1, <1>3, <1>4, <1>5, ScheduledOrder
<1> QED
  BY <1>2, <1>3, <1>6 DEF item, rest
=============================================================================
