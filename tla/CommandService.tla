--------------------------- MODULE CommandService ---------------------------
(***************************************************************************)
(* What the controller promises to those who issue commands, whatever      *)
(* lists, flags and loops it uses:                                         *)
(*                                                                         *)
(*   - a command is neither lost nor performed twice, from its issue until *)
(*     it is performed, cleared by a clearing command that was issued      *)
(*     later, or discarded because the simulation ends;                    *)
(*   - it is performed only when its time has come, in order of time, and  *)
(*     commands for the same time in the order they were issued;           *)
(*   - a periodic command, once performed, is armed again for a later      *)
(*     multiple of its period;                                             *)
(*   - no cycle begins while the simulation is stopped or ending, while a  *)
(*     command waits to be accepted, or while one that was accepted is     *)
(*     due.                                                                *)
(***************************************************************************)
EXTENDS Schedule

CONSTANTS Steps,   \* the amounts by which one clock may advance the time
          Prompt   \* the measures of time the performance model watches

VARIABLES
    time,     \* the five measures of simulated time
    midCycle, \* the chip is being clocked
    inbox,    \* commands issued and not yet accepted
    agenda,   \* commands accepted and not yet performed
    stopped,
    ending

cvars == << time, midCycle, inbox, agenda, stopped, ending >>

CInit ==
    /\ time = [l \in Lists |-> 0]
    /\ midCycle = FALSE
    /\ inbox = {}
    /\ agenda = {}
    /\ stopped = TRUE
    /\ ending = FALSE

Known == {i.id : i \in inbox \cup agenda}

Due(i) ==
    \/ i.trigger = "NOW"
    \/ i.actionTime <= time[ListOf(i.trigger)]

(* i goes before j: both wait for the same measure of time.                *)
Before(i, j) ==
    \/ i.actionTime < j.actionTime
    \/ /\ i.actionTime = j.actionTime
       /\ ~Periodic(i.trigger) /\ ~Periodic(j.trigger)
       /\ i.id < j.id

(* A start takes effect on being issued, and again on being performed.     *)
(* Nothing already known is issued again.                                  *)
IssueOne ==
    \E i \in inbox' :
        /\ inbox' = inbox \cup {i}
        /\ \A k \in Known : k < i.id
        /\ stopped' = IF i.name = "START" THEN FALSE ELSE stopped
        /\ UNCHANGED << time, midCycle, agenda, ending >>

(* Commands are accepted in the order of their issue.                      *)
Oldest(i) == \A j \in inbox : i.id <= j.id

(* A periodic command is armed for a multiple of its period.  The promise  *)
(* leaves one unit of slack: see CyclePeriodKept in ControllerProperties.  *)
ArmedFrom(i, armed) ==
    IF Periodic(i.trigger)
    THEN LET t == time[ListOf(i.trigger)] IN
         /\ \E m \in t..(t + i.period + 1) :
               armed = [i EXCEPT !.actionTime = m]
         /\ armed.actionTime > t
         /\ armed.actionTime % i.period = 0
    ELSE armed = i

Accept ==
    \E i \in inbox :
        /\ ~midCycle
        /\ Oldest(i)
        /\ i.name # "CLEARPROGRESS"
        /\ \E armed \in agenda' :
              /\ agenda' = agenda \cup {armed}
              /\ ArmedFrom(i, armed)
        /\ inbox' = inbox \ {i}
        /\ UNCHANGED << time, midCycle, stopped, ending >>

(* A clearing command removes the progress commands accepted before it,    *)
(* and is then done.                                                       *)
ClearOne ==
    \E i \in inbox :
        /\ ~midCycle
        /\ Oldest(i)
        /\ i.name = "CLEARPROGRESS"
        /\ \/ \E j \in agenda :
                 /\ j.name = "PROGRESS"
                 /\ ListOf(j.trigger) = i.arg
                 /\ agenda' = agenda \ {j}
                 /\ UNCHANGED inbox
           \/ /\ \A j \in agenda :
                    j.name = "PROGRESS" => ListOf(j.trigger) # i.arg
              /\ inbox' = inbox \ {i}
              /\ UNCHANGED agenda
        /\ UNCHANGED << time, midCycle, stopped, ending >>

Effect(i) ==
    /\ stopped' = CASE i.name = "START" -> FALSE
                    [] i.name = "STOP"  -> TRUE
                    [] OTHER            -> stopped
    /\ ending' = (ending \/ i.name = "EXIT")

(* Skipping a thread may issue a command of the feeder's.                  *)
Perform ==
    \E i \in agenda :
        /\ ~midCycle
        /\ Due(i)
        /\ \A j \in agenda :
              ListOf(j.trigger) = ListOf(i.trigger) => ~Before(j, i)
        /\ Effect(i)
        /\ IF Periodic(i.trigger)
           THEN \E armed \in agenda' :
                   /\ agenda' = (agenda \ {i}) \cup {armed}
                   /\ ArmedFrom(i, armed)
           ELSE agenda' = agenda \ {i}
        /\ \/ UNCHANGED inbox
           \/ /\ i.name = "THDSKIP"
              /\ \E k \in inbox' :
                    /\ inbox' = inbox \cup {k}
                    /\ \A n \in Known : n < k.id
        /\ UNCHANGED << time, midCycle >>

BeginCycle ==
    /\ ~midCycle
    /\ ~stopped
    /\ ~ending
    /\ inbox = {}
    /\ \A i \in agenda : ListOf(i.trigger) \in Prompt => ~Due(i)
    /\ midCycle' = TRUE
    /\ UNCHANGED << time, inbox, agenda, stopped, ending >>

(* The time of an accepted command that wants an exact time is not jumped  *)
(* over.                                                                   *)
EndCycle ==
    /\ midCycle
    /\ \E d \in Steps : time' = [l \in Lists |-> time[l] + d[l]]
    /\ \A i \in agenda :
          LET l == ListOf(i.trigger) IN
          l \in Exact \cap Prompt => time'[l] <= i.actionTime
    /\ midCycle' = FALSE
    /\ UNCHANGED << inbox, agenda, stopped, ending >>

Discard ==
    /\ ending
    /\ inbox' = {}
    /\ agenda' = {}
    /\ UNCHANGED << time, midCycle, stopped, ending >>

CNext ==
    \/ IssueOne \/ Accept \/ ClearOne \/ Perform
    \/ BeginCycle \/ EndCycle \/ Discard

CSpec == CInit /\ [][CNext]_cvars
=============================================================================
