----------------------------- MODULE PerfModel ------------------------------
(***************************************************************************)
(* The performance model as the controller sees it: the SYS_ interface of  *)
(* the system modules (single chip common system, clockserver system,      *)
(* multi chip system, ape).  The chip itself is not modelled; clocking it  *)
(* advances the measures of time by an amount the environment picks and    *)
(* may pass a committed marker that is being watched for.                  *)
(***************************************************************************)
EXTENDS Schedule

CONSTANTS
    ClockSteps,  \* the amounts, functions from Lists, one Clock() may add
    Honoured,    \* the bounds that this system's SYS_Execute loop tests
    MayHitMarker \* whether a watched marker is ever committed

ASSUME ClockStepsAssumption == ClockSteps \subseteq [Lists -> Nat]
ASSUME HonouredAssumption   == Honoured \subseteq Lists
ASSUME MarkerAssumption     == MayHitMarker \in BOOLEAN
ASSUME NeverAssumption      == UINT64_MAX \in Nat

VARIABLES
    clock,      \* SYS_Cycle, SYS_Nanosecond and the counts of committed work
    sysBreak,   \* set by SYS_Break, tested by the SYS_Execute loop
    stopAt,     \* the arguments of SYS_Execute
    markerHit   \* SYS_CommittedMarkers() has reached stop_marker

sysVars == << clock, sysBreak, stopAt, markerHit >>

SysTypeOK ==
    /\ clock \in [Lists -> Nat]
    /\ sysBreak \in BOOLEAN
    /\ stopAt \in [Lists -> Nat]
    /\ markerHit \in BOOLEAN

SysInit ==
    /\ clock = [l \in Lists |-> 0]
    /\ sysBreak = FALSE
    /\ stopAt = [l \in Lists |-> 0]
    /\ markerHit = FALSE

SYS_Break == sysBreak' = TRUE

SYS_ClearBreakForgotten == UNCHANGED sysBreak   \* faulty variant

SYS_ClearBreak == sysBreak' = FALSE

(* On entry SYS_Execute notes its bounds and the number of markers         *)
(* committed so far, and asks for one more.                                *)
SYS_ExecuteEnter(bounds) ==
    /\ stopAt' = bounds
    /\ markerHit' = FALSE

(* The condition of its loop.                                              *)
Running ==
    /\ ~sysBreak
    /\ \A l \in Honoured : clock[l] < stopAt[l]
    /\ ~markerHit

(* The end of one turn of the loop: the counters move on.                  *)
Advance(d) ==
    /\ clock' = [l \in Lists |-> clock[l] + d[l]]
    /\ markerHit' \in IF MayHitMarker THEN BOOLEAN ELSE {FALSE}
=============================================================================
