---------------------------- MODULE CommitProofs ----------------------------
(***************************************************************************)
(* The locks and the files of Commit, for any users and packages and any   *)
(* number of faults.                                                       *)
(*                                                                         *)
(* The first invariant says what the lock server and a client know of each *)
(* other: a lock that a commit under way takes for its own is set for it   *)
(* at the server, and a lock that is set at the server without such a      *)
(* commit was left for a reason.  Two commits that both took a lock for    *)
(* their own would have the server set it for both.  The second one, on    *)
(* the files of a working copy, is stated below.                           *)
(***************************************************************************)
EXTENDS CommitProperties, TLAPS

ShellTypeOK ==
    /\ pc \in [Users -> Stages]
    /\ all \in [Users -> SUBSET Packages]
    /\ todo \in [Users -> SUBSET Packages]
    /\ \A u \in Users : todo[u] \subseteq all[u]

ServerTypeOK ==
    /\ holder \in [Packages -> Users \cup {Nobody}]
    /\ left \in [Packages -> {"no", "told", "answer lost", "gone"}]

LocksTypeOK == ShellTypeOK /\ ServerTypeOK

(* What a client takes for its own is its own at the server.               *)
OwnsHeld == \A u \in Users, p \in Packages : Owns(u, p) => holder[p] = u

Locks == LocksTypeOK /\ OwnsHeld /\ LockAccounted

LEMMA InitLocks == CommitInit => Locks
  <1> SUFFICES ASSUME CommitInit PROVE Locks
    OBVIOUS
  <1>1. LocksTypeOK
    BY DEF CommitInit, LocksTypeOK, ShellTypeOK, ServerTypeOK, Stages
  <1>2. OwnsHeld /\ LockAccounted
    BY NobodyAssumption DEF CommitInit, OwnsHeld, LockAccounted, Owns
  <1> QED  BY <1>1, <1>2 DEF Locks

(***************************************************************************)
(* What the steps do to the loop of a shell.                               *)
(***************************************************************************)
LEMMA LoopTypes ==
    ASSUME ShellTypeOK, NEW u \in Users, NEW stage \in Stages,
           NEW packages \in SUBSET Packages, packages \subseteq all[u],
           Loop(u, stage, packages), UNCHANGED all
    PROVE  ShellTypeOK'
  BY DEF ShellTypeOK, Loop, Goto

LEMMA GotoTypes ==
    ASSUME ShellTypeOK, NEW u \in Users, NEW stage \in Stages,
           Goto(u, stage), UNCHANGED << all, todo >>
    PROVE  ShellTypeOK'
  BY DEF ShellTypeOK, Goto

LEMMA VisitedTypes ==
    ASSUME ShellTypeOK, NEW u \in Users, NEW p \in Packages, Visited(u, p),
           UNCHANGED << pc, all >>
    PROVE  ShellTypeOK'
  BY DEF ShellTypeOK, Visited

LEMMA ReturnsTypes ==
    ASSUME ShellTypeOK, NEW u \in Users, Returns(u)
    PROVE  ShellTypeOK'
  BY DEF ShellTypeOK, Returns, Loop, Goto, Stages

(***************************************************************************)
(* Steps that are private to a shell: they leave the server alone, and     *)
(* what they do to the loop takes and gives up no lock.                    *)
(***************************************************************************)
OwnsAsBefore == \A v \in Users, q \in Packages : Owns(v, q)' <=> Owns(v, q)

(* Owns(u, q) for a shell in the given stage of a loop over packages.      *)
OwnsIn(u, q, stage, packages) ==
    /\ q \in all[u]
    /\ \/ stage = "lock" /\ q \notin packages
       \/ stage = "unlock" /\ q \in packages
       \/ stage \in Working

LEMMA PrivateStep ==
    ASSUME Locks, UNCHANGED << holder, left >>, ShellTypeOK', OwnsAsBefore
    PROVE  Locks'
  BY DEF Locks, LocksTypeOK, ServerTypeOK, OwnsHeld, LockAccounted, OwnsAsBefore

LEMMA LoopStep ==
    ASSUME Locks, NEW u \in Users, NEW stage \in Stages, NEW packages \in SUBSET Packages,
           packages \subseteq all[u], Loop(u, stage, packages),
           UNCHANGED << holder, left, all >>,
           \A q \in Packages : OwnsIn(u, q, stage, packages) <=> Owns(u, q)
    PROVE  Locks'
  <1>1. ShellTypeOK'
    BY LoopTypes DEF Locks, LocksTypeOK
  <1>2. OwnsAsBefore
    BY DEF Locks, LocksTypeOK, ShellTypeOK, Loop, Goto, Owns, OwnsIn, OwnsAsBefore
  <1> QED  BY <1>1, <1>2, PrivateStep

LEMMA GotoStep ==
    ASSUME Locks, NEW u \in Users, NEW stage \in Stages, Goto(u, stage),
           UNCHANGED << holder, left, all, todo >>,
           \A q \in Packages : OwnsIn(u, q, stage, todo[u]) <=> Owns(u, q)
    PROVE  Locks'
  <1>1. ShellTypeOK'
    BY GotoTypes DEF Locks, LocksTypeOK
  <1>2. OwnsAsBefore
    BY DEF Locks, LocksTypeOK, ShellTypeOK, Goto, Owns, OwnsIn, OwnsAsBefore
  <1> QED  BY <1>1, <1>2, PrivateStep

LEMMA VisitedStep ==
    ASSUME Locks, NEW u \in Users, NEW p \in Packages, pc[u] \in Working, Visited(u, p),
           UNCHANGED << holder, left, pc, all >>
    PROVE  Locks'
  <1>1. ShellTypeOK'
    BY VisitedTypes DEF Locks, LocksTypeOK
  <1>2. OwnsAsBefore
    BY DEF Locks, LocksTypeOK, ShellTypeOK, Visited, Owns, Working, OwnsAsBefore
  <1> QED  BY <1>1, <1>2, PrivateStep

LEMMA ReturnsStep ==
    ASSUME Locks, NEW u \in Users, Returns(u), UNCHANGED << holder, left >>,
           \A q \in Packages : ~Owns(u, q)
    PROVE  Locks'
  <1>1. ShellTypeOK'
    BY ReturnsTypes DEF Locks, LocksTypeOK
  <1>2. OwnsAsBefore
    BY DEF Locks, LocksTypeOK, ShellTypeOK, Returns, Loop, Goto, Owns, Working, OwnsAsBefore
  <1> QED  BY <1>1, <1>2, PrivateStep

LEMMA StillStep ==
    ASSUME Locks, UNCHANGED << holder, left, pc, all, todo >>
    PROVE  Locks'
  BY PrivateStep DEF Locks, LocksTypeOK, ShellTypeOK, Owns, OwnsAsBefore

-----------------------------------------------------------------------------
LEMMA UserSteps ==
    ASSUME Locks, NEW u \in Users, NEW p \in Packages, Edit(u, p) \/ Update(u, p)
    PROVE  Locks'
  BY StillStep DEF Edit, Update, shell, outside

LEMMA StartStep ==
    ASSUME Locks, NEW u \in Users, NEW packages \in SUBSET Packages, Start(u, packages)
    PROVE  Locks'
  <1>1. UNCHANGED << holder, left >>
    BY DEF Start, outside
  <1>2. ShellTypeOK'
    BY DEF Locks, LocksTypeOK, ShellTypeOK, Start, Loop, Goto, Stages
  <1>3. OwnsAsBefore
    BY DEF Locks, LocksTypeOK, ShellTypeOK, Start, Loop, Goto, Owns, Working, OwnsAsBefore
  <1> QED  BY <1>1, <1>2, <1>3, PrivateStep

(* lockall gives up what it has locked, or goes on with all of it.         *)
LEMMA GiveUpSteps ==
    ASSUME Locks, NEW u \in Users, NEW p \in Packages, Refused(u, p) \/ RequestLost(u, p)
    PROVE  Locks'
  <1>1. /\ Loop(u, "unlock", Done(u)) /\ pc[u] = "lock"
        /\ UNCHANGED << holder, left, all >>
    BY DEF Refused, RequestLost, GiveUp, Visits, outside
  <1>2. Done(u) \in SUBSET Packages /\ Done(u) \subseteq all[u] /\ "unlock" \in Stages
    BY DEF Locks, LocksTypeOK, ShellTypeOK, Done, Stages
  <1>3. \A q \in Packages : OwnsIn(u, q, "unlock", Done(u)) <=> Owns(u, q)
    BY <1>1 DEF OwnsIn, Owns, Done, Working
  <1> HIDE DEF Done
  <1> QED  BY <1>1, <1>2, <1>3, LoopStep

LEMMA LockedStep ==
    ASSUME Locks, NEW u \in Users, Locked(u)
    PROVE  Locks'
  <1>1. /\ Loop(u, "check", all[u]) /\ pc[u] = "lock" /\ todo[u] = {}
        /\ UNCHANGED << holder, left, all >>
    BY DEF Locked, LoopEnds, outside
  <1>2. all[u] \in SUBSET Packages /\ "check" \in Stages
    BY DEF Locks, LocksTypeOK, ShellTypeOK, Stages
  <1>3. \A q \in Packages : OwnsIn(u, q, "check", all[u]) <=> Owns(u, q)
    BY <1>1 DEF OwnsIn, Owns, Working
  <1> QED  BY <1>1, <1>2, <1>3, LoopStep

(* From a loop over packages it works on, a shell goes on to another one,  *)
(* or to unlock all of them.                                               *)
LEMMA NextLoop ==
    ASSUME Locks, NEW u \in Users, NEW stage \in Working \cup {"unlock"},
           pc[u] \in Working, Loop(u, stage, all[u]), UNCHANGED << holder, left, all >>
    PROVE  Locks'
  <1>1. all[u] \in SUBSET Packages /\ stage \in Stages
    BY DEF Locks, LocksTypeOK, ShellTypeOK, Stages, Working
  <1>2. \A q \in Packages : OwnsIn(u, q, stage, all[u]) <=> Owns(u, q)
    BY DEF OwnsIn, Owns, Working
  <1> QED  BY <1>1, <1>2, LoopStep

LEMMA NextStage ==
    ASSUME Locks, NEW u \in Users, NEW stage \in Working, pc[u] \in Working,
           Goto(u, stage), UNCHANGED << holder, left, all, todo >>
    PROVE  Locks'
  <1>1. stage \in Stages
    BY DEF Stages, Working
  <1>2. \A q \in Packages : OwnsIn(u, q, stage, todo[u]) <=> Owns(u, q)
    BY DEF OwnsIn, Owns, Working
  <1> QED  BY <1>1, <1>2, GotoStep

LEMMA PreparingSteps ==
    ASSUME Locks, NEW u \in Users, Preparing(u)
    PROVE  Locks'
  <1>1. ASSUME NEW p \in Packages, Check(u, p) \/ Prepare(u, p)
        PROVE  Locks'
    BY <1>1, VisitedStep DEF Check, Prepare, Visits, Working, outside
  <1>2. ASSUME NEW p \in Packages, PrepareFails(u, p)
        PROVE  Locks'
    BY <1>2, NextLoop DEF PrepareFails, ReleaseAll, Visits, Working, outside
  <1>3. CASE Checked(u)
    BY <1>3, NextLoop DEF Checked, LoopEnds, Working, outside
  <1>4. CASE Prepared(u)
    BY <1>4, NextStage DEF Prepared, LoopEnds, Working, outside
  <1>5. CASE Confirm(u)
    BY <1>5, NextLoop DEF Confirm, Working, outside
  <1> QED  BY <1>1, <1>2, <1>3, <1>4, <1>5 DEF Preparing

LEMMA PublishingSteps ==
    ASSUME Locks, NEW u \in Users, Publishing(u)
    PROVE  Locks'
  <1>1. ASSUME NEW p \in Packages, CommitStage(u, p)
        PROVE  Locks'
    BY <1>1, VisitedStep DEF CommitStage, Visits, Working, outside
  <1>2. ASSUME NEW p \in Packages, DilemmaAborted(u, p)
        PROVE  Locks'
    BY <1>2, NextLoop DEF DilemmaAborted, ReleaseAll, Visits, Working
  <1>3. CASE Committed(u)
    BY <1>3, NextStage DEF Committed, LoopEnds, Working, outside
  <1>4. CASE Finish(u)
    BY <1>4, NextLoop DEF Finish, ReleaseAll, Working, outside
  <1> QED  BY <1>1, <1>2, <1>3, <1>4 DEF Publishing

LEMMA LastSteps ==
    ASSUME Locks, NEW u \in Users, Unlocked(u) \/ Undo(u) \/ Restart(u)
    PROVE  Locks'
  <1>1. ASSUME Unlocked(u) PROVE Locks'
    <2>1. \A q \in Packages : ~Owns(u, q)
      BY <1>1 DEF Unlocked, LoopEnds, Owns, Working
    <2>2. \A q \in Packages : OwnsIn(u, q, "abort", todo[u]) <=> Owns(u, q)
      BY <2>1 DEF OwnsIn, Working
    <2>3. UNCHANGED << holder, left >> /\ "abort" \in Stages
      BY <1>1 DEF Unlocked, outside, Stages
    <2>4. CASE Returns(u)
      BY <2>1, <2>3, <2>4, ReturnsStep
    <2>5. CASE Goto(u, "abort") /\ UNCHANGED << all, todo >>
      BY <2>2, <2>3, <2>5, GotoStep
    <2> QED  BY <1>1, <2>4, <2>5 DEF Unlocked
  <1>2. ASSUME Undo(u) PROVE Locks'
    <2>1. \A q \in Packages : ~Owns(u, q)
      BY <1>2 DEF Undo, Owns, Working
    <2>2. CASE Returns(u)
      BY <1>2, <2>1, <2>2, ReturnsStep DEF Undo, outside
    <2>3. CASE UNCHANGED << pc, all, todo >>
      BY <1>2, <2>3, StillStep DEF Undo, outside
    <2> QED  BY <1>2, <2>2, <2>3 DEF Undo
  <1>3. ASSUME Restart(u) PROVE Locks'
    <2>1. \A q \in Packages : ~Owns(u, q)
      BY <1>3 DEF Restart, Owns, Working
    <2> QED  BY <1>3, <2>1, ReturnsStep DEF Restart, outside
  <1> QED  BY <1>1, <1>2, <1>3

(***************************************************************************)
(* Steps at the server.                                                    *)
(***************************************************************************)
LEMMA GrantedStep ==
    ASSUME Locks, NEW u \in Users, NEW p \in Packages, Granted(u, p)
    PROVE  Locks'
  <1>1. ShellTypeOK'
    BY VisitedTypes DEF Locks, LocksTypeOK, Granted
  <1>2. ServerTypeOK'
    BY DEF Locks, LocksTypeOK, ServerTypeOK, Granted
  <1>3. ASSUME NEW v \in Users, NEW q \in Packages, Owns(v, q)'
        PROVE  holder'[q] = v
    BY <1>3, NobodyAssumption
    DEF Locks, LocksTypeOK, ShellTypeOK, ServerTypeOK, OwnsHeld, Owns, Working, Granted, Visits, Visited
  <1>4. ASSUME NEW q \in Packages, holder'[q] # Nobody
        PROVE  Owns(holder[q], q)' \/ left'[q] # "no"
    BY <1>4, NobodyAssumption
    DEF Locks, LocksTypeOK, ShellTypeOK, ServerTypeOK, LockAccounted, Owns, Working,
        Granted, Visits, Visited
  <1> QED  BY <1>1, <1>2, <1>3, <1>4 DEF Locks, LocksTypeOK, OwnsHeld, LockAccounted

LEMMA AnswerLostStep ==
    ASSUME Locks, NEW u \in Users, NEW p \in Packages, AnswerLost(u, p)
    PROVE  Locks'
  <1>1. ShellTypeOK'
    <2>1. Done(u) \in SUBSET Packages /\ Done(u) \subseteq all[u] /\ "unlock" \in Stages
      BY DEF Locks, LocksTypeOK, ShellTypeOK, Done, Stages
    <2>2. Loop(u, "unlock", Done(u)) /\ UNCHANGED all
      BY DEF AnswerLost, GiveUp
    <2> HIDE DEF Done
    <2> QED  BY <2>1, <2>2, LoopTypes DEF Locks, LocksTypeOK
  <1>2. ServerTypeOK'
    BY DEF Locks, LocksTypeOK, ServerTypeOK, AnswerLost
  <1>3. ASSUME NEW v \in Users, NEW q \in Packages, Owns(v, q)'
        PROVE  holder'[q] = v
    BY <1>3, NobodyAssumption
    DEF Locks, LocksTypeOK, ShellTypeOK, ServerTypeOK, OwnsHeld, Owns, Working, AnswerLost, Visits, GiveUp, Done, Loop, Goto
  <1>4. ASSUME NEW q \in Packages, holder'[q] # Nobody
        PROVE  Owns(holder[q], q)' \/ left'[q] # "no"
    BY <1>4, NobodyAssumption
    DEF Locks, LocksTypeOK, ShellTypeOK, ServerTypeOK, LockAccounted, Owns, Working,
        AnswerLost, Visits, GiveUp, Done, Loop, Goto
  <1> QED  BY <1>1, <1>2, <1>3, <1>4 DEF Locks, LocksTypeOK, OwnsHeld, LockAccounted

LEMMA ReleaseStep ==
    ASSUME Locks, NEW u \in Users, NEW p \in Packages, Release(u, p)
    PROVE  Locks'
  <1>1. ShellTypeOK'
    BY VisitedTypes DEF Locks, LocksTypeOK, Release
  <1>2. ServerTypeOK'
    BY DEF Locks, LocksTypeOK, ServerTypeOK, Release, outside
  <1>3. ASSUME NEW v \in Users, NEW q \in Packages, Owns(v, q)'
        PROVE  holder'[q] = v
    <2>1. Owns(u, p) /\ ~Owns(u, p)'
      BY DEF Locks, LocksTypeOK, ShellTypeOK, Owns, Working, Release, Visits, Visited
    <2>2. Owns(v, q)
      BY <1>3 DEF Locks, LocksTypeOK, ShellTypeOK, Owns, Working, Release, Visits, Visited
    <2>3. q # p
      BY <1>3, <2>1, <2>2 DEF Locks, OwnsHeld
    <2> QED  BY <2>2, <2>3 DEF Locks, LocksTypeOK, ServerTypeOK, OwnsHeld, Release
  <1>4. ASSUME NEW q \in Packages, holder'[q] # Nobody
        PROVE  Owns(holder[q], q)' \/ left'[q] # "no"
    BY <1>4, NobodyAssumption
    DEF Locks, LocksTypeOK, ShellTypeOK, ServerTypeOK, LockAccounted, Owns, Working,
        Release, Visits, Visited, outside
  <1> QED  BY <1>1, <1>2, <1>3, <1>4 DEF Locks, LocksTypeOK, OwnsHeld, LockAccounted

LEMMA ToldSteps ==
    ASSUME Locks, NEW u \in Users, NEW p \in Packages, KeepLock(u, p) \/ ReleaseFails(u, p)
    PROVE  Locks'
  <1>1. /\ Visits(u, p, "unlock") /\ Told(u, p) /\ UNCHANGED << pc, all >>
        /\ holder' = holder \/ holder' = [holder EXCEPT ![p] = Nobody]
    BY DEF KeepLock, ReleaseFails
  <1>2. ShellTypeOK'
    BY <1>1, VisitedTypes DEF Locks, LocksTypeOK, Told
  <1>3. ServerTypeOK'
    BY <1>1 DEF Locks, LocksTypeOK, ServerTypeOK, Told
  <1>4. ASSUME NEW v \in Users, NEW q \in Packages, Owns(v, q)'
        PROVE  holder'[q] = v
    <2>1. Owns(u, p) /\ ~Owns(u, p)'
      BY <1>1 DEF Locks, LocksTypeOK, ShellTypeOK, Owns, Working, Visits, Told, Visited
    <2>2. Owns(v, q)
      BY <1>1, <1>4 DEF Locks, LocksTypeOK, ShellTypeOK, Owns, Working, Visits, Told, Visited
    <2>3. q # p
      BY <1>4, <2>1, <2>2 DEF Locks, OwnsHeld
    <2> QED  BY <1>1, <2>2, <2>3 DEF Locks, LocksTypeOK, ServerTypeOK, OwnsHeld
  <1>5. ASSUME NEW q \in Packages, holder'[q] # Nobody
        PROVE  Owns(holder[q], q)' \/ left'[q] # "no"
    BY <1>1, <1>5, NobodyAssumption
    DEF Locks, LocksTypeOK, ShellTypeOK, ServerTypeOK, LockAccounted, Owns, Working,
        Visits, Told, Visited
  <1> QED  BY <1>2, <1>3, <1>4, <1>5 DEF Locks, LocksTypeOK, OwnsHeld, LockAccounted

(* A shell that ends owns nothing any more; what it owned is "gone".       *)
LEMMA EndSteps ==
    ASSUME Locks, NEW u \in Users, Dies(u) \/ Interrupt(u)
    PROVE  Locks'
  <1>1. PICK how \in {"died", "killed"} : Ends(u, how)
    BY DEF Dies, Interrupt
  <1>2. UNCHANGED << holder, all >>
    BY DEF Dies, Interrupt
  <1>3. ShellTypeOK'
    BY <1>1, <1>2, LoopTypes DEF Locks, LocksTypeOK, Ends, Stages
  <1>4. ServerTypeOK'
    BY <1>1, <1>2 DEF Locks, LocksTypeOK, ServerTypeOK, Ends
  <1>5. /\ \A q \in Packages : ~Owns(u, q)'
        /\ \A v \in Users \ {u}, q \in Packages : Owns(v, q)' <=> Owns(v, q)
    BY <1>1, <1>2 DEF Locks, LocksTypeOK, ShellTypeOK, Ends, Loop, Goto, Owns, Working
  <1>6. OwnsHeld'
    BY <1>2, <1>5 DEF Locks, OwnsHeld
  <1>7. LockAccounted'
    BY <1>1, <1>2, <1>5, NobodyAssumption
    DEF Locks, LocksTypeOK, ServerTypeOK, LockAccounted, Ends
  <1> QED  BY <1>3, <1>4, <1>6, <1>7 DEF Locks, LocksTypeOK

LEMMA ByHandStep ==
    ASSUME Locks, NEW p \in Packages, ReleaseByHand(p)
    PROVE  Locks'
  <1>1. ShellTypeOK' /\ OwnsAsBefore
    BY DEF Locks, LocksTypeOK, ShellTypeOK, ReleaseByHand, shell, Owns, OwnsAsBefore
  <1>2. ServerTypeOK'
    BY DEF Locks, LocksTypeOK, ServerTypeOK, ReleaseByHand
  <1>3. OwnsHeld' /\ LockAccounted'
    BY <1>1, NobodyAssumption
    DEF Locks, LocksTypeOK, ServerTypeOK, OwnsHeld, LockAccounted, OwnsAsBefore,
        ReleaseByHand
  <1> QED  BY <1>1, <1>2, <1>3 DEF Locks, LocksTypeOK

-----------------------------------------------------------------------------
LEMMA StepLocks == Locks /\ [CommitNext]_commitVars => Locks'
  <1> SUFFICES ASSUME Locks, [CommitNext]_commitVars
               PROVE  Locks'
    OBVIOUS
  <1>1. CASE UNCHANGED commitVars
    BY <1>1, StillStep DEF commitVars, shell, outside
  <1>2. ASSUME NEW u \in Users, NEW p \in Packages, Edit(u, p) \/ Update(u, p)
        PROVE  Locks'
    BY <1>2, UserSteps
  <1>3. ASSUME NEW u \in Users, NEW packages \in SUBSET Packages, Start(u, packages)
        PROVE  Locks'
    BY <1>3, StartStep
  <1>4. ASSUME NEW u \in Users, LockAll(u)
        PROVE  Locks'
    BY <1>4, GrantedStep, GiveUpSteps, AnswerLostStep, LockedStep DEF LockAll
  <1>5. ASSUME NEW u \in Users, Preparing(u) \/ Publishing(u)
        PROVE  Locks'
    BY <1>5, PreparingSteps, PublishingSteps
  <1>6. ASSUME NEW u \in Users, UnlockAll(u)
        PROVE  Locks'
    BY <1>6, ReleaseStep, ToldSteps, LastSteps DEF UnlockAll
  <1>7. ASSUME NEW u \in Users, Undo(u) \/ Restart(u) \/ Dies(u) \/ Interrupt(u)
        PROVE  Locks'
    BY <1>7, LastSteps, EndSteps
  <1> QED
    BY <1>1, <1>2, <1>3, <1>4, <1>5, <1>6, <1>7, ByHandStep DEF CommitNext

(* Every reachable state satisfies the invariant.                          *)
THEOREM LocksHold == CommitSpec => []Locks
  BY InitLocks, StepLocks, PTL DEF CommitSpec

(* LockAccounted (Commit.pm, unlockall): no way through commit forgets a   *)
(* lock.                                                                   *)
THEOREM LockAccountedHolds == CommitSpec => []LockAccounted
  <1>1. Locks => LockAccounted
    BY DEF Locks
  <1> QED  BY <1>1, LocksHold, PTL

(* SoleCommitter (Commit.pm, lockall and unlockall): at most one user      *)
(* checks, prepares and commits a package at a time.                       *)
THEOREM SoleCommitterHolds == CommitSpec => []SoleCommitter
  <1>1. ASSUME Locks, NEW u \in Users, NEW v \in Users, u # v,
               NEW q \in Holding(u), q \in Holding(v)
        PROVE  FALSE
    <2>1. q \in Packages /\ Owns(u, q) /\ Owns(v, q)
      BY <1>1 DEF Locks, LocksTypeOK, ShellTypeOK, Holding, Owns
    <2> QED  BY <1>1, <2>1 DEF Locks, OwnsHeld
  <1>2. Locks => SoleCommitter
    BY <1>1 DEF SoleCommitter
  <1> QED  BY <1>2, LocksHold, PTL

-----------------------------------------------------------------------------
(***************************************************************************)
(* The files of a working copy.  The invariant says, for every stage of    *)
(* commit, how far the CSNs in the package file and in mytags are from the *)
(* version the working copy is based on, and that the log holds what it    *)
(* takes to bring them back.                                               *)
(***************************************************************************)
Entries == [file : {"pack", "tags"}, package : Packages, csn : Nat]

FilesTypeOK ==
    /\ archive \in [Packages -> Seq(Nat)]
    /\ base \in [Users -> [Packages -> Nat]]
    /\ pack \in [Users -> [Packages -> Nat]]
    /\ tags \in [Users -> [Packages -> Nat]]
    /\ log \in [Users -> Seq(Entries)]
    /\ needed \in [Users -> SUBSET Packages]
    /\ astray \in [Users -> SUBSET Packages]
    /\ \A u \in Users, p \in Packages : base[u][p] \in 1..Len(archive[p])
    /\ \A u \in Users : needed[u] \subseteq all[u]

(* The CSN of the version the working copy is based on.                    *)
Due(u, p)  == archive[p][base[u][p]]
Fits(u, p) == pack[u][p] = Due(u, p) /\ tags[u][p] = Due(u, p)

(* The files the log restores.                                             *)
Kept(s) == {s[i] : i \in 1..Len(s)}
LoggedFile(u, file, p) == \E e \in Kept(log[u]) : e.file = file /\ e.package = p

(* Running the log brings both files back to the CSN that is due.          *)
Recoverable(u, p) ==
    /\ \A e \in Kept(log[u]) : e.package = p => e.csn = Due(u, p)
    /\ pack[u][p] = Due(u, p) \/ LoggedFile(u, "pack", p)
    /\ tags[u][p] = Due(u, p) \/ LoggedFile(u, "tags", p)

(* A package with nothing to commit; one that update_csns has prepared;    *)
(* one that is committed.                                                  *)
Unlogged(u, p)  == \A e \in Kept(log[u]) : e.package # p
Untouched(u, p) == Fits(u, p) /\ Unlogged(u, p)
Marked(u, p) ==
    /\ Recoverable(u, p)
    /\ LoggedFile(u, "pack", p) /\ LoggedFile(u, "tags", p)
    /\ pack[u][p] = Due(u, p) /\ tags[u][p] = Due(u, p) + 1
Quiet == {"idle", "lock", "check", "killed", "died"}

PackageFiles(u, p) ==
    /\ pc[u] \in Quiet => Fits(u, p)
    /\ pc[u] \in {"prepare", "confirm"} =>
          IF p \in needed[u] /\ ~(pc[u] = "prepare" /\ p \in todo[u])
          THEN Marked(u, p) ELSE Untouched(u, p)
    /\ pc[u] \in {"commit", "finish"} =>
          IF p \notin needed[u] THEN Untouched(u, p)
          ELSE IF p \in todo[u] THEN Marked(u, p) ELSE Fits(u, p)
    /\ pc[u] \in {"unlock", "abort"} => Recoverable(u, p)

UserFiles(u) ==
    /\ pc[u] \in Quiet => log[u] = << >>
    /\ pc[u] = "idle" => all[u] = {}
    /\ pc[u] = "abort" => log[u] # << >>
    /\ pc[u] = "finish" => todo[u] = {}
    /\ \A p \in Packages \ astray[u] : PackageFiles(u, p)

FilesInv == \A u \in Users : UserFiles(u)
Files == FilesTypeOK /\ FilesInv

(* What the log keeps when two entries come in front of it, and when its   *)
(* head is taken.                                                          *)
Prepended(a, b, s) == << a, b >> \o s

LEMMA KeptPrepended ==
    ASSUME NEW S, NEW s \in Seq(S), NEW a \in S, NEW b \in S,
           NEW t, t = Prepended(a, b, s)
    PROVE  t \in Seq(S) /\ \A e : e \in Kept(t) <=> e \in Kept(s) \/ e = a \/ e = b
  <1>1. /\ t \in Seq(S) /\ Len(t) = Len(s) + 2 /\ t[1] = a /\ t[2] = b
        /\ \A i \in 1..Len(s) : t[i + 2] = s[i]
    BY DEF Prepended
  <1>2. ASSUME NEW i \in 1..Len(t)
        PROVE  t[i] \in Kept(s) \/ t[i] = a \/ t[i] = b
    <2>1. CASE i \in {1, 2}
      BY <2>1, <1>1
    <2>2. CASE i \notin {1, 2}
      <3>1. i - 2 \in 1..Len(s) /\ t[(i - 2) + 2] = t[i]
        BY <2>2, <1>1
      <3> QED  BY <3>1, <1>1 DEF Kept
    <2> QED  BY <2>1, <2>2
  <1>3. ASSUME NEW i \in 1..Len(s)
        PROVE  i + 2 \in 1..Len(t) /\ t[i + 2] = s[i]
    BY <1>1
  <1>4. 1 \in 1..Len(t) /\ 2 \in 1..Len(t)
    BY <1>1
  <1>5. \A e : e \in Kept(t) <=> e \in Kept(s) \/ e = a \/ e = b
    BY <1>1, <1>2, <1>3, <1>4, SMTT(30) DEF Kept
  <1> QED  BY <1>1, <1>5

LEMMA KeptTail ==
    ASSUME NEW S, NEW s \in Seq(S), s # << >>
    PROVE  /\ Tail(s) \in Seq(S) /\ Head(s) \in S
           /\ Kept(s) = {Head(s)} \cup Kept(Tail(s))
           /\ Len(s) = 1 <=> Tail(s) = << >>
  <1>1. /\ Len(s) \in Nat /\ Len(s) > 0 /\ Tail(s) \in Seq(S) /\ Head(s) = s[1]
        /\ Len(Tail(s)) = Len(s) - 1
        /\ \A i \in 1..Len(Tail(s)) : Tail(s)[i] = s[i + 1]
    OBVIOUS
  <1>2. ASSUME NEW i \in 1..Len(s)
        PROVE  s[i] \in {Head(s)} \cup Kept(Tail(s))
    <2>1. CASE i = 1
      BY <2>1, <1>1
    <2>2. CASE i # 1
      <3>1. i - 1 \in 1..Len(Tail(s)) /\ s[(i - 1) + 1] = s[i]
        BY <2>2, <1>1
      <3> QED  BY <3>1, <1>1 DEF Kept
    <2> QED  BY <2>1, <2>2
  <1>3. \A i \in 1..Len(Tail(s)) : i + 1 \in 1..Len(s)
    BY <1>1
  <1>4. Kept(s) = {Head(s)} \cup Kept(Tail(s))
    BY <1>1, <1>2, <1>3 DEF Kept
  <1>5. Len(s) = 1 <=> Tail(s) = << >>
    <2>1. Len(Tail(s)) = 0 <=> Tail(s) = << >>
      BY <1>1
    <2> QED  BY <1>1, <2>1
  <1>6. Head(s) \in S
    BY <1>1
  <1> QED  BY <1>1, <1>4, <1>5, <1>6

LEMMA KeptEmpty == Kept(<< >>) = {}
  BY DEF Kept

LEMMA KeptEntries ==
    ASSUME NEW S, NEW s \in Seq(S)
    PROVE  Kept(s) \subseteq S
  BY DEF Kept

(***************************************************************************)
(* What a step leaves alone: the shells and working copies of the other    *)
(* users, and the versions that are archived already.                      *)
(***************************************************************************)
Same(v) == UNCHANGED << pc[v], all[v], todo[v], needed[v], log[v], base[v], pack[v],
                        tags[v], astray[v] >>

ArchiveGrows ==
    \A p \in Packages :
        /\ Len(archive[p]) <= Len(archive'[p])
        /\ \A i \in 1..Len(archive[p]) : archive'[p][i] = archive[p][i]

LEMMA SameUser ==
    ASSUME Files, ArchiveGrows, NEW v \in Users, Same(v)
    PROVE  UserFiles(v)'
  <1>1. UserFiles(v)
    BY DEF Files, FilesInv
  <1>2. ASSUME NEW p \in Packages
        PROVE  Due(v, p)' = Due(v, p)
    BY DEF Files, FilesTypeOK, ArchiveGrows, Same, Due
  <1>3. ASSUME NEW p \in Packages \ astray[v]
        PROVE  PackageFiles(v, p)'
    <2>1. PackageFiles(v, p) /\ Due(v, p)' = Due(v, p)
      BY <1>1, <1>2 DEF UserFiles
    <2>2. /\ Fits(v, p)' <=> Fits(v, p)
          /\ Recoverable(v, p)' <=> Recoverable(v, p)
          /\ Marked(v, p)' <=> Marked(v, p)
          /\ Untouched(v, p)' <=> Untouched(v, p)
      BY <2>1 DEF Same, Fits, Recoverable, Marked, Untouched, Unlogged, LoggedFile
    <2> QED  BY <2>1, <2>2 DEF Same, PackageFiles
  <1> QED  BY <1>1, <1>3 DEF Same, UserFiles

LEMMA OneUser ==
    ASSUME Files, FilesTypeOK', ArchiveGrows, NEW u \in Users, UserFiles(u)',
           \A v \in Users \ {u} : Same(v)
    PROVE  Files'
  BY SameUser DEF Files, FilesInv

(* Steps that touch no file.                                               *)
FilesStill == UNCHANGED << archive, base, pack, tags, log, astray >>

LEMMA StillFiles ==
    ASSUME FilesTypeOK, FilesStill
    PROVE  /\ ArchiveGrows
           /\ needed' \in [Users -> SUBSET Packages]
              /\ (\A v \in Users : needed'[v] \subseteq all'[v]) => FilesTypeOK'
           /\ \A v \in Users, p \in Packages :
                 /\ Fits(v, p)' <=> Fits(v, p)
                 /\ Recoverable(v, p)' <=> Recoverable(v, p)
                 /\ Marked(v, p)' <=> Marked(v, p)
                 /\ Untouched(v, p)' <=> Untouched(v, p)
  <1>1. ArchiveGrows
    BY DEF FilesTypeOK, FilesStill, ArchiveGrows
  <1>2. ASSUME needed' \in [Users -> SUBSET Packages],
               \A v \in Users : needed'[v] \subseteq all'[v]
        PROVE  FilesTypeOK'
    BY <1>2 DEF FilesTypeOK, FilesStill
  <1>3. ASSUME NEW v \in Users, NEW p \in Packages
        PROVE  /\ Fits(v, p)' <=> Fits(v, p)
               /\ Recoverable(v, p)' <=> Recoverable(v, p)
               /\ Marked(v, p)' <=> Marked(v, p)
               /\ Untouched(v, p)' <=> Untouched(v, p)
    BY DEF FilesStill, Fits, Recoverable, Marked, Untouched, Unlogged, LoggedFile, Due
  <1> QED  BY <1>1, <1>2, <1>3

(* ... of which one user's shell goes on to the given stage of its loop.   *)
PackageIn(u, p, stage, packages) ==
    /\ stage \in Quiet => Fits(u, p)
    /\ stage \in {"prepare", "confirm"} =>
          IF p \in needed[u] /\ ~(stage = "prepare" /\ p \in packages)
          THEN Marked(u, p) ELSE Untouched(u, p)
    /\ stage \in {"commit", "finish"} =>
          IF p \notin needed[u] THEN Untouched(u, p)
          ELSE IF p \in packages THEN Marked(u, p) ELSE Fits(u, p)
    /\ stage \in {"unlock", "abort"} => Recoverable(u, p)

LEMMA LoopFiles ==
    ASSUME Files, ShellTypeOK, FilesStill, UNCHANGED needed,
           NEW u \in Users, NEW stage, NEW packages, stage # "idle",
           \A v \in Users \ {u} : all'[v] = all[v],
           needed[u] \subseteq all'[u],
           pc' = [pc EXCEPT ![u] = stage], todo' = [todo EXCEPT ![u] = packages],
           stage \in Quiet => log[u] = << >>,
           stage = "abort" => log[u] # << >>,
           stage = "finish" => packages = {},
           \A p \in Packages \ astray[u] : PackageIn(u, p, stage, packages)
    PROVE  Files'
  <1>1. FilesTypeOK'
    BY StillFiles DEF Files, FilesTypeOK
  <1>2. ArchiveGrows
    BY StillFiles DEF Files
  <1>3. \A v \in Users \ {u} : Same(v)
    BY DEF ShellTypeOK, Same, FilesStill
  <1>4. pc'[u] = stage /\ todo'[u] = packages /\ log'[u] = log[u] /\ astray'[u] = astray[u]
    BY DEF ShellTypeOK, FilesStill
  <1>5. ASSUME NEW p \in Packages \ astray[u]
        PROVE  PackageFiles(u, p)'
    BY <1>4, StillFiles DEF Files, PackageFiles, PackageIn
  <1>6. UserFiles(u)'
    BY <1>4, <1>5 DEF UserFiles
  <1> QED  BY <1>1, <1>2, <1>3, <1>6, OneUser

(* Before the first package is committed the log brings every package back.*)
LEMMA LogRecovers ==
    ASSUME NEW u \in Users, UserFiles(u), NEW p \in Packages \ astray[u],
           ~(pc[u] \in {"commit", "finish"} /\ p \in needed[u] \ todo[u]),
           pc[u] \in Stages
    PROVE  Recoverable(u, p)
  <1>1. PackageFiles(u, p)
    BY DEF UserFiles
  <1>2. Fits(u, p) /\ log[u] = << >> => Recoverable(u, p)
    BY KeptEmpty DEF Fits, Recoverable
  <1>3. Untouched(u, p) \/ Marked(u, p) => Recoverable(u, p)
    BY DEF Untouched, Unlogged, Fits, Marked, Recoverable
  <1> QED  BY <1>1, <1>2, <1>3 DEF UserFiles, PackageFiles, Quiet, Stages

LEMMA EmptyLogFits ==
    ASSUME NEW u \in Users, NEW p \in Packages, Recoverable(u, p), Unlogged(u, p)
    PROVE  Fits(u, p)
  BY DEF Recoverable, Unlogged, LoggedFile, Fits

LEMMA NothingLogged ==
    ASSUME NEW u \in Users, NEW p \in Packages, log[u] = << >>
    PROVE  Unlogged(u, p)
  BY KeptEmpty DEF Unlogged

(* lockall, and the ends of the loops over the packages.                   *)
LEMMA StartFiles ==
    ASSUME Files, ShellTypeOK, NEW u \in Users, NEW packages \in SUBSET Packages,
           Start(u, packages)
    PROVE  Files'
  <1>1. /\ FilesStill /\ UNCHANGED needed /\ needed[u] = {}
        /\ \A v \in Users \ {u} : all'[v] = all[v]
    BY DEF Start, wcVars, outside, FilesStill, Files, FilesTypeOK, FilesInv, UserFiles,
           ShellTypeOK
  <1>2. log[u] = << >> /\ \A p \in Packages \ astray[u] : Fits(u, p)
    BY DEF Start, Files, FilesInv, UserFiles, PackageFiles, Quiet
  <1> QED
    BY <1>1, <1>2, LoopFiles DEF Start, Loop, Goto, PackageIn, Quiet

LEMMA LockAllFiles ==
    ASSUME Files, ShellTypeOK, NEW u \in Users, LockAll(u)
    PROVE  Files'
  <1>1. FilesStill /\ UNCHANGED << needed, all >> /\ pc[u] = "lock"
    BY DEF LockAll, Granted, Refused, RequestLost, AnswerLost, Locked, Visits, LoopEnds,
           wcVars, outside, FilesStill
  <1>2. log[u] = << >> /\ \A p \in Packages \ astray[u] : Fits(u, p) /\ Recoverable(u, p)
    BY <1>1, LogRecovers
    DEF Files, FilesInv, UserFiles, PackageFiles, Quiet, Stages
  <1>3. needed[u] \subseteq all[u] /\ pc[u] = "lock" /\ pc = [pc EXCEPT ![u] = "lock"]
    BY <1>1 DEF ShellTypeOK, Files, FilesTypeOK
  <1>4. CASE \E p \in Packages : Granted(u, p)
    <2>1. \E packages : todo' = [todo EXCEPT ![u] = packages]
      BY <1>4 DEF Granted, Visited
    <2>2. pc' = [pc EXCEPT ![u] = "lock"]
      BY <1>3, <1>4 DEF Granted
    <2> QED
      BY <1>1, <1>2, <1>3, <2>1, <2>2, LoopFiles DEF PackageIn, Quiet
  <1>5. CASE \E p \in Packages : Refused(u, p) \/ RequestLost(u, p) \/ AnswerLost(u, p)
    <2>1. GiveUp(u)
      BY <1>5 DEF Refused, RequestLost, AnswerLost
    <2> QED
      BY <1>1, <1>2, <1>3, <2>1, LoopFiles DEF GiveUp, Loop, Goto, PackageIn, Quiet
  <1>6. CASE Locked(u)
    BY <1>1, <1>2, <1>3, <1>6, LoopFiles DEF Locked, Loop, Goto, PackageIn, Quiet
  <1> QED  BY <1>4, <1>5, <1>6 DEF LockAll

-----------------------------------------------------------------------------
(* check_stage sets what prepare_stage and commit_stage go by.             *)
LEMMA CheckFiles ==
    ASSUME Files, ShellTypeOK, NEW u \in Users, NEW p \in Packages, Check(u, p)
    PROVE  Files'
  <1>1. FilesStill /\ UNCHANGED << pc, all, log, astray >> /\ pc[u] = "check"
    BY DEF Check, Visits, wcVars, outside, FilesStill
  <1>2. /\ needed' \in [Users -> SUBSET Packages]
        /\ \A v \in Users : needed'[v] \subseteq all'[v]
        /\ \A v \in Users \ {u} : needed'[v] = needed[v] /\ todo'[v] = todo[v]
    BY <1>1 DEF Files, FilesTypeOK, ShellTypeOK, Check, Visits, Visited
  <1>3. FilesTypeOK' /\ ArchiveGrows
    BY <1>1, <1>2, StillFiles DEF Files
  <1>4. \A v \in Users \ {u} : Same(v)
    BY <1>1, <1>2 DEF Same, FilesStill
  <1>5. log[u] = << >> /\ \A q \in Packages \ astray[u] : Fits(u, q)'
    BY <1>1, StillFiles DEF Files, FilesInv, UserFiles, PackageFiles, Quiet
  <1>6. UserFiles(u)'
    BY <1>1, <1>5 DEF UserFiles, PackageFiles, Quiet
  <1> QED  BY <1>3, <1>4, <1>6, OneUser

LEMMA CheckedFiles ==
    ASSUME Files, ShellTypeOK, NEW u \in Users, Checked(u)
    PROVE  Files'
  <1>1. FilesStill /\ UNCHANGED << needed, all >> /\ pc[u] = "check"
    BY DEF Checked, LoopEnds, wcVars, outside, FilesStill
  <1>2. /\ log[u] = << >> /\ needed[u] \subseteq all[u]
        /\ \A q \in Packages \ astray[u] : Untouched(u, q) /\ Recoverable(u, q)
    BY <1>1, NothingLogged, LogRecovers
    DEF Files, FilesTypeOK, FilesInv, UserFiles, PackageFiles, Quiet, Untouched, Stages
  <1>3. PICK stage \in {"unlock", "prepare"} : Loop(u, stage, all[u])
    BY DEF Checked
  <1> QED  BY <1>1, <1>2, <1>3, LoopFiles DEF Loop, Goto, PackageIn, Quiet

LEMMA FileWritten ==
    ASSUME NEW f \in [Users -> [Packages -> Nat]], NEW u \in Users, NEW p \in Packages,
           NEW n \in Nat, NEW g, g = [f EXCEPT ![u][p] = n]
    PROVE  /\ g \in [Users -> [Packages -> Nat]] /\ g[u][p] = n
           /\ \A q \in Packages \ {p} : g[u][q] = f[u][q]
           /\ \A v \in Users \ {u} : g[v] = f[v]
  <1>1. g = [f EXCEPT ![u] = [f[u] EXCEPT ![p] = n]]
    OBVIOUS
  <1>2. [f[u] EXCEPT ![p] = n] \in [Packages -> Nat]
    OBVIOUS
  <1>3. g \in [Users -> [Packages -> Nat]] /\ g[u] = [f[u] EXCEPT ![p] = n]
    BY <1>1, <1>2
  <1> QED  BY <1>1, <1>3

(* update_csns: what it protects is what is due.                           *)
LEMMA ProtectedFiles ==
    ASSUME Files, NEW u \in Users, NEW p \in Packages,
           UNCHANGED << archive, base, pack, astray, needed, all >>,
           log' = [log EXCEPT ![u] = Protected(u, p) \o @],
           tags' = tags \/ tags' = [tags EXCEPT ![u][p] = NewCsn(u, p)]
    PROVE  /\ FilesTypeOK' /\ ArchiveGrows
           /\ Fits(u, p) /\ Recoverable(u, p)
              => /\ Recoverable(u, p)'
                 /\ tags' = [tags EXCEPT ![u][p] = NewCsn(u, p)] => Marked(u, p)'
           /\ \A q \in Packages \ {p} :
                 /\ Recoverable(u, q)' <=> Recoverable(u, q)
                 /\ Marked(u, q)' <=> Marked(u, q)
                 /\ Untouched(u, q)' <=> Untouched(u, q)
  <1> DEFINE a == [file |-> "tags", package |-> p, csn |-> tags[u][p]]
             b == [file |-> "pack", package |-> p, csn |-> pack[u][p]]
  <1>1. /\ log \in [Users -> Seq(Entries)] /\ log[u] \in Seq(Entries)
        /\ tags \in [Users -> [Packages -> Nat]] /\ tags[u][p] \in Nat
        /\ pack \in [Users -> [Packages -> Nat]] /\ pack[u][p] \in Nat
    BY DEF Files, FilesTypeOK
  <1>2. a \in Entries /\ b \in Entries
    BY <1>1 DEF Entries
  <1>3. log'[u] = Prepended(a, b, log[u])
    BY <1>1 DEF Protected, Prepended
  <1>4. a.package = p /\ a.file = "tags" /\ a.csn = tags[u][p]
    OBVIOUS
  <1>5. b.package = p /\ b.file = "pack" /\ b.csn = pack[u][p]
    OBVIOUS
  <1> HIDE DEF a, b
  <1>6. /\ log'[u] \in Seq(Entries)
        /\ \A e : e \in Kept(log'[u]) <=> e \in Kept(log[u]) \/ e = a \/ e = b
    <2>1. log'[u] \in Seq(Entries)
      BY <1>1, <1>2, <1>3, KeptPrepended
    <2>2. ASSUME NEW s \in Seq(Entries), NEW t, t = Prepended(a, b, s)
          PROVE  \A e : e \in Kept(t) <=> e \in Kept(s) \/ e = a \/ e = b
      BY <1>2, <2>2, KeptPrepended, SMTT(30)
    <2> QED  BY <1>1, <1>3, <2>1, <2>2
  <1>7. log' \in [Users -> Seq(Entries)]
    BY <1>1, <1>6
  <1>8. /\ tags' \in [Users -> [Packages -> Nat]]
        /\ \A q \in Packages \ {p} : tags'[u][q] = tags[u][q]
    <2>1. NewCsn(u, p) \in Nat
      BY <1>1 DEF NewCsn
    <2>2. CASE tags' = [tags EXCEPT ![u][p] = NewCsn(u, p)]
      BY <1>1, <2>1, <2>2
    <2> QED  BY <1>1, <2>2
  <1>9. FilesTypeOK' /\ ArchiveGrows
    BY <1>7, <1>8 DEF Files, FilesTypeOK, ArchiveGrows
  <1>10. \A q \in Packages : Due(u, q)' = Due(u, q)
    BY DEF Due
  <1>11. ASSUME Fits(u, p), Recoverable(u, p)
         PROVE  /\ Recoverable(u, p)'
                /\ tags' = [tags EXCEPT ![u][p] = NewCsn(u, p)] => Marked(u, p)'
    <2>1. LoggedFile(u, "pack", p)' /\ LoggedFile(u, "tags", p)'
      BY <1>4, <1>5, <1>6 DEF LoggedFile
    <2>2. Recoverable(u, p)'
      BY <1>4, <1>5, <1>6, <1>10, <1>11, <2>1 DEF Recoverable, Fits
    <2>3. tags' = [tags EXCEPT ![u][p] = NewCsn(u, p)] => tags'[u][p] = pack[u][p] + 1
      BY <1>1 DEF NewCsn
    <2> QED  BY <1>10, <1>11, <2>1, <2>2, <2>3 DEF Marked, Fits
  <1>12. ASSUME NEW q \in Packages \ {p}
         PROVE  /\ Recoverable(u, q)' <=> Recoverable(u, q)
                /\ Marked(u, q)' <=> Marked(u, q)
                /\ Untouched(u, q)' <=> Untouched(u, q)
    <2>1. \A e \in Kept(log'[u]) : e.package = q => e \in Kept(log[u])
      BY <1>4, <1>5, <1>6
    <2>2. Kept(log[u]) \subseteq Kept(log'[u])
      BY <1>6
    <2>3. \A file : LoggedFile(u, file, q)' <=> LoggedFile(u, file, q)
      BY <2>1, <2>2 DEF LoggedFile
    <2>4. Unlogged(u, q)' <=> Unlogged(u, q)
      BY <2>1, <2>2 DEF Unlogged
    <2>5. Recoverable(u, q)' <=> Recoverable(u, q)
      BY <1>8, <1>10, <2>1, <2>2, <2>3 DEF Recoverable
    <2> QED
      BY <1>8, <1>10, <2>3, <2>4, <2>5 DEF Marked, Untouched, Fits
  <1> QED  BY <1>9, <1>11, <1>12

LEMMA PrepareFiles ==
    ASSUME Files, ShellTypeOK, NEW u \in Users, NEW p \in Packages, Prepare(u, p)
    PROVE  Files'
  <1>1. /\ UNCHANGED << archive, base, pack, astray, needed, all, pc >>
        /\ pc[u] = "prepare" /\ p \in todo[u]
        /\ todo' = [todo EXCEPT ![u] = todo[u] \ {p}]
    BY DEF Prepare, Visits, Visited, outside
  <1>2. UserFiles(u) /\ \A q \in Packages \ astray[u] : PackageFiles(u, q)
    BY DEF Files, FilesInv, UserFiles
  <1>3. CASE p \notin needed[u]
    <2>1. FilesStill /\ pc' = [pc EXCEPT ![u] = "prepare"] /\ needed[u] \subseteq all'[u]
      BY <1>1, <1>3 DEF Prepare, FilesStill, ShellTypeOK, Files, FilesTypeOK
    <2>2. \A q \in Packages \ astray[u] : PackageIn(u, q, "prepare", todo[u] \ {p})
      BY <1>1, <1>2, <1>3 DEF PackageFiles, PackageIn, Quiet
    <2> QED  BY <1>1, <2>1, <2>2, LoopFiles DEF Quiet
  <1>4. CASE p \in needed[u]
    <2>1. /\ log' = [log EXCEPT ![u] = Protected(u, p) \o @]
          /\ tags' = [tags EXCEPT ![u][p] = NewCsn(u, p)]
      BY <1>4 DEF Prepare, UpdateCsns
    <2>2. FilesTypeOK' /\ ArchiveGrows
      BY <1>1, <2>1, ProtectedFiles
    <2>3. \A v \in Users \ {u} : Same(v)
      BY <1>1, <2>1 DEF Files, FilesTypeOK, ShellTypeOK, Same
    <2>4. todo'[u] = todo[u] \ {p} /\ pc'[u] = "prepare"
      BY <1>1 DEF ShellTypeOK
    <2>5. ASSUME NEW q \in Packages \ astray[u]
          PROVE  PackageFiles(u, q)'
      <3>1. CASE q # p
        <4>1. (Marked(u, q)' <=> Marked(u, q)) /\ (Untouched(u, q)' <=> Untouched(u, q))
          BY <1>1, <2>1, <3>1, ProtectedFiles
        <4> QED  BY <1>1, <1>2, <2>4, <3>1, <4>1 DEF PackageFiles, Quiet
      <3>2. CASE q = p
        <4>1. Fits(u, p) /\ Recoverable(u, p)
          BY <1>1, <1>2, <3>2, LogRecovers DEF PackageFiles, Untouched, Stages
        <4>2. Marked(u, p)'
          BY <1>1, <2>1, <4>1, ProtectedFiles
        <4> QED  BY <1>1, <1>4, <2>4, <3>2, <4>2 DEF PackageFiles, Quiet
      <3> QED  BY <3>1, <3>2
    <2>6. UserFiles(u)'
      BY <1>1, <2>4, <2>5 DEF UserFiles, Quiet
    <2> QED  BY <2>2, <2>3, <2>6, OneUser
  <1> QED  BY <1>3, <1>4

LEMMA PrepareFailsFiles ==
    ASSUME Files, ShellTypeOK, NEW u \in Users, NEW p \in Packages, PrepareFails(u, p)
    PROVE  Files'
  <1>1. /\ UNCHANGED << archive, base, pack, astray, needed, all >>
        /\ pc[u] = "prepare" /\ p \in todo[u] /\ p \in needed[u]
        /\ Loop(u, "unlock", all[u])
    BY DEF PrepareFails, Visits, ReleaseAll, outside
  <1>2. /\ \A q \in Packages \ astray[u] : Recoverable(u, q)
        /\ p \notin astray[u] => Fits(u, p)
    BY <1>1, LogRecovers
    DEF Files, FilesInv, UserFiles, PackageFiles, Untouched, Stages
  <1>3. CASE UNCHANGED << log, tags >>
    <2>1. FilesStill /\ needed[u] \subseteq all'[u]
      BY <1>1, <1>3 DEF FilesStill, Files, FilesTypeOK
    <2> QED  BY <1>1, <1>2, <2>1, LoopFiles DEF Loop, Goto, PackageIn, Quiet
  <1>4. CASE /\ log' = [log EXCEPT ![u] = Protected(u, p) \o @]
             /\ tags' = tags \/ tags' = [tags EXCEPT ![u][p] = NewCsn(u, p)]
    <2>1. FilesTypeOK' /\ ArchiveGrows
      BY <1>1, <1>4, ProtectedFiles
    <2>2. \A v \in Users \ {u} : Same(v)
      BY <1>1, <1>4 DEF Files, FilesTypeOK, ShellTypeOK, Same, Loop, Goto
    <2>3. pc'[u] = "unlock"
      BY <1>1 DEF ShellTypeOK, Loop, Goto
    <2>4. \A q \in Packages \ astray[u] : Recoverable(u, q)'
      BY <1>1, <1>2, <1>4, ProtectedFiles
    <2>5. UserFiles(u)'
      BY <1>1, <2>3, <2>4 DEF UserFiles, PackageFiles, Quiet
    <2> QED  BY <2>1, <2>2, <2>5, OneUser
  <1> QED  BY <1>3, <1>4 DEF PrepareFails, UpdateCsns

LEMMA PreparingFiles ==
    ASSUME Files, ShellTypeOK, NEW u \in Users, Prepared(u) \/ Confirm(u)
    PROVE  Files'
  <1>1. FilesStill /\ UNCHANGED << needed, all >> /\ pc[u] \in {"prepare", "confirm"}
    BY DEF Prepared, Confirm, LoopEnds, wcVars, outside, FilesStill
  <1>2. /\ needed[u] \subseteq all[u] /\ todo = [todo EXCEPT ![u] = todo[u]]
        /\ \A q \in Packages \ astray[u] : PackageFiles(u, q) /\ Recoverable(u, q)
    BY <1>1, LogRecovers
    DEF Files, FilesTypeOK, FilesInv, UserFiles, ShellTypeOK, Stages
  <1>3. CASE Prepared(u)
    <2>1. pc' = [pc EXCEPT ![u] = "confirm"] /\ todo' = [todo EXCEPT ![u] = todo[u]]
      BY <1>2, <1>3 DEF Prepared, Goto
    <2>2. \A q \in Packages \ astray[u] : PackageIn(u, q, "confirm", todo[u])
      BY <1>1, <1>2, <1>3 DEF Prepared, LoopEnds, PackageFiles, PackageIn, Quiet
    <2> QED  BY <1>1, <1>2, <2>1, <2>2, LoopFiles DEF Quiet
  <1>4. CASE Confirm(u)
    <2>1. PICK answer \in {"commit", "unlock"} : Loop(u, answer, all[u])
      BY <1>4 DEF Confirm
    <2>2. \A q \in Packages \ astray[u] : PackageIn(u, q, answer, all[u])
      BY <1>1, <1>2, <1>4 DEF Confirm, PackageFiles, PackageIn, Quiet
    <2> QED  BY <1>1, <1>2, <2>1, <2>2, LoopFiles DEF Loop, Goto, Quiet
  <1> QED  BY <1>3, <1>4

-----------------------------------------------------------------------------
(* save and publish: the version that is archived has the CSN that mytags  *)
(* announced, and no other working copy is based on it.                    *)
LEMMA SavedFiles ==
    ASSUME Files, NEW u \in Users, NEW p \in Packages, Save(u, p)
    PROVE  /\ pack' \in [Users -> [Packages -> Nat]] /\ pack'[u][p] = pack[u][p] + 1
           /\ \A q \in Packages \ {p} : pack'[u][q] = pack[u][q]
           /\ \A v \in Users \ {u} : pack'[v] = pack[v]
  <1>1. pack \in [Users -> [Packages -> Nat]] /\ pack[u][p] + 1 \in Nat
    BY DEF Files, FilesTypeOK
  <1>2. pack' = [pack EXCEPT ![u][p] = pack[u][p] + 1]
    BY DEF Save, NewCsn
  <1> QED  BY <1>1, <1>2, FileWritten

LEMMA PublishedFiles ==
    ASSUME Files, NEW u \in Users, NEW p \in Packages, Publish(u, p)
    PROVE  /\ archive' \in [Packages -> Seq(Nat)] /\ ArchiveGrows
           /\ base' \in [Users -> [Packages -> Nat]]
           /\ \A v \in Users, q \in Packages : base'[v][q] \in 1..Len(archive'[q])
           /\ Due(u, p)' = pack[u][p] + 1
           /\ \A q \in Packages \ {p} : Due(u, q)' = Due(u, q)
           /\ \A v \in Users \ {u} : base'[v] = base[v]
  <1> DEFINE n == Len(archive[p]) + 1
             csn == pack[u][p] + 1
  <1>1. /\ archive \in [Packages -> Seq(Nat)] /\ archive[p] \in Seq(Nat)
        /\ base \in [Users -> [Packages -> Nat]]
        /\ \A v \in Users, q \in Packages : base[v][q] \in 1..Len(archive[q])
        /\ csn \in Nat /\ n \in Nat
    BY DEF Files, FilesTypeOK
  <1>2. archive' = [archive EXCEPT ![p] = Append(archive[p], csn)]
    BY <1>1 DEF Publish, NewCsn
  <1>3. base' = [base EXCEPT ![u][p] = n]
    BY DEF Publish
  <1> HIDE DEF n, csn
  <1>4. /\ base' \in [Users -> [Packages -> Nat]] /\ base'[u][p] = n
        /\ \A q \in Packages \ {p} : base'[u][q] = base[u][q]
        /\ \A v \in Users \ {u} : base'[v] = base[v]
    BY <1>1, <1>3, FileWritten
  <1> DEFINE later == Append(archive[p], csn)
  <1>5. /\ later \in Seq(Nat) /\ Len(later) = n /\ later[n] = csn
        /\ \A i \in 1..Len(archive[p]) : later[i] = archive[p][i]
    BY <1>1 DEF n
  <1> HIDE DEF later
  <1>6. /\ archive' \in [Packages -> Seq(Nat)] /\ archive'[p] = later
        /\ \A q \in Packages \ {p} : archive'[q] = archive[q]
    BY <1>1, <1>2, <1>5 DEF later
  <1>7. n = Len(archive[p]) + 1 /\ Len(archive[p]) \in Nat /\ n \in 1..n
    BY <1>1 DEF n
  <1>8. ArchiveGrows
    <2>1. ASSUME NEW q \in Packages
          PROVE  /\ Len(archive[q]) <= Len(archive'[q])
                 /\ \A i \in 1..Len(archive[q]) : archive'[q][i] = archive[q][i]
      <3>1. CASE q = p
        <4>1. Len(archive'[p]) = Len(archive[p]) + 1
          BY <1>5, <1>6, <1>7
        <4> QED  BY <1>5, <1>6, <1>7, <3>1, <4>1
      <3>2. CASE q # p
        <4>1. archive'[q] = archive[q] /\ Len(archive[q]) \in Nat
          BY <1>1, <1>6, <3>2
        <4> QED  BY <4>1
      <3> QED  BY <3>1, <3>2
    <2> QED  BY <2>1 DEF ArchiveGrows
  <1>9. ASSUME NEW v \in Users, NEW q \in Packages
        PROVE  base'[v][q] \in 1..Len(archive'[q])
    <2>1. CASE v = u /\ q = p
      BY <1>4, <1>5, <1>6, <1>7, <2>1
    <2>2. CASE v # u \/ q # p
      <3>1. base'[v][q] = base[v][q] /\ base[v][q] \in 1..Len(archive[q])
        BY <1>1, <1>4, <2>2
      <3>2. Len(archive[q]) <= Len(archive'[q])
        BY <1>8 DEF ArchiveGrows
      <3>3. archive[q] \in Seq(Nat) /\ archive'[q] \in Seq(Nat)
        BY <1>1, <1>6
      <3>4. Len(archive[q]) \in Nat /\ Len(archive'[q]) \in Nat
        BY <3>3
      <3> QED  BY <3>1, <3>2, <3>4
    <2> QED  BY <2>1, <2>2
  <1>10. Due(u, p)' = csn /\ \A q \in Packages \ {p} : Due(u, q)' = Due(u, q)
    BY <1>4, <1>5, <1>6 DEF Due
  <1> QED  BY <1>4, <1>6, <1>8, <1>9, <1>10 DEF csn

LEMMA CommitStageFiles ==
    ASSUME Files, ShellTypeOK, NEW u \in Users, NEW p \in Packages, CommitStage(u, p)
    PROVE  Files'
  <1>1. /\ UNCHANGED << tags, log, astray, needed, all, pc >>
        /\ pc[u] = "commit" /\ p \in todo[u]
        /\ todo' = [todo EXCEPT ![u] = todo[u] \ {p}]
    BY DEF CommitStage, Visits, Visited, outside
  <1>2. UserFiles(u) /\ \A q \in Packages \ astray[u] : PackageFiles(u, q)
    BY DEF Files, FilesInv, UserFiles
  <1>3. CASE p \notin needed[u]
    <2>1. FilesStill /\ pc' = [pc EXCEPT ![u] = "commit"] /\ needed[u] \subseteq all'[u]
      BY <1>1, <1>3 DEF CommitStage, FilesStill, ShellTypeOK, Files, FilesTypeOK
    <2>2. \A q \in Packages \ astray[u] : PackageIn(u, q, "commit", todo[u] \ {p})
      BY <1>1, <1>2, <1>3 DEF PackageFiles, PackageIn, Quiet
    <2> QED  BY <1>1, <2>1, <2>2, LoopFiles DEF Quiet
  <1>4. CASE p \in needed[u]
    <2>1. Save(u, p) /\ Publish(u, p)
      BY <1>4 DEF CommitStage
    <2>2. /\ pack' \in [Users -> [Packages -> Nat]] /\ pack'[u][p] = pack[u][p] + 1
          /\ \A q \in Packages \ {p} : pack'[u][q] = pack[u][q]
          /\ \A v \in Users \ {u} : pack'[v] = pack[v]
      BY <2>1, SavedFiles
    <2>3. /\ archive' \in [Packages -> Seq(Nat)] /\ ArchiveGrows
          /\ base' \in [Users -> [Packages -> Nat]]
          /\ \A v \in Users, q \in Packages : base'[v][q] \in 1..Len(archive'[q])
          /\ Due(u, p)' = pack[u][p] + 1
          /\ \A q \in Packages \ {p} : Due(u, q)' = Due(u, q)
          /\ \A v \in Users \ {u} : base'[v] = base[v]
      BY <2>1, PublishedFiles
    <2>4. FilesTypeOK'
      BY <1>1, <2>2, <2>3 DEF Files, FilesTypeOK
    <2>5. \A v \in Users \ {u} : Same(v)
      BY <1>1, <2>2, <2>3 DEF ShellTypeOK, Same
    <2>6. todo'[u] = todo[u] \ {p} /\ pc'[u] = "commit"
      BY <1>1 DEF ShellTypeOK
    <2>7. ASSUME NEW q \in Packages \ astray[u]
          PROVE  PackageFiles(u, q)'
      <3>1. CASE q # p
        <4>1. /\ Fits(u, q)' <=> Fits(u, q)
              /\ Marked(u, q)' <=> Marked(u, q)
              /\ Untouched(u, q)' <=> Untouched(u, q)
          BY <1>1, <2>2, <2>3, <3>1
          DEF Fits, Marked, Untouched, Unlogged, Recoverable, LoggedFile
        <4> QED  BY <1>1, <1>2, <2>6, <3>1, <4>1 DEF PackageFiles, Quiet
      <3>2. CASE q = p
        <4>1. pack[u][p] = Due(u, p) /\ tags[u][p] = Due(u, p) + 1
          BY <1>1, <1>2, <1>4, <3>2 DEF PackageFiles, Marked
        <4>2. Fits(u, p)'
          BY <1>1, <2>2, <2>3, <4>1 DEF Fits
        <4> QED  BY <1>1, <1>4, <2>6, <3>2, <4>2 DEF PackageFiles, Quiet
      <3> QED  BY <3>1, <3>2
    <2>8. UserFiles(u)'
      BY <1>1, <2>6, <2>7 DEF UserFiles, Quiet
    <2> QED  BY <2>3, <2>4, <2>5, <2>8, OneUser
  <1> QED  BY <1>3, <1>4

(* A dilemma behind a published package leaves the published ones astray.  *)
LEMMA DilemmaFiles ==
    ASSUME Files, ShellTypeOK, NEW u \in Users, NEW p \in Packages, DilemmaAborted(u, p)
    PROVE  Files'
  <1>1. /\ UNCHANGED << tags, log, needed, all >> /\ Save(u, p)
        /\ pc[u] = "commit" /\ p \in todo[u] /\ p \in needed[u]
        /\ Loop(u, "unlock", all[u])
    BY DEF DilemmaAborted, Visits, ReleaseAll
  <1>2. PICK published \in BOOLEAN :
            /\ IF published THEN Publish(u, p) ELSE UNCHANGED << archive, base, dirty >>
            /\ astray' = [astray EXCEPT ![u] = @ \cup ((needed[u] \ todo[u])
                              \cup (IF published THEN {p} ELSE {}))]
    BY DEF DilemmaAborted
  <1>3. /\ pack' \in [Users -> [Packages -> Nat]]
        /\ \A q \in Packages \ {p} : pack'[u][q] = pack[u][q]
        /\ \A v \in Users \ {u} : pack'[v] = pack[v]
    BY <1>1, SavedFiles
  <1>4. /\ archive' \in [Packages -> Seq(Nat)] /\ ArchiveGrows
        /\ base' \in [Users -> [Packages -> Nat]]
        /\ \A v \in Users, q \in Packages : base'[v][q] \in 1..Len(archive'[q])
        /\ \A q \in Packages \ {p} : Due(u, q)' = Due(u, q)
        /\ ~published => Due(u, p)' = Due(u, p)
        /\ \A v \in Users \ {u} : base'[v] = base[v]
    <2>1. CASE published
      BY <1>2, <2>1, PublishedFiles
    <2>2. CASE ~published
      BY <1>2, <2>2 DEF Files, FilesTypeOK, ArchiveGrows, Due
    <2> QED  BY <2>1, <2>2
  <1>5. /\ astray' \in [Users -> SUBSET Packages]
        /\ \A v \in Users \ {u} : astray'[v] = astray[v]
        /\ astray[u] \cup (needed[u] \ todo[u]) \subseteq astray'[u]
        /\ published => p \in astray'[u]
    BY <1>2 DEF Files, FilesTypeOK
  <1>6. FilesTypeOK'
    BY <1>1, <1>3, <1>4, <1>5 DEF Files, FilesTypeOK
  <1>7. \A v \in Users \ {u} : Same(v)
    BY <1>1, <1>3, <1>4, <1>5 DEF ShellTypeOK, Same, Loop, Goto
  <1>8. pc'[u] = "unlock"
    BY <1>1 DEF ShellTypeOK, Loop, Goto
  <1>9. ASSUME NEW q \in Packages \ astray'[u]
        PROVE  Recoverable(u, q)'
    <2>1. q \in Packages \ astray[u] /\ q \notin needed[u] \ todo[u]
      BY <1>5, <1>9
    <2>2. UserFiles(u) /\ PackageFiles(u, q) /\ Recoverable(u, q)
      BY <1>1, <2>1, LogRecovers DEF Files, FilesInv, UserFiles, Stages
    <2>3. CASE q # p
      BY <1>1, <1>3, <1>4, <2>2, <2>3 DEF Recoverable, LoggedFile
    <2>4. CASE q = p
      <3>1. ~published /\ Due(u, p)' = Due(u, p)
        BY <1>4, <1>5, <1>9, <2>4
      <3>2. Marked(u, p)
        BY <1>1, <2>2, <2>4 DEF PackageFiles
      <3> QED  BY <1>1, <2>4, <3>1, <3>2 DEF Marked, Recoverable, LoggedFile
    <2> QED  BY <2>3, <2>4
  <1>10. UserFiles(u)'
    BY <1>8, <1>9 DEF UserFiles, PackageFiles, Quiet
  <1> QED  BY <1>4, <1>6, <1>7, <1>10, OneUser

LEMMA CommittedFiles ==
    ASSUME Files, ShellTypeOK, NEW u \in Users, Committed(u)
    PROVE  Files'
  <1>1. /\ FilesStill /\ UNCHANGED << needed, all >> /\ pc[u] = "commit" /\ todo[u] = {}
        /\ needed[u] \subseteq all'[u]
    BY DEF Committed, LoopEnds, wcVars, outside, FilesStill, Files, FilesTypeOK
  <1>2. pc' = [pc EXCEPT ![u] = "finish"] /\ todo' = [todo EXCEPT ![u] = {}]
    BY <1>1 DEF Committed, Goto, ShellTypeOK
  <1>3. \A q \in Packages \ astray[u] : PackageIn(u, q, "finish", {})
    BY <1>1 DEF Files, FilesInv, UserFiles, PackageFiles, PackageIn, Quiet
  <1> QED  BY <1>1, <1>2, <1>3, LoopFiles DEF Quiet

(* Xaction::commit: nothing is restored any more, and every file fits.     *)
LEMMA FinishFiles ==
    ASSUME Files, ShellTypeOK, NEW u \in Users, Finish(u)
    PROVE  Files'
  <1>1. /\ UNCHANGED << archive, base, pack, tags, astray, needed, all >>
        /\ pc[u] = "finish" /\ log' = [log EXCEPT ![u] = << >>]
        /\ Loop(u, "unlock", all[u])
    BY DEF Finish, ReleaseAll, wcVars, outside
  <1>2. << >> \in Seq(Entries)
    OBVIOUS
  <1>3. log' \in [Users -> Seq(Entries)] /\ log'[u] = << >>
        /\ \A v \in Users \ {u} : log'[v] = log[v]
    BY <1>1, <1>2 DEF Files, FilesTypeOK
  <1>4. FilesTypeOK' /\ ArchiveGrows
    BY <1>1, <1>3 DEF Files, FilesTypeOK, ArchiveGrows
  <1>5. \A v \in Users \ {u} : Same(v)
    BY <1>1, <1>3 DEF ShellTypeOK, Same, Loop, Goto
  <1>6. ASSUME NEW q \in Packages \ astray[u]
        PROVE  Recoverable(u, q)'
    <2>1. Fits(u, q)
      BY <1>1 DEF Files, FilesInv, UserFiles, PackageFiles, Untouched
    <2>2. Fits(u, q)'
      BY <1>1, <2>1 DEF Fits, Due
    <2> QED  BY <1>3, <2>2, KeptEmpty DEF Fits, Recoverable
  <1>7. pc'[u] = "unlock"
    BY <1>1 DEF ShellTypeOK, Loop, Goto
  <1>8. UserFiles(u)'
    BY <1>1, <1>6, <1>7 DEF UserFiles, PackageFiles, Quiet
  <1> QED  BY <1>4, <1>5, <1>8, OneUser

-----------------------------------------------------------------------------
LEMMA ReturnsFiles ==
    ASSUME Files, ShellTypeOK, FilesStill, NEW u \in Users, Returns(u), log[u] = << >>,
           \A q \in Packages \ astray[u] : Fits(u, q)
    PROVE  Files'
  <1>1. /\ pc'[u] = "idle" /\ all'[u] = {} /\ needed'[u] = {}
        /\ needed' \in [Users -> SUBSET Packages]
        /\ \A v \in Users \ {u} : needed'[v] = needed[v] /\ all'[v] = all[v]
    BY DEF Returns, Loop, Goto, ShellTypeOK, Files, FilesTypeOK
  <1>2. \A v \in Users : needed'[v] \subseteq all'[v]
    BY <1>1 DEF Files, FilesTypeOK
  <1>3. FilesTypeOK' /\ ArchiveGrows
    BY <1>1, <1>2, StillFiles DEF Files
  <1>4. \A v \in Users \ {u} : Same(v)
    BY <1>1 DEF Returns, Loop, Goto, ShellTypeOK, FilesStill, Same
  <1>5. \A q \in Packages \ astray[u] : Fits(u, q)'
    BY StillFiles DEF Files
  <1>6. UserFiles(u)'
    BY <1>1, <1>5 DEF UserFiles, PackageFiles, Quiet, FilesStill
  <1> QED  BY <1>3, <1>4, <1>6, OneUser

LEMMA UnlockAllFiles ==
    ASSUME Files, ShellTypeOK, NEW u \in Users, UnlockAll(u)
    PROVE  Files'
  <1>1. FilesStill /\ pc[u] = "unlock" /\ pc = [pc EXCEPT ![u] = "unlock"]
    BY DEF UnlockAll, Release, KeepLock, ReleaseFails, Unlocked, Visits, LoopEnds,
           wcVars, outside, FilesStill, ShellTypeOK
  <1>2. needed[u] \subseteq all[u] /\ \A q \in Packages \ astray[u] : Recoverable(u, q)
    BY <1>1 DEF Files, FilesTypeOK, FilesInv, UserFiles, PackageFiles
  <1>3. CASE \E p \in Packages : Release(u, p) \/ KeepLock(u, p) \/ ReleaseFails(u, p)
    <2>1. UNCHANGED << needed, all, pc >> /\ \E p \in Packages : Visited(u, p)
      BY <1>3 DEF Release, KeepLock, ReleaseFails, Told
    <2>2. PICK packages : todo' = [todo EXCEPT ![u] = packages]
      BY <2>1 DEF Visited
    <2> QED  BY <1>1, <1>2, <2>1, <2>2, LoopFiles DEF PackageIn, Quiet
  <1>4. CASE Unlocked(u) /\ log[u] = << >>
    <2>1. Returns(u) /\ \A q \in Packages \ astray[u] : Fits(u, q)
      BY <1>2, <1>4, NothingLogged, EmptyLogFits DEF Unlocked
    <2> QED  BY <1>1, <1>4, <2>1, ReturnsFiles
  <1>5. CASE Unlocked(u) /\ log[u] # << >>
    <2>1. /\ pc' = [pc EXCEPT ![u] = "abort"] /\ UNCHANGED << all, needed >>
          /\ todo' = [todo EXCEPT ![u] = todo[u]]
      BY <1>5 DEF Unlocked, Goto, ShellTypeOK
    <2> QED  BY <1>1, <1>2, <1>5, <2>1, LoopFiles DEF PackageIn, Quiet
  <1> QED  BY <1>3, <1>4, <1>5 DEF UnlockAll

(* Xaction::abort.  One entry of the log brings back its file; the rest of *)
(* the log has what the other files need.                                  *)
LEMMA RestoredFile ==
    ASSUME NEW f \in [Users -> [Packages -> Nat]], NEW u \in Users, NEW e \in Entries,
           NEW name, NEW g, g = Restored(f, name, e, u)
    PROVE  /\ g \in [Users -> [Packages -> Nat]]
           /\ \A v \in Users \ {u} : g[v] = f[v]
           /\ \A q \in Packages :
                 /\ e.file = name /\ e.package = q => g[u][q] = e.csn
                 /\ e.file # name \/ e.package # q => g[u][q] = f[u][q]
  <1>1. e.package \in Packages /\ e.csn \in Nat
    BY DEF Entries
  <1>2. CASE e.file = name
    <2>1. g = [f EXCEPT ![u][e.package] = e.csn]
      BY <1>2 DEF Restored
    <2>2. /\ g \in [Users -> [Packages -> Nat]] /\ g[u][e.package] = e.csn
          /\ \A q \in Packages \ {e.package} : g[u][q] = f[u][q]
          /\ \A v \in Users \ {u} : g[v] = f[v]
      BY <1>1, <2>1, FileWritten
    <2> QED  BY <1>2, <2>2
  <1>3. CASE e.file # name
    BY <1>3 DEF Restored
  <1> QED  BY <1>2, <1>3

LEMMA UndoFiles ==
    ASSUME Files, ShellTypeOK, NEW u \in Users, Undo(u)
    PROVE  Files'
  <1> DEFINE e == Head(log[u])
  <1>1. /\ pc[u] = "abort" /\ UNCHANGED << archive, base, astray >>
        /\ log' = [log EXCEPT ![u] = Tail(@)]
        /\ pack' = Restored(pack, "pack", e, u) /\ tags' = Restored(tags, "tags", e, u)
    BY DEF Undo, outside
  <1>2. /\ log \in [Users -> Seq(Entries)] /\ log[u] # << >> /\ UserFiles(u)
        /\ \A q \in Packages \ astray[u] : Recoverable(u, q)
    BY <1>1 DEF Files, FilesTypeOK, FilesInv, UserFiles, PackageFiles
  <1>3. /\ Tail(log[u]) \in Seq(Entries) /\ e \in Entries
        /\ Kept(log[u]) = {e} \cup Kept(Tail(log[u]))
        /\ Len(log[u]) = 1 <=> Tail(log[u]) = << >>
    BY <1>2, KeptTail
  <1> HIDE DEF e
  <1>4. /\ pack' \in [Users -> [Packages -> Nat]]
        /\ \A v \in Users \ {u} : pack'[v] = pack[v]
        /\ \A q \in Packages :
              /\ e.file = "pack" /\ e.package = q => pack'[u][q] = e.csn
              /\ e.file # "pack" \/ e.package # q => pack'[u][q] = pack[u][q]
    <2>1. /\ pack \in [Users -> [Packages -> Nat]] /\ e \in Entries
          /\ pack' = Restored(pack, "pack", e, u)
      BY <1>1, <1>3 DEF Files, FilesTypeOK
    <2>2. pack' \in [Users -> [Packages -> Nat]]
      BY <2>1, RestoredFile
    <2>3. \A v \in Users \ {u} : pack'[v] = pack[v]
      BY <2>1, RestoredFile
    <2>4. ASSUME NEW q \in Packages, e.file = "pack", e.package = q
          PROVE  pack'[u][q] = e.csn
      BY <2>1, <2>4, RestoredFile
    <2>5. ASSUME NEW q \in Packages, e.file # "pack" \/ e.package # q
          PROVE  pack'[u][q] = pack[u][q]
      BY <2>1, <2>5, RestoredFile
    <2> QED  BY <2>2, <2>3, <2>4, <2>5
  <1>5. /\ tags' \in [Users -> [Packages -> Nat]]
        /\ \A v \in Users \ {u} : tags'[v] = tags[v]
        /\ \A q \in Packages :
              /\ e.file = "tags" /\ e.package = q => tags'[u][q] = e.csn
              /\ e.file # "tags" \/ e.package # q => tags'[u][q] = tags[u][q]
    <2>1. /\ tags \in [Users -> [Packages -> Nat]] /\ e \in Entries
          /\ tags' = Restored(tags, "tags", e, u)
      BY <1>1, <1>3 DEF Files, FilesTypeOK
    <2>2. tags' \in [Users -> [Packages -> Nat]]
      BY <2>1, RestoredFile
    <2>3. \A v \in Users \ {u} : tags'[v] = tags[v]
      BY <2>1, RestoredFile
    <2>4. ASSUME NEW q \in Packages, e.file = "tags", e.package = q
          PROVE  tags'[u][q] = e.csn
      BY <2>1, <2>4, RestoredFile
    <2>5. ASSUME NEW q \in Packages, e.file # "tags" \/ e.package # q
          PROVE  tags'[u][q] = tags[u][q]
      BY <2>1, <2>5, RestoredFile
    <2> QED  BY <2>2, <2>3, <2>4, <2>5
  <1>6. /\ log' \in [Users -> Seq(Entries)] /\ log'[u] = Tail(log[u])
        /\ \A v \in Users \ {u} : log'[v] = log[v]
    BY <1>1, <1>2, <1>3
  <1>7. /\ needed' \in [Users -> SUBSET Packages]
        /\ \A v \in Users : needed'[v] \subseteq all'[v]
        /\ \A v \in Users \ {u} : UNCHANGED << needed[v], all[v], pc[v], todo[v] >>
    <2>1. /\ needed \in [Users -> SUBSET Packages] /\ \A v \in Users : needed[v] \subseteq all[v]
          /\ pc \in [Users -> Stages] /\ all \in [Users -> SUBSET Packages]
          /\ todo \in [Users -> SUBSET Packages]
      BY DEF Files, FilesTypeOK, ShellTypeOK
    <2>2. Returns(u) \/ UNCHANGED << pc, all, todo, needed >>
      BY DEF Undo
    <2> QED  BY <2>1, <2>2 DEF Returns, Loop, Goto
  <1>8. FilesTypeOK' /\ ArchiveGrows
    BY <1>1, <1>4, <1>5, <1>6, <1>7 DEF Files, FilesTypeOK, ArchiveGrows
  <1>9. \A v \in Users \ {u} : Same(v)
    BY <1>1, <1>4, <1>5, <1>6, <1>7 DEF Same
  <1>10. ASSUME NEW q \in Packages \ astray[u]
         PROVE  Recoverable(u, q)'
    <2>1. Recoverable(u, q) /\ Due(u, q)' = Due(u, q)
      BY <1>1, <1>2 DEF Due
    <2>2. \A x \in Kept(log[u]) : x = e \/ x \in Kept(log'[u])
      BY <1>3, <1>6
    <2>3. \A x \in Kept(log'[u]) : x.package = q => x.csn = Due(u, q)
      BY <1>3, <1>6, <2>1 DEF Recoverable
    <2>4. e.package = q => e.csn = Due(u, q)
      BY <1>3, <2>1 DEF Recoverable
    <2>5. pack'[u][q] = Due(u, q) \/ LoggedFile(u, "pack", q)'
      BY <1>4, <2>1, <2>2, <2>4 DEF Recoverable, LoggedFile
    <2>6. tags'[u][q] = Due(u, q) \/ LoggedFile(u, "tags", q)'
      BY <1>5, <2>1, <2>2, <2>4 DEF Recoverable, LoggedFile
    <2> QED  BY <2>1, <2>3, <2>5, <2>6 DEF Recoverable
  <1>11. CASE Len(log[u]) = 1
    <2>1. pc'[u] = "idle" /\ all'[u] = {} /\ log'[u] = << >>
      BY <1>3, <1>6, <1>11 DEF Undo, Returns, Loop, Goto, ShellTypeOK
    <2>2. ASSUME NEW q \in Packages \ astray[u]
          PROVE  Fits(u, q)'
      BY <1>10, <2>1, KeptEmpty DEF Recoverable, LoggedFile, Fits
    <2>3. UserFiles(u)'
      BY <1>1, <2>1, <2>2 DEF UserFiles, PackageFiles, Quiet
    <2> QED  BY <1>8, <1>9, <2>3, OneUser
  <1>12. CASE Len(log[u]) # 1
    <2>1. pc'[u] = "abort" /\ log'[u] # << >>
      BY <1>1, <1>3, <1>6, <1>12 DEF Undo
    <2>2. UserFiles(u)'
      BY <1>1, <1>10, <2>1 DEF UserFiles, PackageFiles, Quiet
    <2> QED  BY <1>8, <1>9, <2>2, OneUser
  <1> QED  BY <1>11, <1>12

(***************************************************************************)
(* A shell that ends leaves files behind that fit, or its user is astray.  *)
(***************************************************************************)
LEMMA EndFiles ==
    ASSUME Files, ShellTypeOK, NEW u \in Users, NEW how \in {"died", "killed"},
           Ends(u, how), UNCHANGED << archive, base, all, needed >>,
           pack' \in [Users -> [Packages -> Nat]], tags' \in [Users -> [Packages -> Nat]],
           astray' \in [Users -> SUBSET Packages],
           \A v \in Users \ {u} : UNCHANGED << pack[v], tags[v], astray[v] >>,
           \A q \in Packages \ astray'[u] : Fits(u, q)'
    PROVE  Files'
  <1>1. << >> \in Seq(Entries)
    OBVIOUS
  <1>2. log' \in [Users -> Seq(Entries)] /\ log'[u] = << >>
        /\ \A v \in Users \ {u} : log'[v] = log[v]
    BY <1>1 DEF Ends, Files, FilesTypeOK
  <1>3. pc'[u] = how /\ \A v \in Users \ {u} : pc'[v] = pc[v] /\ todo'[v] = todo[v]
    BY DEF Ends, Loop, Goto, ShellTypeOK
  <1>4. FilesTypeOK' /\ ArchiveGrows
    BY <1>2 DEF Files, FilesTypeOK, ArchiveGrows
  <1>5. \A v \in Users \ {u} : Same(v)
    BY <1>2, <1>3 DEF Same
  <1>6. UserFiles(u)'
    BY <1>2, <1>3 DEF UserFiles, PackageFiles, Quiet
  <1> QED  BY <1>4, <1>5, <1>6, OneUser

LEMMA LoggedIsLogged ==
    ASSUME NEW u \in Users, NEW q \in Packages
    PROVE  q \notin Logged(u) <=> Unlogged(u, q)
  BY DEF Logged, Unlogged, Kept

LEMMA LoggedPackages ==
    ASSUME Files, NEW u \in Users
    PROVE  Logged(u) \subseteq Packages
  <1>1. log[u] \in Seq(Entries)
    BY DEF Files, FilesTypeOK
  <1>2. ASSUME NEW i \in 1..Len(log[u])
        PROVE  log[u][i].package \in Packages
    <2>1. log[u][i] \in Entries
      BY <1>1
    <2> QED  BY <2>1 DEF Entries
  <1> QED  BY <1>2 DEF Logged

LEMMA DiesFiles ==
    ASSUME Files, ShellTypeOK, NEW u \in Users, Dies(u)
    PROVE  Files'
  <1>1. /\ Ends(u, "died") /\ UNCHANGED << archive, base, pack, tags, all, needed >>
        /\ pc[u] \in {"finish", "abort"}
        /\ astray' = [astray EXCEPT ![u] =
                         IF pc[u] = "abort" THEN @ \cup Logged(u) ELSE @]
    BY DEF Dies, wcVars
  <1>2. UserFiles(u)
    BY DEF Files, FilesInv
  <1>3. Logged(u) \subseteq Packages
    BY LoggedPackages
  <1>4. /\ astray' \in [Users -> SUBSET Packages]
        /\ astray'[u] = IF pc[u] = "abort" THEN astray[u] \cup Logged(u) ELSE astray[u]
        /\ \A v \in Users \ {u} : UNCHANGED << pack[v], tags[v], astray[v] >>
    <2> DEFINE lost == IF pc[u] = "abort" THEN astray[u] \cup Logged(u) ELSE astray[u]
    <2>1. astray' = [astray EXCEPT ![u] = lost]
      BY <1>1
    <2>2. lost \in SUBSET Packages /\ astray \in [Users -> SUBSET Packages]
      BY <1>3 DEF Files, FilesTypeOK
    <2> HIDE DEF lost
    <2>3. /\ astray' \in [Users -> SUBSET Packages] /\ astray'[u] = lost
          /\ \A v \in Users \ {u} : astray'[v] = astray[v]
      BY <2>1, <2>2
    <2> QED  BY <1>1, <2>3 DEF lost
  <1>5. ASSUME NEW q \in Packages \ astray'[u]
        PROVE  Fits(u, q)'
    <2>1. q \in Packages \ astray[u] /\ PackageFiles(u, q)
      BY <1>2, <1>4, <1>5 DEF UserFiles
    <2>2. CASE pc[u] = "finish"
      <3>1. Fits(u, q)
        BY <1>2, <2>1, <2>2 DEF UserFiles, PackageFiles, Untouched
      <3> QED  BY <1>1, <3>1 DEF Fits, Due
    <2>3. CASE pc[u] = "abort"
      <3>1. Recoverable(u, q) /\ Unlogged(u, q)
        BY <1>4, <1>5, <2>1, <2>3, LoggedIsLogged DEF PackageFiles
      <3>2. Fits(u, q)
        BY <3>1, EmptyLogFits
      <3> QED  BY <1>1, <3>2 DEF Fits, Due
    <2> QED  BY <1>1, <2>2, <2>3
  <1>6. /\ pack' \in [Users -> [Packages -> Nat]]
        /\ tags' \in [Users -> [Packages -> Nat]]
    BY <1>1 DEF Files, FilesTypeOK
  <1> QED  BY <1>1, <1>4, <1>5, <1>6, EndFiles

(* accept_signal runs the whole log.                                       *)
LEMMA RestoredAllFiles ==
    ASSUME Files, NEW u \in Users, NEW f \in [Users -> [Packages -> Nat]],
           NEW name, NEW g, g = RestoredAll(f, name, u)
    PROVE  /\ g \in [Users -> [Packages -> Nat]]
           /\ \A v \in Users \ {u} : g[v] = f[v]
           /\ \A q \in Packages :
                 \/ \E e \in Kept(log[u]) : e.package = q /\ g[u][q] = e.csn
                 \/ ~LoggedFile(u, name, q) /\ g[u][q] = f[u][q]
  <1> DEFINE Back(p) == IF \E i \in 1..Len(log[u]) :
                                log[u][i].file = name /\ log[u][i].package = p
                        THEN log[u][CHOOSE i \in 1..Len(log[u]) :
                                log[u][i].file = name /\ log[u][i].package = p].csn
                        ELSE f[u][p]
  <1>1. log[u] \in Seq(Entries) /\ f[u] \in [Packages -> Nat]
    BY DEF Files, FilesTypeOK
  <1>2. g = [f EXCEPT ![u] = [p \in Packages |-> Back(p)]]
    BY DEF RestoredAll
  <1>3. ASSUME NEW q \in Packages
        PROVE  /\ Back(q) \in Nat
               /\ \/ \E e \in Kept(log[u]) : e.package = q /\ Back(q) = e.csn
                  \/ ~LoggedFile(u, name, q) /\ Back(q) = f[u][q]
    <2>1. LoggedFile(u, name, q) <=> \E i \in 1..Len(log[u]) :
              log[u][i].file = name /\ log[u][i].package = q
      BY DEF LoggedFile, Kept
    <2>2. CASE LoggedFile(u, name, q)
      <3> DEFINE i == CHOOSE j \in 1..Len(log[u]) :
                         log[u][j].file = name /\ log[u][j].package = q
      <3>1. i \in 1..Len(log[u]) /\ log[u][i].package = q
        BY <2>1, <2>2
      <3>2. Back(q) = log[u][i].csn
        BY <2>1, <2>2
      <3> HIDE DEF i, Back
      <3>3. log[u][i] \in Kept(log[u]) /\ log[u][i] \in Entries
        BY <1>1, <3>1 DEF Kept
      <3>4. log[u][i].csn \in Nat
        BY <3>3 DEF Entries
      <3> QED  BY <2>2, <3>1, <3>2, <3>3, <3>4
    <2>3. CASE ~LoggedFile(u, name, q)
      <3>1. Back(q) = f[u][q]
        BY <2>1, <2>3
      <3> HIDE DEF Back
      <3> QED  BY <1>1, <2>3, <3>1
    <2> QED  BY <2>2, <2>3
  <1> HIDE DEF Back
  <1>4. [p \in Packages |-> Back(p)] \in [Packages -> Nat]
    BY <1>3
  <1>5. /\ g \in [Users -> [Packages -> Nat]]
        /\ \A v \in Users \ {u} : g[v] = f[v]
        /\ g[u] = [p \in Packages |-> Back(p)]
    BY <1>2, <1>4
  <1> QED  BY <1>3, <1>5

(* The file is back at what an entry of the log says, or the log had none. *)
BackFrom(g, f, name, u, q) ==
    \/ \E e \in Kept(log[u]) : e.package = q /\ g[u][q] = e.csn
    \/ ~LoggedFile(u, name, q) /\ g[u][q] = f[u][q]

LEMMA RestoredAllOf ==
    ASSUME Files, NEW u \in Users, NEW f \in [Users -> [Packages -> Nat]],
           NEW name, NEW g, g = RestoredAll(f, name, u), NEW q \in Packages
    PROVE  BackFrom(g, f, name, u, q)
  BY RestoredAllFiles DEF BackFrom

LEMMA InterruptFiles ==
    ASSUME Files, ShellTypeOK, NEW u \in Users, Interrupt(u)
    PROVE  Files'
  <1>1. /\ Ends(u, "killed") /\ UNCHANGED << archive, base, all, needed >>
        /\ pc[u] \in Stages
    BY DEF Interrupt, ShellTypeOK
  <1>2. UserFiles(u) /\ Logged(u) \subseteq Packages
    BY LoggedPackages DEF Files, FilesInv
  <1>3. /\ pack \in [Users -> [Packages -> Nat]] /\ tags \in [Users -> [Packages -> Nat]]
        /\ astray \in [Users -> SUBSET Packages] /\ needed \in [Users -> SUBSET Packages]
    BY DEF Files, FilesTypeOK
  <1>4. CASE handler[u]
    <2>1. /\ pack' = RestoredAll(pack, "pack", u) /\ tags' = RestoredAll(tags, "tags", u)
          /\ astray' = [astray EXCEPT ![u] = @ \cup
                 (IF pc[u] \in {"commit", "finish"} THEN needed[u] \ todo[u] ELSE {})]
      BY <1>4 DEF Interrupt
    <2>2. /\ astray' \in [Users -> SUBSET Packages]
          /\ \A v \in Users \ {u} : astray'[v] = astray[v]
          /\ astray[u] \subseteq astray'[u]
          /\ pc[u] \in {"commit", "finish"} => needed[u] \ todo[u] \subseteq astray'[u]
      BY <1>3, <2>1
    <2>3. /\ pack' \in [Users -> [Packages -> Nat]]
          /\ \A v \in Users \ {u} : pack'[v] = pack[v]
      BY <1>3, <2>1, RestoredAllFiles
    <2>4. /\ tags' \in [Users -> [Packages -> Nat]]
          /\ \A v \in Users \ {u} : tags'[v] = tags[v]
      BY <1>3, <2>1, RestoredAllFiles
    <2>5. ASSUME NEW q \in Packages \ astray'[u]
          PROVE  Fits(u, q)'
      <3>1. Recoverable(u, q) /\ Due(u, q)' = Due(u, q)
        BY <1>1, <1>2, <2>2, <2>5, LogRecovers DEF Due
      <3>2. \/ \E e \in Kept(log[u]) : e.package = q /\ pack'[u][q] = e.csn
            \/ ~LoggedFile(u, "pack", q) /\ pack'[u][q] = pack[u][q]
        <4>1. \A g : g = RestoredAll(pack, "pack", u) => BackFrom(g, pack, "pack", u, q)
          BY <1>3, RestoredAllOf
        <4> QED  BY <2>1, <4>1 DEF BackFrom
      <3>3. \/ \E e \in Kept(log[u]) : e.package = q /\ tags'[u][q] = e.csn
            \/ ~LoggedFile(u, "tags", q) /\ tags'[u][q] = tags[u][q]
        <4>1. \A g : g = RestoredAll(tags, "tags", u) => BackFrom(g, tags, "tags", u, q)
          BY <1>3, RestoredAllOf
        <4> QED  BY <2>1, <4>1 DEF BackFrom
      <3> QED  BY <3>1, <3>2, <3>3 DEF Recoverable, Fits
    <2> QED  BY <1>1, <2>2, <2>3, <2>4, <2>5, EndFiles
  <1>5. CASE ~handler[u]
    <2>1. /\ UNCHANGED << pack, tags >>
          /\ astray' = [astray EXCEPT ![u] = @ \cup Logged(u)]
      BY <1>5 DEF Interrupt
    <2>2. /\ astray' \in [Users -> SUBSET Packages]
          /\ \A v \in Users \ {u} : UNCHANGED << pack[v], tags[v], astray[v] >>
          /\ astray'[u] = astray[u] \cup Logged(u)
      BY <1>2, <1>3, <2>1
    <2>3. ASSUME NEW q \in Packages \ astray'[u]
          PROVE  Fits(u, q)'
      <3>1. q \in Packages \ astray[u] /\ q \notin Logged(u) /\ PackageFiles(u, q)
        BY <1>2, <2>2, <2>3 DEF UserFiles
      <3>2. Unlogged(u, q)
        BY <3>1, LoggedIsLogged
      <3>3. Fits(u, q)
        <4>1. CASE pc[u] \in {"commit", "finish"} /\ q \in needed[u] \ todo[u]
          BY <3>1, <4>1 DEF PackageFiles
        <4>2. CASE ~(pc[u] \in {"commit", "finish"} /\ q \in needed[u] \ todo[u])
          BY <1>1, <1>2, <3>1, <3>2, <4>2, LogRecovers, EmptyLogFits
        <4> QED  BY <4>1, <4>2
      <3> QED  BY <1>1, <2>1, <3>3 DEF Fits, Due
    <2> QED  BY <1>1, <1>3, <2>1, <2>2, <2>3, EndFiles
  <1> QED  BY <1>4, <1>5

-----------------------------------------------------------------------------
LEMMA RestartFiles ==
    ASSUME Files, ShellTypeOK, NEW u \in Users, Restart(u)
    PROVE  Files'
  <1>1. FilesStill /\ Returns(u) /\ pc[u] \in {"killed", "died"}
    BY DEF Restart, wcVars, outside, FilesStill
  <1>2. log[u] = << >> /\ \A q \in Packages \ astray[u] : Fits(u, q)
    BY <1>1 DEF Files, FilesInv, UserFiles, PackageFiles, Quiet
  <1> QED  BY <1>1, <1>2, ReturnsFiles

LEMMA StillStepFiles ==
    ASSUME Files, FilesStill, UNCHANGED << pc, all, todo, needed >>
    PROVE  Files'
  <1>1. FilesTypeOK' /\ ArchiveGrows
    BY StillFiles DEF Files, FilesTypeOK
  <1>2. \A v \in Users : UserFiles(v)'
    BY <1>1, SameUser DEF Same, FilesStill
  <1> QED  BY <1>1, <1>2 DEF Files, FilesInv

(* An update takes the files from the version it updates to.               *)
LEMMA UpdateFiles ==
    ASSUME Files, NEW u \in Users, NEW p \in Packages, Update(u, p)
    PROVE  Files'
  <1> DEFINE n == Len(archive[p])
             csn == archive[p][n]
  <1>1. /\ pc[u] = "idle" /\ UNCHANGED << archive, pc, all, todo, needed, log >>
        /\ base' = [base EXCEPT ![u][p] = n]
        /\ pack' = [pack EXCEPT ![u][p] = csn] /\ tags' = [tags EXCEPT ![u][p] = csn]
        /\ astray' = [astray EXCEPT ![u] = astray[u] \ {p}]
    BY DEF Update, shell
  <1>2. n \in Nat /\ csn \in Nat /\ n \in 1..n
    <2>1. archive[p] \in Seq(Nat) /\ base[u][p] \in 1..Len(archive[p])
      BY DEF Files, FilesTypeOK
    <2>2. Len(archive[p]) \in Nat /\ Len(archive[p]) \in 1..Len(archive[p])
      BY <2>1
    <2> QED  BY <2>1, <2>2
  <1>3. /\ base \in [Users -> [Packages -> Nat]] /\ pack \in [Users -> [Packages -> Nat]]
        /\ tags \in [Users -> [Packages -> Nat]] /\ astray \in [Users -> SUBSET Packages]
    BY DEF Files, FilesTypeOK
  <1> HIDE DEF csn, n
  <1>4. /\ base' \in [Users -> [Packages -> Nat]] /\ base'[u][p] = n
        /\ \A q \in Packages \ {p} : base'[u][q] = base[u][q]
        /\ \A v \in Users \ {u} : base'[v] = base[v]
    BY <1>1, <1>2, <1>3, FileWritten
  <1>5. /\ pack' \in [Users -> [Packages -> Nat]] /\ pack'[u][p] = csn
        /\ \A q \in Packages \ {p} : pack'[u][q] = pack[u][q]
        /\ \A v \in Users \ {u} : pack'[v] = pack[v]
    BY <1>1, <1>2, <1>3, FileWritten
  <1>6. /\ tags' \in [Users -> [Packages -> Nat]] /\ tags'[u][p] = csn
        /\ \A q \in Packages \ {p} : tags'[u][q] = tags[u][q]
        /\ \A v \in Users \ {u} : tags'[v] = tags[v]
    BY <1>1, <1>2, <1>3, FileWritten
  <1>7. /\ astray' \in [Users -> SUBSET Packages] /\ astray'[u] = astray[u] \ {p}
        /\ \A v \in Users \ {u} : astray'[v] = astray[v]
    BY <1>1, <1>3
  <1>8. ASSUME NEW v \in Users, NEW q \in Packages
        PROVE  base'[v][q] \in 1..Len(archive[q])
    <2>1. CASE v = u /\ q = p
      BY <1>2, <1>4, <2>1 DEF n
    <2>2. CASE v # u \/ q # p
      BY <1>4, <2>2 DEF Files, FilesTypeOK
    <2> QED  BY <2>1, <2>2
  <1>9. FilesTypeOK' /\ ArchiveGrows
    BY <1>1, <1>4, <1>5, <1>6, <1>7, <1>8, SMTT(30) DEF Files, FilesTypeOK, ArchiveGrows
  <1>10. \A v \in Users \ {u} : Same(v)
    BY <1>1, <1>4, <1>5, <1>6, <1>7 DEF Same
  <1>11. ASSUME NEW q \in Packages \ astray'[u]
         PROVE  Fits(u, q)'
    <2>1. CASE q = p
      <3>1. Due(u, p)' = csn
        BY <1>1, <1>4 DEF Due, csn
      <3> QED  BY <1>5, <1>6, <2>1, <3>1 DEF Fits
    <2>2. CASE q # p
      <3>1. Fits(u, q)
        BY <1>1, <1>7, <1>11, <2>2 DEF Files, FilesInv, UserFiles, PackageFiles, Quiet
      <3> QED  BY <1>1, <1>4, <1>5, <1>6, <2>2, <3>1 DEF Fits, Due
    <2> QED  BY <2>1, <2>2
  <1>12. UserFiles(u)'
    BY <1>1, <1>11 DEF Files, FilesInv, UserFiles, PackageFiles, Quiet
  <1> QED  BY <1>9, <1>10, <1>12, OneUser

LEMMA InitFiles == CommitInit => Files
  <1> SUFFICES ASSUME CommitInit PROVE Files
    OBVIOUS
  <1>1. << 1 >> \in Seq(Nat) /\ Len(<< 1 >>) = 1 /\ << 1 >>[1] = 1 /\ << >> \in Seq(Entries)
    OBVIOUS
  <1>2. FilesTypeOK
    BY <1>1 DEF CommitInit, FilesTypeOK
  <1>3. \A u \in Users, p \in Packages : Fits(u, p)
    BY <1>1 DEF CommitInit, Fits, Due
  <1>4. FilesInv
    BY <1>3 DEF CommitInit, FilesInv, UserFiles, PackageFiles, Quiet
  <1> QED  BY <1>2, <1>4 DEF Files

LEMMA StepFiles == Files /\ ShellTypeOK /\ [CommitNext]_commitVars => Files'
  <1> SUFFICES ASSUME Files, ShellTypeOK, [CommitNext]_commitVars
               PROVE  Files'
    OBVIOUS
  <1>1. CASE UNCHANGED commitVars
    BY <1>1, StillStepFiles DEF commitVars, shell, wcVars, outside, FilesStill
  <1>2. ASSUME NEW u \in Users, NEW p \in Packages, Edit(u, p) \/ Update(u, p)
        PROVE  Files'
    BY <1>2, UpdateFiles, StillStepFiles DEF Edit, shell, outside, FilesStill
  <1>3. ASSUME NEW u \in Users, NEW packages \in SUBSET Packages, Start(u, packages)
        PROVE  Files'
    BY <1>3, StartFiles
  <1>4. ASSUME NEW u \in Users, Preparing(u)
        PROVE  Files'
    BY <1>4, CheckFiles, CheckedFiles, PrepareFiles, PrepareFailsFiles, PreparingFiles
    DEF Preparing
  <1>5. ASSUME NEW u \in Users, Publishing(u)
        PROVE  Files'
    BY <1>5, CommitStageFiles, DilemmaFiles, CommittedFiles, FinishFiles DEF Publishing
  <1>6. ASSUME NEW u \in Users, LockAll(u) \/ UnlockAll(u) \/ Undo(u)
        PROVE  Files'
    BY <1>6, LockAllFiles, UnlockAllFiles, UndoFiles
  <1>7. ASSUME NEW u \in Users, Dies(u) \/ Interrupt(u) \/ Restart(u)
        PROVE  Files'
    BY <1>7, DiesFiles, InterruptFiles, RestartFiles
  <1>8. ASSUME NEW p \in Packages, ReleaseByHand(p)
        PROVE  Files'
    BY <1>8, StillStepFiles DEF ReleaseByHand, shell, wcVars, FilesStill
  <1> QED
    BY <1>1, <1>2, <1>3, <1>4, <1>5, <1>6, <1>7, <1>8 DEF CommitNext

(* CsnFits (Xaction.pm, abort): whatever the locks, faults and dilemmas,   *)
(* a commit that does not come to its end takes back what it wrote, unless *)
(* it leaves the working copy astray.                                      *)
THEOREM CsnFitsHolds == CommitSpec => []CsnFits
  <1>1. Locks => ShellTypeOK
    BY DEF Locks, LocksTypeOK
  <1>2. Files => CsnFits
    BY DEF Files, FilesInv, UserFiles, PackageFiles, Quiet, Fits, Due, CsnFits
  <1> QED
    BY InitFiles, StepFiles, <1>1, <1>2, LocksHold, PTL DEF CommitSpec
=============================================================================
