------------------------------- MODULE Commit -------------------------------
(***************************************************************************)
(* The commit of several packages by several users (Asim::Package::commit, *)
(* libperl/Asim/lib/Asim/Package/Commit.pm) under the repository locks     *)
(* (Asim::Lock) and with the file transactions (Asim::Xaction).            *)
(*                                                                         *)
(* Every user works in a shell of his own.  The lock server answers over   *)
(* the net: a request or its answer may be lost, and the client cannot     *)
(* tell which.  A shell may be interrupted, or die of a command that fails.*)
(*                                                                         *)
(* A package is its files under version control, taken together, and two   *)
(* files that the commit itself writes: the package file with the serial   *)
(* number (CSN), and admin/mytags with the history of these numbers.       *)
(***************************************************************************)
EXTENDS Naturals, Sequences

CONSTANTS Users, Packages,
          Nobody,         \* the holder of a free lock
          MaxVersions,    \* bound: versions of a package
          MaxFaults       \* bound: lost messages, interrupts and failed commands

ASSUME NobodyAssumption == Nobody \notin Users

VARIABLES
    holder,    \* lock server: whose lock is set on the package
    archive,   \* version control: the CSNs of the versions of the package
    base,      \* working copy of a user: the version it was last updated to
    dirty,     \* ... whether the user has changed files in it
    pack,      \* ... CSN in its package file
    tags,      \* ... last CSN in its mytags
    pc,        \* where the shell of a user is in commit
    all,       \* @all: the packages to commit
    todo,      \* those the loop over @all has still to visit
    needed,    \* those with the status "Commit-needed"
    stop,      \* $stop_commit
    log,       \* @abort_log: the files to restore, latest first
    keep,      \* the packages with keep_lock
    handler,   \* whether accept_signal is installed
    left,      \* history: why a lock stayed set behind a commit
    astray,    \* history: working copies that do not fit their version
    faults     \* count of what went wrong

wcVars   == << base, dirty, pack, tags >>
shell    == << pc, all, todo, needed, stop, log, keep, handler >>
outside  == << left, astray, faults >>
commitVars == << holder, archive, wcVars, shell, outside >>

(* A fault happens at most MaxFaults times.                                *)
Fault == faults < MaxFaults /\ faults' = faults + 1

Stages == {"idle", "lock", "check", "prepare", "confirm", "commit", "finish",
           "unlock", "abort", "killed", "died"}

Goto(u, stage) == pc' = [pc EXCEPT ![u] = stage]
Loop(u, stage, packages) ==
    Goto(u, stage) /\ todo' = [todo EXCEPT ![u] = packages]
Visited(u, p)  == todo' = [todo EXCEPT ![u] = @ \ {p}]

(* A loop over the packages in the given stage that is done.               *)
LoopEnds(u, stage) == pc[u] = stage /\ todo[u] = {}
(* ... and one that visits p.                                              *)
Visits(u, p, stage) == pc[u] = stage /\ p \in todo[u]

CommitInit ==
    /\ holder = [p \in Packages |-> Nobody]
    /\ archive = [p \in Packages |-> << 1 >>]
    /\ base = [u \in Users |-> [p \in Packages |-> 1]]
    /\ dirty = [u \in Users |-> {}]
    /\ pack = [u \in Users |-> [p \in Packages |-> 1]]
    /\ tags = [u \in Users |-> [p \in Packages |-> 1]]
    /\ pc = [u \in Users |-> "idle"]
    /\ all = [u \in Users |-> {}]
    /\ todo = [u \in Users |-> {}]
    /\ needed = [u \in Users |-> {}]
    /\ stop = [u \in Users |-> FALSE]
    /\ log = [u \in Users |-> << >>]
    /\ keep = [u \in Users |-> {}]
    /\ handler = [u \in Users |-> FALSE]
    /\ left = [p \in Packages |-> "no"]
    /\ astray = [u \in Users |-> {}]
    /\ faults = 0

-----------------------------------------------------------------------------
(* Between commits the user edits files and updates to the latest version; *)
(* files that do not fit it he repairs on the way.                         *)
Edit(u, p) ==
    /\ pc[u] = "idle" /\ p \notin dirty[u]
    /\ Len(archive[p]) < MaxVersions
    /\ dirty' = [dirty EXCEPT ![u] = @ \cup {p}]
    /\ UNCHANGED << holder, archive, base, pack, tags, shell, outside >>

Update(u, p) ==
    /\ pc[u] = "idle"
    /\ base[u][p] # Len(archive[p]) \/ p \in astray[u]
    /\ base' = [base EXCEPT ![u][p] = Len(archive[p])]
    /\ pack' = [pack EXCEPT ![u][p] = archive[p][Len(archive[p])]]
    /\ tags' = [tags EXCEPT ![u][p] = archive[p][Len(archive[p])]]
    /\ astray' = [astray EXCEPT ![u] = @ \ {p}]
    /\ UNCHANGED << holder, archive, dirty, shell, left, faults >>

-----------------------------------------------------------------------------
(* The shell is back at its prompt; nothing is left of the call.           *)
Returns(u) ==
    /\ Loop(u, "idle", {})
    /\ all' = [all EXCEPT ![u] = {}]
    /\ needed' = [needed EXCEPT ![u] = {}]
    /\ stop' = [stop EXCEPT ![u] = FALSE]

(* commit.  The sanity checks pass; @all are the package and the private   *)
(* ones it depends on.                                                     *)
Start(u, packages) ==
    /\ pc[u] = "idle" /\ packages # {}
    /\ \A p \in packages : Len(archive[p]) < MaxVersions \/ p \notin dirty[u] \cup astray[u]
    /\ all' = [all EXCEPT ![u] = packages]
    /\ Loop(u, "lock", packages)
    /\ UNCHANGED << holder, archive, wcVars, needed, stop, log, keep, handler, outside >>

(* lockall.                                                                *)
Granted(u, p) ==
    /\ Visits(u, p, "lock") /\ holder[p] = Nobody
    /\ holder' = [holder EXCEPT ![p] = u]
    /\ left' = [left EXCEPT ![p] = "no"]
    /\ Visited(u, p)
    /\ UNCHANGED << archive, wcVars, pc, all, needed, stop, log, keep, handler, astray,
                    faults >>

(* The packages lockall has locked so far: @done.                          *)
Done(u) == all[u] \ todo[u]

GiveUpAll(u) == Loop(u, "unlock", all[u])   \* faulty variant: unlockall(@all)

GiveUp(u) == Loop(u, "unlock", Done(u))

Refused(u, p) ==
    /\ Visits(u, p, "lock") /\ holder[p] # Nobody
    /\ GiveUp(u)
    /\ UNCHANGED << holder, archive, wcVars, all, needed, stop, log, keep, handler,
                    outside >>

RequestLost(u, p) ==
    /\ Visits(u, p, "lock") /\ Fault
    /\ GiveUp(u)
    /\ UNCHANGED << holder, archive, wcVars, all, needed, stop, log, keep, handler,
                    left, astray >>

(* The server sets the lock and its answer is lost: for the client the     *)
(* request has failed.                                                     *)
AnswerLost(u, p) ==
    /\ Visits(u, p, "lock") /\ holder[p] = Nobody /\ Fault
    /\ holder' = [holder EXCEPT ![p] = u]
    /\ left' = [left EXCEPT ![p] = "answer lost"]
    /\ GiveUp(u)
    /\ UNCHANGED << archive, wcVars, all, needed, stop, log, keep, handler, astray >>

Locked(u) ==
    /\ LoopEnds(u, "lock")
    /\ Loop(u, "check", all[u])
    /\ UNCHANGED << holder, archive, wcVars, all, needed, stop, log, keep, handler,
                    outside >>

-----------------------------------------------------------------------------
(* check_stage: cvs tells which files are changed or out of date, or fails.*)
Check(u, p) ==
    /\ Visits(u, p, "check")
    /\ Visited(u, p)
    /\ needed' = [needed EXCEPT ![u] = IF p \in dirty[u] \/ p \in astray[u]
                                       THEN @ \cup {p} ELSE @ \ {p}]
    /\ stop' = [stop EXCEPT ![u] = @ \/ base[u][p] # Len(archive[p])]
    /\ UNCHANGED << holder, archive, wcVars, pc, all, log, keep, handler, outside >>

(* Every package is looked at before commit stops.                         *)
Checked(u) ==
    /\ LoopEnds(u, "check")
    /\ Loop(u, IF stop[u] THEN "unlock" ELSE "prepare", all[u])
    /\ UNCHANGED << holder, archive, wcVars, all, needed, stop, log, keep, handler,
                    outside >>

(* unlockall(@all), on every way out.                                      *)
ReleaseRest(u) ==   \* faulty variant: called as a function, shift takes one
    \E p \in all[u] : Loop(u, "unlock", all[u] \ {p})

ReleaseAll(u) == Loop(u, "unlock", all[u])

(* prepare_stage of a package that has something to commit: update_csns    *)
(* protects the package file and mytags and appends the new CSN to mytags. *)
(* It fails before that when the regression results are not accepted, in   *)
(* between when mytags is missing, and behind it when the changes file is  *)
(* not edited.                                                             *)
NewCsn(u, p) == pack[u][p] + 1

ProtectedLate(u, p) ==   \* faulty variant: the backup is made of the new file
    << [file |-> "tags", package |-> p, csn |-> NewCsn(u, p)],
       [file |-> "pack", package |-> p, csn |-> pack[u][p]] >>

Protected(u, p) ==
    << [file |-> "tags", package |-> p, csn |-> tags[u][p]],
       [file |-> "pack", package |-> p, csn |-> pack[u][p]] >>

UpdateCsns(u, p) ==
    /\ log' = [log EXCEPT ![u] = Protected(u, p) \o @]
    /\ tags' = [tags EXCEPT ![u][p] = NewCsn(u, p)]

Prepare(u, p) ==
    /\ Visits(u, p, "prepare")
    /\ Visited(u, p)
    /\ IF p \in needed[u] THEN UpdateCsns(u, p) ELSE UNCHANGED << log, tags >>
    /\ UNCHANGED << holder, archive, base, dirty, pack, pc, all, needed, stop, keep,
                    handler, outside >>

PrepareFails(u, p) ==
    /\ Visits(u, p, "prepare") /\ p \in needed[u]
    /\ \/ UNCHANGED << log, tags >>
       \/ log' = [log EXCEPT ![u] = Protected(u, p) \o @] /\ UNCHANGED tags
       \/ UpdateCsns(u, p)
    /\ ReleaseAll(u)
    /\ UNCHANGED << holder, archive, base, dirty, pack, all, needed, stop, keep,
                    handler, outside >>

Prepared(u) ==
    /\ LoopEnds(u, "prepare")
    /\ Goto(u, "confirm")
    /\ UNCHANGED << holder, archive, wcVars, all, todo, needed, stop, log, keep, handler,
                    outside >>

(* "Do you really want to proceed and commit"                              *)
Confirm(u) ==
    /\ pc[u] = "confirm"
    /\ \E answer \in {"commit", "unlock"} : Loop(u, answer, all[u])
    /\ UNCHANGED << holder, archive, wcVars, all, needed, stop, log, keep, handler,
                    outside >>

-----------------------------------------------------------------------------
(* commit_stage: save writes the package file, cvs commits and tags.       *)
Save(u, p) == pack' = [pack EXCEPT ![u][p] = NewCsn(u, p)]

Publish(u, p) ==
    /\ archive' = [archive EXCEPT ![p] = Append(@, NewCsn(u, p))]
    /\ base' = [base EXCEPT ![u][p] = Len(archive[p]) + 1]
    /\ dirty' = [dirty EXCEPT ![u] = @ \ {p}]

CommitStage(u, p) ==
    /\ Visits(u, p, "commit")
    /\ Visited(u, p)
    /\ IF p \in needed[u]
       THEN Save(u, p) /\ Publish(u, p)
       ELSE UNCHANGED << archive, base, dirty, pack >>
    /\ UNCHANGED << holder, tags, pc, all, needed, stop, log, keep, handler, outside >>

(* A command that still fails when it was tried again is a dilemma, and    *)
(* the user may abort: before the package is committed, or between the     *)
(* commit and its tag.  What the transaction restores then no longer fits  *)
(* the packages that were committed.                                       *)
DilemmaAborted(u, p) ==
    /\ Visits(u, p, "commit") /\ p \in needed[u] /\ Fault
    /\ Save(u, p)
    /\ \E published \in BOOLEAN :
          /\ IF published THEN Publish(u, p) ELSE UNCHANGED << archive, base, dirty >>
          /\ astray' = [astray EXCEPT ![u] =
                            @ \cup ((needed[u] \ todo[u])
                                    \cup (IF published THEN {p} ELSE {}))]
    /\ keep' = [keep EXCEPT ![u] = {p}]
    /\ ReleaseAll(u)
    /\ handler' = [handler EXCEPT ![u] = TRUE]
    /\ UNCHANGED << holder, tags, all, needed, stop, log, left >>

Committed(u) ==
    /\ LoopEnds(u, "commit")
    /\ Goto(u, "finish")
    /\ UNCHANGED << holder, archive, wcVars, all, todo, needed, stop, log, keep, handler,
                    outside >>

(* Xaction::commit drops the backups.                                      *)
Finish(u) ==
    /\ pc[u] = "finish"
    /\ log' = [log EXCEPT ![u] = << >>]
    /\ ReleaseAll(u)
    /\ handler' = [handler EXCEPT ![u] = TRUE]
    /\ UNCHANGED << holder, archive, wcVars, all, needed, stop, keep, outside >>

-----------------------------------------------------------------------------
(* unlockall.                                                              *)
Release(u, p) ==
    /\ Visits(u, p, "unlock") /\ p \notin keep[u]
    /\ holder' = [holder EXCEPT ![p] = Nobody]
    /\ Visited(u, p)
    /\ UNCHANGED << archive, wcVars, pc, all, needed, stop, log, keep, handler, outside >>

(* The user is told that the lock stays set, and that he has to release it.*)
Told(u, p) ==
    /\ left' = [left EXCEPT ![p] = "told"]
    /\ Visited(u, p)

KeepLock(u, p) ==
    /\ Visits(u, p, "unlock") /\ p \in keep[u]
    /\ Told(u, p)
    /\ keep' = [keep EXCEPT ![u] = @ \ {p}]
    /\ UNCHANGED << holder, archive, wcVars, pc, all, needed, stop, log, handler, astray,
                    faults >>

ReleaseFails(u, p) ==
    /\ Visits(u, p, "unlock") /\ p \notin keep[u] /\ Fault
    /\ holder' \in {holder, [holder EXCEPT ![p] = Nobody]}
    /\ Told(u, p)
    /\ UNCHANGED << archive, wcVars, pc, all, needed, stop, log, keep, handler, astray >>

Unlocked(u) ==
    /\ LoopEnds(u, "unlock")
    /\ IF log[u] = << >> THEN Returns(u)
       ELSE Goto(u, "abort") /\ UNCHANGED << all, todo, needed, stop >>
    /\ UNCHANGED << holder, archive, wcVars, log, keep, handler, outside >>

(* Xaction::abort runs the log, one command after the other.               *)
Restored(file, name, entry, u) ==
    IF entry.file = name THEN [file EXCEPT ![u][entry.package] = entry.csn] ELSE file

Undo(u) ==
    /\ pc[u] = "abort"
    /\ LET entry == Head(log[u])
       IN  /\ pack' = Restored(pack, "pack", entry, u)
           /\ tags' = Restored(tags, "tags", entry, u)
    /\ log' = [log EXCEPT ![u] = Tail(@)]
    /\ IF Len(log[u]) = 1 THEN Returns(u) ELSE UNCHANGED << pc, all, todo, needed, stop >>
    /\ UNCHANGED << holder, archive, base, dirty, keep, handler, outside >>

-----------------------------------------------------------------------------
(* The locks of a commit under way: those lockall was granted, until       *)
(* unlockall comes to them.                                                *)
Working == {"check", "prepare", "confirm", "commit", "finish"}

Owns(u, p) ==
    /\ p \in all[u]
    /\ \/ pc[u] = "lock" /\ p \notin todo[u]
       \/ pc[u] = "unlock" /\ p \in todo[u]
       \/ pc[u] \in Working

(* The shell ends, and what it had locked stays locked.                    *)
Ends(u, how) ==
    /\ Loop(u, how, {})
    /\ left' = [p \in Packages |-> IF Owns(u, p) THEN "gone" ELSE left[p]]
    /\ keep' = [keep EXCEPT ![u] = {}]
    /\ log' = [log EXCEPT ![u] = << >>]
    /\ handler' = [handler EXCEPT ![u] = FALSE]

(* The packages with a file the log would still restore.                   *)
Logged(u) == {log[u][i].package : i \in 1..Len(log[u])}

(* A command of the commit or abort log fails: die.                        *)
Dies(u) ==
    /\ pc[u] \in {"finish", "abort"} /\ log[u] # << >> /\ Fault
    /\ Ends(u, "died")
    /\ astray' = [astray EXCEPT ![u] =
                     IF pc[u] = "abort" THEN @ \cup Logged(u) ELSE @]
    /\ UNCHANGED << holder, archive, wcVars, all, needed, stop >>

(* ^C.  disable_signal sets an entry of %SIGN instead of %SIG, so that it  *)
(* changes nothing; accept_signal, which an earlier commit of the shell    *)
(* has installed, runs the abort log first.                                *)
RestoredAll(file, name, u) ==
    [file EXCEPT ![u] = [p \in Packages |->
        IF \E i \in 1..Len(log[u]) : log[u][i].file = name /\ log[u][i].package = p
        THEN log[u][CHOOSE i \in 1..Len(log[u]) :
                       log[u][i].file = name /\ log[u][i].package = p].csn
        ELSE @[p]]]

Interrupt(u) ==
    /\ pc[u] \notin {"idle", "killed", "died"} /\ Fault
    /\ Ends(u, "killed")
    /\ IF handler[u]
       THEN /\ pack' = RestoredAll(pack, "pack", u)
            /\ tags' = RestoredAll(tags, "tags", u)
            /\ astray' = [astray EXCEPT ![u] =
                  @ \cup (IF pc[u] \in {"commit", "finish"} THEN needed[u] \ todo[u] ELSE {})]
       ELSE /\ astray' = [astray EXCEPT ![u] = @ \cup Logged(u)]
            /\ UNCHANGED << pack, tags >>
    /\ UNCHANGED << holder, archive, base, dirty, all, needed, stop >>

(* The user starts a new shell.                                            *)
Restart(u) ==
    /\ pc[u] \in {"killed", "died"}
    /\ Returns(u)
    /\ UNCHANGED << holder, archive, wcVars, log, keep, handler, outside >>

(* A lock that no commit under way holds is released by hand.              *)
ReleaseByHand(p) ==
    /\ holder[p] # Nobody
    /\ \A u \in Users : ~Owns(u, p)
    /\ holder' = [holder EXCEPT ![p] = Nobody]
    /\ left' = [left EXCEPT ![p] = "no"]
    /\ UNCHANGED << archive, wcVars, shell, astray, faults >>

LockAll(u)   == \/ \E p \in Packages : \/ Granted(u, p)
                                       \/ Refused(u, p)
                                       \/ RequestLost(u, p)
                                       \/ AnswerLost(u, p)
                \/ Locked(u)
UnlockAll(u) == \/ \E p \in Packages : \/ Release(u, p)
                                       \/ KeepLock(u, p)
                                       \/ ReleaseFails(u, p)
                \/ Unlocked(u)
Publishing(u) == \/ \E p \in Packages : CommitStage(u, p) \/ DilemmaAborted(u, p)
                 \/ Committed(u)
                 \/ Finish(u)
Preparing(u) == \/ \E p \in Packages : \/ Check(u, p)
                                       \/ Prepare(u, p)
                                       \/ PrepareFails(u, p)
                \/ Checked(u)
                \/ Prepared(u)
                \/ Confirm(u)

CommitNext ==
    \/ \E u \in Users :
          \/ \E p \in Packages : Edit(u, p) \/ Update(u, p)
          \/ \E packages \in SUBSET Packages : Start(u, packages)
          \/ LockAll(u)
          \/ Preparing(u)
          \/ Publishing(u)
          \/ UnlockAll(u)
          \/ Undo(u)
          \/ Dies(u)
          \/ Interrupt(u)
          \/ Restart(u)
    \/ \E p \in Packages : ReleaseByHand(p)

CommitSpec == CommitInit /\ [][CommitNext]_commitVars
=============================================================================
