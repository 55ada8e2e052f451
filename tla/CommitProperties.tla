-------------------------- MODULE CommitProperties --------------------------
(* What the repository locks and the transactions promise for Commit.      *)
EXTENDS Commit

(* The packages a user works on as the one who may commit them.            *)
Holding(u) == IF pc[u] \in Working THEN all[u] ELSE {}

(* SoleCommitter: from the moment lockall has locked all packages until    *)
(* unlockall starts, no other user checks, prepares or commits one of      *)
(* them, whatever answers of the lock server are lost and whoever dies:    *)
(* what check_stage found up to date is so when it is committed            *)
(* (Commit.pm, lockall and unlockall).                                     *)
SoleCommitter ==
    \A u, v \in Users : u # v => Holding(u) \cap Holding(v) = {}

(* LockAccounted: a lock that is set belongs to a commit under way, or the *)
(* user was told that he has to release it, or the answer to the request   *)
(* was lost, or the shell that held it is gone.  No way through commit     *)
(* forgets a lock (Commit.pm, unlockall on every return).                  *)
LockAccounted ==
    \A p \in Packages :
        holder[p] # Nobody =>
            \/ Owns(holder[p], p)
            \/ left[p] # "no"

(* CsnFits: outside of a commit the package file and mytags of a working   *)
(* copy say the CSN of the version it is based on: a commit that does not  *)
(* come to its end takes back what it wrote, unless it stops behind a      *)
(* published package, a command of the log fails or nobody runs the log    *)
(* (Xaction.pm, abort).                                                    *)
CsnFits ==
    \A u \in Users, p \in Packages :
        pc[u] = "idle" /\ p \notin astray[u] =>
            /\ pack[u][p] = archive[p][base[u][p]]
            /\ tags[u][p] = pack[u][p]

(* Uninterrupted: disable_signal keeps ^C away from the commit stage until *)
(* the packages are unlocked (Commit.pm:189).                              *)
Uninterrupted ==
    [][\A u \in Users : pc[u] \in {"commit", "finish"} => pc'[u] # "killed"]_commitVars
=============================================================================
