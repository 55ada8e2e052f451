------------------------------ MODULE MCCommit ------------------------------
(* Two users and two packages.                                             *)
EXTENDS CommitProperties, TLC

Symmetric == Permutations(Users) \cup Permutations(Packages)
=============================================================================
