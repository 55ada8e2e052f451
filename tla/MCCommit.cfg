\* Two users commit two packages, one fault.
SPECIFICATION CommitSpec
CONSTANTS
    Users = {u1, u2}
    Packages = {p1, p2}
    Nobody = Nobody
    MaxVersions = 2
    MaxFaults = 1
SYMMETRY Symmetric
INVARIANTS
    SoleCommitter
    LockAccounted
    CsnFits
