\* disable_signal does not keep ^C away.
SPECIFICATION CommitSpec
CONSTANTS
    Users = {u1}
    Packages = {p1}
    Nobody = Nobody
    MaxVersions = 2
    MaxFaults = 1
PROPERTIES
    Uninterrupted
