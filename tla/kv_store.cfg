SPECIFICATION Spec
CONSTANTS
    d1 = d1
    d2 = d2
    s3 = s3
    None = None
    Device = {d1, d2}
    Key = {k1}
    Value = {u, v}
    Thread = {s1, s2, s3}
    OwnerOf <- MCOwner
    Skew <- MCSkew
    Tombstones = {d1}
    MaxTime = 2
    MaxVersion <- MCVersions
    MaxRemote = 2
    MaxSyncs = 2
SYMMETRY Symmetric
INVARIANTS
    TypeOK
    RecordedIsRemote
    RunningIsASync
PROPERTIES
    KeepsNewer
CHECK_DEADLOCK FALSE
