CONSTANTS
    NoInode = NoInode
    NoContent = NoContent
    NoPath = NoPath
    Unknown = Unknown
    Path = {p1}
    Inode = {i1, i2, i3, i4}
    Content = {c1, c2}
    CanLink = FALSE
    MaxAside = 1
SPECIFICATION Spec
INVARIANTS
    MissesOnlyWhatWasLost
PROPERTIES
    RollbackLeavesOthersAlone
