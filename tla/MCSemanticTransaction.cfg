CONSTANTS
    NoInode = NoInode
    NoContent = NoContent
    NoPath = NoPath
    Unknown = Unknown
    Path = {p1, p2}
    Inode = {i1, i2, i3, i4}
    Content = {c1, c2}
    CanLink = TRUE
    MaxAside = 9
SPECIFICATION Spec
SYMMETRY Interchangeable
VIEW Reachable
INVARIANTS
    BeforeStateRecoverable
    RollbackExact
    NoPartialTransaction
    ReconcileExact
    DeletesOnlyNewFiles
PROPERTIES Atomic
