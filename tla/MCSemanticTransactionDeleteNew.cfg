CONSTANTS
    NoInode = NoInode
    NoContent = NoContent
    NoPath = NoPath
    Unknown = Unknown
    Path = {p1}
    Inode = {i1, i2, i3}
    Content = {c1}
    CanLink = TRUE
    MaxAside = 9
SPECIFICATION Spec
INVARIANTS
    DeletesOnlyFilesCreatedSince
