SPECIFICATION Spec
CONSTANTS
    c1 = c1
    c2 = c2
    c3 = c3
    m1 = m1
    m2 = m2
    i = i
    j = j
    h = h
    NoPath = NoPath
    None = None
    Paths = 3
    Path <- MCPath
    Content = {c1, c2, c3}
    DeclaredId <- MCDeclaredId
    LinksOf <- MCLinksOf
    Title <- MCTitle
    Safe = {c1, c3}
    Stem <- MCStem
    PathOf <- MCPathOf
    Qualified <- MCQualified
    Digest <- MCDigest
    Meta = {m1, m2}
    MaxChanges = 2
INVARIANTS RowsConsistent IndexExact
PROPERTIES IdentityStays
SYMMETRY Interchangeable
