SPECIFICATION MCSpec
CONSTANTS
    Parts = {"inventory"}
    m1 = m1
    m2 = m2
    p1 = p1
    p2 = p2
    s1 = s1
    s2 = s2
    e1 = e1
    e2 = e2
    None = None
    Memory = {m1, m2}
    Session = {s1}
    Epoch = {e1, e2}
    Source = {1, 2}
    Layer = {1}
    Process = {p1, p2}
    MaxReceipts = 2
    MaxEdits = 1
INVARIANT AcknowledgedIsKept
SYMMETRY Interchangeable
