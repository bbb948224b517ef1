SPECIFICATION Spec
CONSTANTS
    s1 = s1
    s2 = s2
    c1 = c1
    c2 = c2
    p1 = p1
    p2 = p2
    Absent = Absent
    Subject = {s1, s2}
    Content = {c1, c2}
    Identity <- Identities
    Citation <- Citations
    Foreign <- Forgeries
    Process = {p1, p2}
    MaxChanges = 3
INVARIANTS EpisodesAreSound RowsTellTheTruth ProofIsGenuine RefusedForCause
SYMMETRY Symmetric
