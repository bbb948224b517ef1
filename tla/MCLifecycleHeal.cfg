CONSTANTS
    Parts = {"filing"}
    m1 = m1
    m2 = m2
    m3 = m3
    p1 = p1
    p2 = p2
    Note = {m1, m2, m3}
    Process = {p1}
    Perishable = {m1, m2}
    Contradicts <- Rivals
    Unauthorized = {}
    Hypothesis = {}
    Trusting = FALSE
    Edits = {"clean", "secret"}
SPECIFICATION MCSpec
INVARIANTS
    RetrievedWasPromoted
