CONSTANTS
    Parts = {"filing", "gate", "merge"}
    m1 = m1
    m2 = m2
    m3 = m3
    p1 = p1
    p2 = p2
    Note = {m1, m2, m3}
    Process = {p1, p2}
    Perishable = {m1}
    Contradicts <- Rivals
    Unauthorized = {m3}
    Hypothesis = {m2}
    Trusting = TRUE
    Edits = {"secret"}
SPECIFICATION MCSpec
SYMMETRY Interchangeable
VIEW WithoutReview
INVARIANTS
    OnlyAdmitted
    ActiveIsFiled
PROPERTIES
    RetiredStaysRetired
    ConflictOnlyLeftSo
    RetractedIsGone
    ForgottenStaysForgotten
    ReplacedBySomething
