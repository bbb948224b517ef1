SPECIFICATION MCSpec
CONSTANTS
    Parts = {"truth"}
    l1 = l1
    l2 = l2
    m1 = m1
    m2 = m2
    d1 = d1
    a1 = a1
    NoDigest = NoDigest
    Anything = Anything
    Memory = {m1, m2}
    Pathname = {"path"}
    Digest = {d1}
    Agent = {a1}
    OpId = {1, 2, 3}
    MaxNumber = 3
    Time = {1}
    Episode <- Episodes
    Learner = {l1, l2}
    Evidence = {1, 2, 3, 4, 5}
    Here = "here"
    Elsewhere = {5}
    Evaluation = {4}
    Normal <- Lower
    Unsafe <- Objectionable
    Threshold = 2
    Fragile = {4}
    NoNote = NoNote
SYMMETRY Interchangeable
PROPERTIES
    NoMisleadingRecord
