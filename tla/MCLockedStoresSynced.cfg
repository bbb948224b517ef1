SPECIFICATION MCSpec
CONSTANTS
    Parts = {"telemetry"}
    t1 = t1
    t2 = t2
    t3 = t3
    p1 = p1
    p2 = p2
    NoThread = NoThread
    Thread <- MCThread
    Process <- MCProcess
    ProcessOf <- MCProcessOf
    MaxNests = 2
    a1 = a1
    a2 = a2
    None = None
    Agent = {a1, a2}
    Ttl <- Ttls
    Minute = 3
    MaxTime = 12
    Nameless = FALSE
    c1 = c1
    c2 = c2
    useful = useful
    Unknown = Unknown
    Machine = {1, 2}
    Client = {c1, c2}
    Home <- TwoHomes
    Outcome <- Outcomes
    Feedback = {useful}
    Syncs = TRUE
    MaxCopies = 3
INVARIANTS ImportedOnce
