SPECIFICATION FairSpec
CONSTANTS
    e1 = e1
    c1 = c1
    c2 = c2
    a1 = a1
    a2 = a2
    h1 = h1
    Events = {e1}
    Calls = {c1, c2}
    Authorizations = {a1, a2}
    Holds = {h1}
    MaxFaults = 1
INVARIANTS ParkedKept TerminalLast
PROPERTIES ApprovedResumes HoldsShown
CHECK_DEADLOCK FALSE
