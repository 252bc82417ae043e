SPECIFICATION Spec
CONSTANTS
    alice = alice
    bob = bob
    m1 = m1
    m2 = m2
    m3 = m3
    syncA = syncA
    syncB1 = syncB1
    syncB2 = syncB2
    clientA = clientA
    clientB = clientB
    Everyone = Everyone
    NoRow = NoRow
    Messages = {m1, m2}
    Nodes <- MCNodes
    From <- MCFrom
    To <- MCTo
    NodeOf <- MCNodeOf
    Syncers = {syncB1, syncB2}
    Clients = {clientA}
    Expirable = {m2}
    PullLimit = 2
    ScanLimit = 2
    InboxCap = 1
    MaxCrashes = 1
    CrashBeforeInbox = FALSE
INVARIANTS HeldBarrier NothingSkipped InOrder ReleasedCopy
CONSTRAINT Short
CHECK_DEADLOCK FALSE
SYMMETRY SyncerSymmetry
