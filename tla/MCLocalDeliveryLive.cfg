SPECIFICATION FairSpec
CONSTANTS
    alice = alice
    bob = bob
    m1 = m1
    m2 = m2
    m3 = m3
    syncA = syncA
    syncB1 = syncB1
    syncB2 = syncB2
    clientA = clientA
    clientB = clientB
    Everyone = Everyone
    NoRow = NoRow
    Messages = {m2, m3}
    Nodes <- MCNodes
    From <- MCFrom
    To <- MCTo
    NodeOf <- MCNodeOf
    Syncers = {syncB1}
    Clients = {clientA, clientB}
    Expirable = {}
    PullLimit = 1
    ScanLimit = 2
    InboxCap = 1
    MaxCrashes = 0
    CrashBeforeInbox = FALSE
PROPERTIES ReleasedArrives MailboxPromise
CHECK_DEADLOCK FALSE
