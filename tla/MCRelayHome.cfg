SPECIFICATION Spec
CONSTANTS
    alice = alice
    bob = bob
    lead = lead
    worker = worker
    m1 = m1
    m2 = m2
    m3 = m3
    i1 = i1
    Messages = {m1, m2, m3}
    Nodes <- MCPair
    Aliases = {lead, worker}
    Founder = alice
    FounderAlias = lead
    Modes = {"auto", "intercept", "paused"}
    Visibilities = {"public"}
    Sender <- MCSender
    Target <- MCTarget
    ViaGateway = {m3}
    Everyone = Everyone
    NoAlias = NoAlias
    Invites = {i1}
    MaxUses = 1
    MaxBeforeReply = 1
    PullLimit = 2
    MaxSeq = 3
    MaxFaults = 2
INVARIANTS IcebreakHolds InboxOnce RelayNothingSkipped
PROPERTIES UnreadRetained
CONSTRAINT Short
CHECK_DEADLOCK FALSE
