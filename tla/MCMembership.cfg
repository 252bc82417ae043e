SPECIFICATION Spec
CONSTANTS
    alice = alice
    bob = bob
    session = session
    daemon = daemon
    peer = peer
    lead = lead
    worker = worker
    hub = hub
    relay = relay
    other = other
    demo = demo
    c1 = c1
    i1 = i1
    Nodes = {alice, bob}
    Procs = {session, daemon, peer}
    NodeOf <- MCNodeOf
    Aliases = {lead, worker}
    Homes = {hub, relay, other}
    LocalHomes = {hub}
    Ids = {demo, c1}
    Name = demo
    Tokens = {i1}
    MaxUses = 1
    MaxChannels = 2
    MaxOps = 5
    NoNode = NoNode
    NoHome = NoHome
    NoRow = NoRow
    NoInvite = NoInvite
INVARIANTS MirrorAgrees KeysOpen
PROPERTIES OnlyLeaverLeaves
SYMMETRY MCSymmetry
CHECK_DEADLOCK FALSE
