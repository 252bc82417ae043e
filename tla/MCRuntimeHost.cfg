SPECIFICATION Spec
CONSTANTS
    r1 = r1
    c1 = c1
    c2 = c2
    AnyChannel = AnyChannel
    d1 = d1
    d2 = d2
    sh1 = sh1
    sh2 = sh2
    Versions = {1, 2}
    Channels = {c1, c2}
    Clis = {sh1, sh2}
    MaxCommands = 4
    NoEntry = NoEntry
    Ids = {r1}
    Carries <- MCCarries
    Harness <- MCHarness
    Commands = {"claude"}
    Boots = {d1, d2}
INVARIANTS StatusTruthful BoundByChoice ChosenLoads
PROPERTIES RegistrationKept
CONSTRAINT Short
SYMMETRY Symmetric
CHECK_DEADLOCK FALSE
