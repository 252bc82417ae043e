SPECIFICATION Spec
CONSTANTS
    Uris = {"chat"}
    Builds = {"", "b"}
    Consumers = {"plain", "strict", "wide"}
    Nodes = {"ana", "bo"}
    Sessions = {"ana1", "bo1", "bo2"}
    Servers = {"boS"}
    NodeOf <- MCNodeOf
    Registry <- MCRegistry
    HandCard <- MCHandCard
    Channels = {"c1"}
    Aliases = {"ana", "bo"}
    Founder <- MCFounder
    IdOf <- MCIdOf
    NameOf <- MCNameOf
    Rank <- MCRank
    Intents <- MCIntents
    MaxMessages = 2
    MaxOps = 2
    MaxFaults = 1
INVARIANTS
    VouchedIsTaken
    CardsStand
    CheckedIsAddressed
CONSTRAINT Short
CHECK_DEADLOCK FALSE
