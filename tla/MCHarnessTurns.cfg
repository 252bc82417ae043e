SPECIFICATION TurnsFairSpec
CONSTANTS
    c1 = c1
    c2 = c2
    e1 = e1
    e2 = e2
    e3 = e3
    Inbox <- MCInbox
    NoEvent = NoEvent
    MaxExits = 1
    MaxRefusals = 1
    MaxQuestions = 1
INVARIANTS OutcomeFits
PROPERTIES AcceptedAnswered EventsTaken
CHECK_DEADLOCK FALSE
