SPECIFICATION CollaborationFairSpec
CONSTANTS
    boss = boss
    ann = ann
    bot = bot
    team = team
    line = line
    t1 = t1
    t2 = t2
    Manager = boss
    Workers = {ann, bot}
    TeamContexts = {team}
    CallContexts = {line}
    Tasks = {t1, t2}
    Prompt = {bot}
    MaxAsks = 2
    MaxNotices = 1
    NoWorker = NoWorker
INVARIANTS ApprovedWasDone EndsAgree CancelledUnanswered
PROPERTIES AskedEnds
CHECK_DEADLOCK FALSE
