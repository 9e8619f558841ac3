SPECIFICATION FairSpec
CONSTANTS
    Threads = {t1, t2}
    Messages = {m1}
    NoMessage = NoMessage
    Tiers = 2
    Tier <- FirstTier
    Passes = 2
    MaxGeneration = 3
INVARIANTS TypeOK NoLostWakeup ThreadLeft
PROPERTY PollEnds
