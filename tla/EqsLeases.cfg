SPECIFICATION FairSpec
CONSTANTS
    Messages = {m1}
    Queues = {q}
    NoQueue = NoQueue
    Handles = {h1, h2, h3}
    NoHandle = NoHandle
    NoMessage = NoMessage
    Consumers = {c1, c2}
    Sweepers = {s1}
    Writers = {}
    DeadLetterOf <- Alone
    MaxReceiveCount <- AloneReceive
    Delay <- AloneDelay
    Visibilities = {2}
    Timeouts = {}
    BatchSize = 1
    MaxAge = 2
    MaxFaults = 1
    MaxInserts = 2
    q = q
    dlq = dlq
INVARIANTS LeaseExclusive DeletedStaysDeleted
PROPERTIES LeaseEnds DelayEnds
