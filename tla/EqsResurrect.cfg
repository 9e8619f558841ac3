SPECIFICATION Spec
CONSTANTS
    Messages = {m1}
    Queues = {q}
    NoQueue = NoQueue
    Handles = {h1}
    NoHandle = NoHandle
    NoMessage = NoMessage
    Consumers = {c1}
    Sweepers = {}
    Writers = {w1}
    DeadLetterOf <- Alone
    MaxReceiveCount <- AloneReceive
    Delay <- AloneDelay
    Visibilities = {1}
    Timeouts = {1}
    BatchSize = 1
    MaxAge = 1
    MaxFaults = 0
    MaxInserts = 2
    q = q
    dlq = dlq
INVARIANT DeletedStaysDeleted
