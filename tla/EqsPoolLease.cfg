SPECIFICATION Spec
CONSTANTS
    Messages = {m1}
    Queues = {q}
    NoQueue = NoQueue
    Handles = {h1, h2, h3}
    NoHandle = NoHandle
    NoMessage = NoMessage
    Consumers = {c1}
    Sweepers = {s1, s2}
    Writers = {}
    DeadLetterOf <- Alone
    MaxReceiveCount <- AloneReceive
    Delay <- AloneDelay
    Visibilities = {1}
    Timeouts = {}
    BatchSize = 1
    MaxAge = 1
    MaxFaults = 0
    MaxInserts = 1
    q = q
    dlq = dlq
INVARIANT LeaseExclusive
