SPECIFICATION Spec
CONSTANTS
    Messages = {m1}
    Queues = {q, dlq}
    NoQueue = NoQueue
    Handles = {h1, h2, h3}
    NoHandle = NoHandle
    NoMessage = NoMessage
    Consumers = {c1, c2}
    Sweepers = {s1, s2}
    Writers = {}
    DeadLetterOf <- WithDlq
    MaxReceiveCount <- OneReceive
    Delay <- NoDelay
    Visibilities = {0, 1}
    Timeouts = {}
    BatchSize = 1
    MaxAge = 1
    MaxFaults = 0
    MaxInserts = 1
    q = q
    dlq = dlq
SYMMETRY Symmetry
VIEW WithoutLeaseAge
INVARIANTS DeliveriesBounded ToldIsEnforced
