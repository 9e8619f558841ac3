SPECIFICATION Spec
CONSTANTS
    Messages = {m1, m2}
    Queues = {q, dlq}
    NoQueue = NoQueue
    Handles = {h1, h2}
    NoHandle = NoHandle
    NoMessage = NoMessage
    Consumers = {c1}
    Sweepers = {s1}
    Writers = {w1}
    DeadLetterOf <- WithDlq
    MaxReceiveCount <- OneReceive
    Delay <- NoDelay
    Visibilities = {0}
    Timeouts = {0}
    BatchSize = 2
    MaxAge = 0
    MaxFaults = 0
    MaxInserts = 2
    q = q
    dlq = dlq
SYMMETRY Symmetry
VIEW WithoutHistory
INVARIANTS TypeOK HandleNamesOneMessage HandleExactlyInFlight OriginOnlyInDeadLetter
