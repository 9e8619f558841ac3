SPECIFICATION FairSpec
CONSTANTS
  Messages = {m1}
  Queues = {queue, dead}
  Addressed = {queue}
  DeadLetterOf <- WithDlq
  Instances = {i1, i2}
  None = None
  MaxOps = 2
  MaxFaults = 1
  queue = queue
  dead = dead
INVARIANTS TypeOK Conserved
PROPERTY CountersSettle
