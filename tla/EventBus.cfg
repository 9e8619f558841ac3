SPECIFICATION FairSpec
CONSTANTS
  Events = {e1}
  Instances = {p1, p2}
  Consumers = {c1, c2}
  Operators = {o1}
  MaxAttempts = 2
  Visibility = 2
  MaxLag = 1
  BatchSize = 2
  MaxFaults = 2
  None = None
INVARIANTS
  TypeOK
  NothingLost
  LeaseExclusive
  BucketObeyed
PROPERTIES PendingEnds IsMailbox
