SPECIFICATION FairSpec
CONSTANTS
  Tasks = {t1, t2}
  None = None
  Interval = 2
  Grace = 1
  MaxFirings = 2
INVARIANTS TypeOK StopIsBarrier CancelledStaysQuiet NoOversleep
PROPERTY StopEnds
