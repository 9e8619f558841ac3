SPECIFICATION Spec
CONSTANTS
  Nodes = {n1, n2}
  Slots = {s1}
  None = None
  Lease = 2
  Margin = 3
  Period = 1
  Grace = 1
  Slow = 1
  Skew <- RightClocks
  Depth = 4
  MaxEvents = 0
SYMMETRY Symmetry
INVARIANT SlotExclusive
