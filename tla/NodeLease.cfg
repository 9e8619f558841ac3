SPECIFICATION Spec
CONSTANTS
  Nodes = {n1, n2}
  Slots = {s1}
  None = None
  Lease = 2
  Margin = 1
  Period = 1
  Grace = 1
  Slow = 1
  Skew <- RightClocks
  Depth = 3
  MaxEvents = 1
SYMMETRY Symmetry
INVARIANTS TypeOK StopsOnItsOwn LostOnlyOverdue
