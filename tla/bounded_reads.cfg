SPECIFICATION FairSpec
CONSTANTS
  Read = {r1, r2}
  MaxReads = 1
  MaxBytes = 1
  MaxSize = 2
INVARIANTS RunningBounded OnlyInside WholeWithinBudget
PROPERTIES AnsweredInTime SlotReturned
