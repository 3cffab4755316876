SPECIFICATION Spec
CONSTANTS
  Slots = {s1, s2, s3}
  NoSlot = NoSlot
  MaxOutstanding = 2
  SlotMax = 2
  MaxCmds = 3
  MaxRewrites = 0
  SnapMax = 1
  InOrder = FALSE
  IoMayFail = FALSE
  InitMayFail = FALSE
SYMMETRY SlotSymmetry
INVARIANTS OriginalOrder
