SPECIFICATION Spec
CONSTANTS
  Slots = {s1, s2}
  NoSlot = NoSlot
  MaxOutstanding = 1
  SlotMax = 2
  MaxCmds = 2
  MaxRewrites = 1
  SnapMax = 1
  InOrder = FALSE
  IoMayFail = TRUE
  InitMayFail = TRUE
INVARIANTS TypeOK SlotOwnership OutstandingExact NoStaleCompletion DrainFence RegisteredFd DrainedFrontier
PROPERTIES FencesOpen HandoffEnds AcceptedBecomesDurable
CHECK_DEADLOCK FALSE
