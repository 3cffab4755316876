SPECIFICATION SnapSpec
CONSTANTS
  SnapKeys = {k1, k2}
  SnapDeleted = {k1}
  MaxSnapCmds = 3
  MaxSnapWork = 5
  BigDump = FALSE
INVARIANT DumpPlusAofComplete
