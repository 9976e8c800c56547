SPECIFICATION FairSpec
CONSTANTS
  Cmds = {c1, c2}
  CRC <- OwnKeys
  NumThreads = 1
  Failing = {"fork"}
  MaxRuns = 1
  MaxSetbacks = 1
INVARIANTS ExecInv Fresh
PROPERTY ExecReturns
CHECK_DEADLOCK FALSE
