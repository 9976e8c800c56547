SPECIFICATION FairSpec
CONSTANTS
  Procs = {p1, p2, p3, p4}
  Foreground = {p4}
INVARIANT PidHolds
PROPERTIES LockSpec StartReturns
