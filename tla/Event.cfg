SPECIFICATION FairSpec
CONSTANTS
  Fds = {d, e, f}
  MaxChanges = 5
INVARIANT EventInv
PROPERTIES CalledWhenReady ReadyServed
CHECK_DEADLOCK FALSE
