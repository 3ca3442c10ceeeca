CONSTANTS
  t1 = t1
  t2 = t2
  t3 = t3
  Thread <- Threads
  NoThread = NoThread
  MaxDepth = 3
SPECIFICATION FairSpec
INVARIANTS MutualExclusion NoSelfDeadlock LockedIsDepth
PROPERTY LockReturns
