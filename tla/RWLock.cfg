\* Three threads: a first reader, a later reader and a writer can all be
\* inside the lock's code at once.
SPECIFICATION FairSpec
CONSTANTS
  Threads = {t1, t2, t3}
  Free = Free
INVARIANT LockInv
INVARIANT MutualExclusion
PROPERTY ImplementsAbstract
PROPERTY NeverJammed
