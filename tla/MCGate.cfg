SPECIFICATION FairSpec
CONSTANTS
  Threads = {t1, t2, t3, t4, t5, t6}
  COUNT_MASK <- MCCountMask
INVARIANTS TypeOK MutualExclusion CountIsExact
PROPERTY PendingWriterGetsIn
