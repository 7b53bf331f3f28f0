CONSTANTS
  Workers = {t1, t2}
  WorkLists <- MCWorkLists
  UsizeMax <- MCUsizeMax
  BATCH_SIZE = 2
  PARALLEL_THRESHOLD = 2
SPECIFICATION FairSpec
INVARIANTS
  NoSharedByte
PROPERTIES
  WritesAtomically
  EmissionReturns
