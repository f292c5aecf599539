CONSTANTS
  r1 = r1
  r2 = r2
  Readers <- MCReaders
  Timed <- MCTimed
  Large <- MCLarge
  max_chunks = 2
  MaxMessages = 3
SPECIFICATION FairSpec
INVARIANTS ReadsInOrder ObjectsInOrder
PROPERTIES QueueSpec EveryMessageRead EnqueueReturns ReadersReleased
CHECK_DEADLOCK FALSE
