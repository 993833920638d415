CONSTANTS
  t1 = t1  t2 = t2  r1 = r1
  Tasks <- TwoTasks
  Subscribers <- OneRelayer
  PeerIds = {421613}
  Window = 2
  ChunkSize = 1
  MaxHead = 3
  MaxPerBlock = 1
  MaxFaults = 0
  MaxSetups = 1
  MaxRestarts = 0
  MaxAdvance = 1
SPECIFICATION IndexerSpec
SYMMETRY TaskSymmetry
INVARIANT PublishedAtMostOnce
