CONSTANTS
  t1 = t1  t2 = t2  r1 = r1
  Tasks <- TwoTasks
  Subscribers <- OneRelayer
  PeerIds = {7, 421613}
  Window = 2
  ChunkSize = 1
  MaxHead = 3
  MaxPerBlock = 1
  MaxFaults = 1
  MaxSetups = 2
  MaxRestarts = 1
  MaxAdvance = 1
SPECIFICATION IndexerSpec
SYMMETRY TaskSymmetry
INVARIANTS IndexerTypeOK NoEventSkipped
