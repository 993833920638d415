CONSTANTS
  t1 = t1  t2 = t2  r1 = r1
  Tasks <- OneTask
  Subscribers <- OneRelayer
  PeerIds = {421613}
  Window = 2
  ChunkSize = 1
  MaxHead = 4
  MaxPerBlock = 1
  MaxFaults = 0
  MaxSetups = 1
  MaxRestarts = 0
  MaxAdvance = 2
SPECIFICATION IndexerSpec
INVARIANT NoEventSkipped
