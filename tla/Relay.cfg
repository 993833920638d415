CONSTANTS
  t1 = t1  r1 = r1
  Tasks <- OneTask
  Subscribers <- OneRelayer
  Home <- MCHome
  AdapterNetworks <- MCAdapterNetworks
  PeerIds = {7, 421613}
  Window = 2
  ChunkSize = 2
  MaxHead = 3
  MaxPerBlock = 1
  MaxFaults = 1
  MaxSetups = 1
  MaxRestarts = 1
  MaxAdvance = 1
SPECIFICATION RelaySpec
INVARIANTS RelayTypeOK NoEventSkipped PublishedAtMostOnce NothingDroppedSilently SentAtMostOnce SentToNamedChain
PROPERTIES SavedNeverFalls SentOrReported
