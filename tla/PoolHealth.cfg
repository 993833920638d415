CONSTANTS
  c1 = c1  c2 = c2  c3 = c3  dai = dai  tusd = tusd  u1 = u1  u2 = u2
  BASE = 10
  MaxUint = 1000
  Chains <- MCChains
  ChainIds <- TwoChainIds
  Assets <- MCAssets
  Users <- MCUsers
  Amounts <- MCAmounts
  LockAmounts <- NoLocks
  Routes <- MCRoutes
  MaxSupply <- BothSupplied
  MaxLocked <- NoneLocked
  Unit <- MCUnit
  Prices <- MovingPrices
  MaxDebt <- MCMaxDebt
SPECIFICATION PoolSpec
SYMMETRY MCSymmetry
INVARIANTS PoolTypeOK Solvent
PROPERTIES BorrowKeepsHealthy FairSeizure
