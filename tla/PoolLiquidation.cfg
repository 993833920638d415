CONSTANTS
  c1 = c1  c2 = c2  c3 = c3  dai = dai  tusd = tusd  u1 = u1  u2 = u2
  BASE = 10
  MaxUint = 1000
  Chains <- MCChains
  ChainIds <- TwoChainIds
  Assets <- MCAssets
  Users <- OneUser
  Amounts <- ThreeDaiAmounts
  LockAmounts <- DaiLocks
  Routes <- MCRoutes
  MaxSupply <- ThreeDaiSupplied
  MaxLocked <- DaiLocked
  Unit <- MCUnit
  Prices <- RisingPrices
  MaxDebt <- MCMaxDebt
SPECIFICATION PoolSpec
INVARIANT LocksListed
PROPERTY LiquidationSettles
