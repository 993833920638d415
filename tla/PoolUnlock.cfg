CONSTANTS
  c1 = c1  c2 = c2  c3 = c3  dai = dai  tusd = tusd  u1 = u1  u2 = u2
  BASE = 10
  MaxUint = 1000
  Chains <- MCChains
  ChainIds <- OneChainId
  Assets <- OneAsset
  Users <- MCUsers
  Amounts <- DaiAmounts
  LockAmounts <- DaiAmounts
  Routes <- OneRoute
  MaxSupply <- DaiTwo
  MaxLocked <- TwoDaiLocked
  Unit <- DaiUnit
  Prices <- DaiPrices
  MaxDebt <- DaiTwo
SPECIFICATION PoolSpec
SYMMETRY UserSymmetry
PROPERTY UnlockKeepsHealthy
