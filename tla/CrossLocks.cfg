CONSTANTS
  c1 = c1  c2 = c2  dai = dai  tusd = tusd  u1 = u1  u2 = u2
  BASE = 10
  MaxUint = 1000
  MaxLost = 1
  Chains <- MCChains
  ChainIds <- MCChains
  Users <- MCUsers
  Assets <- DaiOnly
  Amounts <- DaiAmounts
  LockAmounts <- DaiAmounts
  Routes <- LockRoutes
  MaxSupply <- DaiSupply
  MaxLocked <- DaiNone
  Unit <- DaiUnit
  Prices <- DaiPrices
  MaxDebt <- NoDebt
SPECIFICATION CrossSpec
SYMMETRY MCSymmetry
INVARIANT LockConservation
PROPERTIES ReleaseWithinLock ImplementsLedger
