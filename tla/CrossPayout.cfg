CONSTANTS
  c1 = c1  c2 = c2  dai = dai  tusd = tusd  u1 = u1  u2 = u2
  BASE = 10
  MaxUint = 1000
  MaxLost = 0
  Chains <- MCChains
  ChainIds <- MCChains
  Users <- MCUsers
  Assets <- BothAssets
  Amounts <- LoanAmounts
  LockAmounts <- LoanLocks
  Routes <- LoanRoute
  MaxSupply <- LoanSupply
  MaxLocked <- LoanNone
  Unit <- LoanUnit
  Prices <- LoanPrices
  MaxDebt <- LoanDebt
SPECIFICATION CrossSpec
SYMMETRY MCSymmetry
PROPERTY LiquidationPaysOut
