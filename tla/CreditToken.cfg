CONSTANTS
  c1 = c1  c2 = c2  dai = dai  u1 = u1  u2 = u2
  Chains <- MCChains
  ChainIds <- MCChainIds
  Assets <- MCAssets
  Users <- MCUsers
  Amounts <- MCAmounts
  LockAmounts <- MCLockAmounts
  Routes <- MCRoutes
  MaxSupply <- MCMaxSupply
  MaxLocked <- MCMaxLocked
SPECIFICATION TokenSpec
SYMMETRY MCSymmetry
INVARIANTS TokenTypeOK LocksListed
PROPERTY OnlyBurnsOrReportsUncover
