CONSTANTS
  x1 = x1  x2 = x2
  MaxCalls = 2
  Targets <- MCTargets
  Addresses <- MCAddresses
SPECIFICATION OracleSpec
INVARIANTS OracleTypeOK NoStalePrice
PROPERTY EveryOracleTried
