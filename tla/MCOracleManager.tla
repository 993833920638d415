--------------------------- MODULE MCOracleManager ---------------------------
(***************************************************************************)
(* Two chains, two oracle contracts that each of them can be given, and    *)
(* two calls, which may overlap.                                           *)
(***************************************************************************)
EXTENDS OracleManager

CONSTANTS x1, x2

MCTargets == {"OptimismTestnet", "ArbitrumGoerli"}
MCAddresses == {x1, x2}
=============================================================================
