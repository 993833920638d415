----------------------------- MODULE MCLockRelay -----------------------------
(***************************************************************************)
(* The indexer of Optimism and its relayer, one task at a time.  Events    *)
(* name Arbitrum, or a chain that is not in the table.                     *)
(***************************************************************************)
EXTENDS LockRelay

CONSTANTS t1, r1

OneTask == {t1}
OneRelayer == {r1}
MCHome == "OptimismTestnet"
MCAdapterNetworks == {"ArbitrumGoerli"}
=============================================================================
