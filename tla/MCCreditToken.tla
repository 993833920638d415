---------------------------- MODULE MCCreditToken ----------------------------
(* One reserve, two accounts, its own chain and a foreign one. *)
EXTENDS CreditToken

CONSTANTS c1, c2, dai, u1, u2

MCChains == {c1}
MCChainIds == {c1, c2}
MCAssets == {dai}
MCUsers == {u1, u2}
MCAmounts == [a \in MCAssets |-> {1, 2}]
MCLockAmounts == MCAmounts
MCMaxSupply == [r \in MCChains \X MCAssets |-> 2]
MCMaxLocked == [a \in MCAssets |-> 2]
MCSymmetry == Permutations(MCUsers)
MCRoutes == MCChains \X MCChainIds
=============================================================================
