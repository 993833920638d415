---------------------------- MODULE MCLendingPool ----------------------------
(***************************************************************************)
(* One chain and up to two foreign chain ids.  The .cfg files choose among *)
(* three settings: two assets of different decimals and no locks, for the  *)
(* arithmetic; one account with collateral here and on two other chains,   *)
(* for liquidations; one asset and two accounts, for the locks.            *)
(***************************************************************************)
EXTENDS LendingPool

CONSTANTS c1, c2, c3, dai, tusd, u1, u2

MCChains == {c1}
TwoChainIds == {c2, c3}
MCAssets == {dai, tusd}
MCUsers == {u1, u2}
UserSymmetry == Permutations(MCUsers)
MCSymmetry == UserSymmetry \cup Permutations(TwoChainIds)

\* dai is traded in whole units of one, tusd in tenths.
MCUnit == (dai :> 1) @@ (tusd :> 10)
MCAmounts == (dai :> {1, 2}) @@ (tusd :> {4})
MCMaxDebt == (<<c1, dai>> :> 1) @@ (<<c1, tusd>> :> 4)

\* Arithmetic: the price of tusd moves below BASE and above it, so that values
\* round down; that of dai is not set.
MovingPrices == (<<c1, dai>> :> {0}) @@ (<<c1, tusd>> :> {3, 60})
BothSupplied == (<<c1, dai>> :> 2) @@ (<<c1, tusd>> :> 8)
NoLocks == [a \in MCAssets |-> {}]
NoneLocked == [a \in MCAssets |-> 0]

\* Liquidation: dai is the collateral, up to 3 held here and up to 2 received from
\* c2 and from c3; a rise of tusd makes half of the loan worth 2 or 3 of it.
OneUser == {u1}
RisingPrices == (<<c1, dai>> :> {}) @@ (<<c1, tusd>> :> {100, 150})
DaiLocks == (dai :> {1, 2}) @@ (tusd :> {})
DaiLocked == (dai :> 2) @@ (tusd :> 0)
ThreeDaiSupplied == (<<c1, dai>> :> 3) @@ (<<c1, tusd>> :> 4)
ThreeDaiAmounts == (dai :> {3}) @@ (tusd :> {4})

\* Locks: dai alone, also borrowed and liquidated against itself.
OneAsset == {dai}
DaiUnit == (dai :> 1)
DaiAmounts == (dai :> {1, 2})
DaiPrices == (<<c1, dai>> :> {10})
DaiTwo == (<<c1, dai>> :> 2)
OneChainId == {c2}
TwoDaiLocked == (dai :> 2)
MCRoutes == MCChains \X TwoChainIds
OneRoute == {<<c1, c2>>}
=============================================================================
