----------------------------- MODULE MCCrossChain -----------------------------
(***************************************************************************)
(* Two chains and two accounts, in two settings: dai alone, locked on both *)
(* chains and for both, without loans; and dai of c1 as the collateral of  *)
(* a loan of tusd on c2, which a rise of its price makes liquidatable.     *)
(***************************************************************************)
EXTENDS CrossChainLending

CONSTANTS c1, c2, dai, tusd, u1, u2

MCChains == {c1, c2}
MCUsers == {u1, u2}
MCSymmetry == Permutations(MCUsers)

\* Locks.
DaiOnly == {dai}
DaiUnit == (dai :> 1)
DaiPrices == (<<c1, dai>> :> {0}) @@ (<<c2, dai>> :> {})
DaiAmounts == (dai :> {1, 2})
DaiSupply == (<<c1, dai>> :> 2) @@ (<<c2, dai>> :> 1)
DaiNone == (dai :> 0)
NoDebt == [r \in MCChains \X DaiOnly |-> 0]

\* Loans and liquidations: tusd is counted in tenths.
BothAssets == {dai, tusd}
LoanUnit == (dai :> 1) @@ (tusd :> 10)
LoanPrices == (<<c2, tusd>> :> {100}) @@ [r \in MCChains \X BothAssets |-> {}]
LoanAmounts == (dai :> {1}) @@ (tusd :> {2})
LoanLocks == (dai :> {1}) @@ (tusd :> {})
LoanSupply == (<<c1, dai>> :> 1) @@ (<<c2, dai>> :> 1) @@ (<<c2, tusd>> :> 4)
                @@ [r \in MCChains \X BothAssets |-> 0]
LoanNone == [a \in BothAssets |-> 0]
LoanDebt == (<<c2, tusd>> :> 2) @@ [r \in MCChains \X BothAssets |-> 0]
\* Both ways, and from c1 to itself, which the contracts allow.
LockRoutes == {<<c1, c2>>, <<c2, c1>>, <<c1, c1>>}
LoanRoute == {<<c1, c2>>}
=============================================================================
