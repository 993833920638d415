----------------------------- MODULE LendingPool -----------------------------
(***************************************************************************)
(* contracts/pool/LendingPool.sol with the contracts it drives: the credit *)
(* tokens (module CreditToken), the debt tokens and the price oracle.  An  *)
(* action is one transaction, from its require statements to the events it *)
(* emits; a call that reverts anywhere changes nothing and is no step.     *)
(* receipt holds the lock events of the last transaction: they are all the *)
(* canisters ever see of it.                                               *)
(***************************************************************************)
EXTENDS CreditToken

CONSTANTS
  BASE,     \* 1e18 in the code: one in the fixed-point arithmetic
  MaxUint,  \* type(uint256).max: the health factor of an account with no debt
  Unit,     \* Unit[a] = 10 ** decimals of a
  Prices,   \* Prices[<<c, a>>]: what the oracle of c is set to for a; 0 is unset
  MaxDebt   \* bound: MaxDebt[<<c, a>>] units of a are lent on c

ASSUME PoolAssumption ==
  /\ IsFiniteSet(Assets)
  /\ BASE \in Nat \ {0} /\ MaxUint \in Nat /\ MaxUint >= BASE
  /\ Unit \in [Assets -> Nat \ {0}]
  /\ Prices \in [Reserves -> SUBSET Nat]
  /\ MaxDebt \in [Reserves -> Nat]

VARIABLES
  debt,    \* debt[<<c, a>>][u]: u's balance of the debt token
  price,   \* price[<<c, a>>]: what the oracle stores, 0 if never set
  receipt  \* the LockCreated and LockReleased events of the last transaction

poolVars == <<tokenVars, debt, price, receipt>>

PoolInit ==
  /\ TokenInit
  /\ debt = [r \in Reserves |-> [u \in Users |-> 0]]
  /\ price = [r \in Reserves |-> 0]
  /\ receipt = {}

-----------------------------------------------------------------------------
(* Values and the health factor. *)

\* getPriceInUsd: a price that is not set counts as one.
priceOf(c, a) == IF price[<<c, a>>] = 0 THEN BASE ELSE price[<<c, a>>]

amountInUsd(c, a, amount) == (amount * priceOf(c, a)) \div Unit[a]

liquidationThreshold == (80 * BASE) \div 100

totalBorrowsInUsd(c, u) ==
  SumFunction([a \in Assets |-> amountInUsd(c, a, debt[<<c, a>>][u])])

totalCollateral(c, u) ==
  SumFunction([a \in Assets |->
    amountInUsd(c, a, collateralAmountOf(c, a, u)) * liquidationThreshold])

Ratio(collateral, borrows) ==
  IF borrows = 0 THEN MaxUint ELSE collateral \div borrows

healthFactorOf(c, u) == Ratio(totalCollateral(c, u), totalBorrowsInUsd(c, u))

\* Mutation: the loan is not added to the debt it is checked with.
healthFactorBeforeBorrow(c, u, a, collateralDecreased, borrowAdded) ==
  Ratio(totalCollateral(c, u) - amountInUsd(c, a, collateralDecreased),
        totalBorrowsInUsd(c, u))

\* The difference would underflow, and the call revert, only for a decrease above
\* what the account received: unLockFor, the one caller with a decrease, then
\* reverts for that as well.
healthFactorAfterDecrease(c, u, a, collateralDecreased, borrowAdded) ==
  Ratio(totalCollateral(c, u) - amountInUsd(c, a, collateralDecreased),
        totalBorrowsInUsd(c, u) + amountInUsd(c, a, borrowAdded))

-----------------------------------------------------------------------------
(* Events.  peer is the chain id the event names, emitter the chain it is on. *)

LockCreated(c, a, u, amount, dst) ==
  [event |-> "LockCreated", account |-> u, to |-> u, asset |-> a,
   amount |-> amount, emitter |-> c, peer |-> dst]

LockReleased(c, a, u, amount, src, to) ==
  [event |-> "LockReleased", account |-> u, to |-> to, asset |-> a,
   amount |-> amount, emitter |-> c, peer |-> src]

-----------------------------------------------------------------------------
(* The debt token: mint and burn, its transfers are disabled. *)

mintDebt(c, a, u, amount) ==
  debt' = [debt EXCEPT ![<<c, a>>][u] = @ + amount]

\* Mutation: without the balance check of _burn.
burnDebtUnchecked(c, a, u, amount) ==
  debt' = [debt EXCEPT ![<<c, a>>][u] = @ - amount]

burnDebt(c, a, u, amount) ==
  /\ debt[<<c, a>>][u] >= amount
  /\ debt' = [debt EXCEPT ![<<c, a>>][u] = @ - amount]

-----------------------------------------------------------------------------
(* The transactions of an account. *)

\* Mutation: the credit is minted before the transfer and outlives its failure.
DepositUnpaid(c, a, u, amount) ==
  /\ IF wallet[<<c, a>>][u] >= amount THEN PayIn(c, a, u, amount)
                                  ELSE UNCHANGED <<wallet, cash>>
  /\ mint(c, a, u, amount)
  /\ receipt' = {}
  /\ UNCHANGED <<locks, debt, price>>

Deposit(c, a, u, amount) ==
  /\ PayIn(c, a, u, amount)
  /\ mint(c, a, u, amount)
  /\ receipt' = {}
  /\ UNCHANGED <<locks, debt, price>>

Withdraw(c, a, u, amount) ==
  /\ burn(c, a, u, u, amount)
  /\ receipt' = {}
  /\ UNCHANGED <<locks, debt, price>>

Borrow(c, a, u, amount) ==
  /\ healthFactorAfterDecrease(c, u, a, 0, amount) >= BASE
  /\ mintDebt(c, a, u, amount)
  /\ transferUnderlyingTo(c, a, u, amount)
  /\ receipt' = {}
  /\ UNCHANGED <<credit, locks, price>>

Repay(c, a, u, amount) ==
  /\ burnDebt(c, a, u, amount)
  /\ PayIn(c, a, u, amount)
  /\ receipt' = {}
  /\ UNCHANGED <<credit, locks, price>>

LockFor(c, a, u, amount, dst) ==
  /\ lockFor(c, a, u, amount, dst)
  /\ receipt' = {LockCreated(c, a, u, amount, dst)}
  /\ UNCHANGED <<funds, debt, price>>

UnLockFor(c, a, u, amount, src) ==
  /\ healthFactorAfterDecrease(c, u, a, amount, 0) >= BASE
  /\ unlockFor(c, a, u, amount, src)
  /\ receipt' = {LockReleased(c, a, u, amount, src, u)}
  /\ UNCHANGED <<funds, debt, price>>

\* The credit token is an ERC20: its holders transfer it without the pool.
Transfer(c, a, u, v, amount) ==
  /\ transfer(c, a, u, v, amount)
  /\ receipt' = {}
  /\ UNCHANGED <<wallet, cash, locks, debt, price>>

-----------------------------------------------------------------------------
(* Liquidation. *)

\* Mutation: the decimals of the two assets are swapped.
AvailableCollateralSwapped(c, coll, dbt, toCover, balance) ==
  LET worth  == (priceOf(c, dbt) * toCover * Unit[dbt])
                  \div (priceOf(c, coll) * Unit[coll])
      needed == (priceOf(c, coll) * balance * Unit[coll])
                  \div (priceOf(c, dbt) * Unit[dbt])
  IN  IF worth > balance THEN [collateral |-> balance, debt |-> needed]
                         ELSE [collateral |-> worth, debt |-> toCover]

\* _calculateAvailableCollateralToLiquidate: the collateral worth the debt to
\* cover, and the debt it covers, both capped by the collateral there is.
AvailableCollateral(c, coll, dbt, toCover, balance) ==
  LET worth  == (priceOf(c, dbt) * toCover * Unit[coll])
                  \div (priceOf(c, coll) * Unit[dbt])
      needed == (priceOf(c, coll) * balance * Unit[dbt])
                  \div (priceOf(c, dbt) * Unit[coll])
  IN  IF worth > balance THEN [collateral |-> balance, debt |-> needed]
                         ELSE [collateral |-> worth, debt |-> toCover]

\* _actualDebtToLiquidate: at most half of the debt, and no more than the
\* collateral covers.
ActualDebtToLiquidate(c, coll, dbt, u, toCover) ==
  LET capped    == Min({toCover, debt[<<c, dbt>>][u] \div 2})
      available == AvailableCollateral(c, coll, dbt, capped, collateralAmountOf(c, coll, u))
  IN  [collateral |-> available.collateral, debt |-> Min({available.debt, capped})]

\* Mutation: the loop does not lower the amount left to take.
TakenFromEachChain(c, a, u, amount, id) ==
  IF Contains(knownChainIds[<<c, a>>], id) THEN Min({lockedFrom[<<c, a>>][u][id], amount})
                                           ELSE 0

\* _liquidateOnOtherChain: what the loop over knownChainIds takes from id of the
\* amount that the ids before it have left.
TakenFrom(c, a, u, amount, id) ==
  LET ids == knownChainIds[<<c, a>>]
      counters == [j \in DOMAIN ids |-> lockedFrom[<<c, a>>][u][ids[j]]]
      takenBefore(i) == SumFunctionOnSet(counters, 1..(i - 1))
      left(i) == Max({0, amount - takenBefore(i)})
  IN  IF Contains(ids, id)
      THEN Min({lockedFrom[<<c, a>>][u][id], left(CHOOSE i \in DOMAIN ids : ids[i] = id)})
      ELSE 0

TakenFromOtherChains(c, a, u, amount) ==
  [id \in ChainIds |-> TakenFrom(c, a, u, amount, id)]

Liquidatable(c, u) == healthFactorOf(c, u) < BASE

\* liquidationCall: the liquidator pays last, with what the call paid out to it.
LiquidationCall(c, coll, dbt, u, toCover, liquidator) ==
  LET act == ActualDebtToLiquidate(c, coll, dbt, u, toCover)
      burnt == Min({unlockedBalanceOf(c, coll, u), act.collateral})
      taken == TakenFromOtherChains(c, coll, u, act.collateral - burnt)
      paidOut == [wallet EXCEPT ![<<c, coll>>][liquidator] = @ + burnt]
      cashLeft == [cash EXCEPT ![<<c, coll>>] = @ - burnt]
  IN  /\ Liquidatable(c, u)
      /\ cash[<<c, coll>>] >= act.collateral
      /\ burnDebt(c, dbt, u, act.debt)
      /\ credit' = [credit EXCEPT ![<<c, coll>>][u] = @ - burnt]
      /\ lockedFrom' = [lockedFrom EXCEPT ![<<c, coll>>][u] =
                          [id \in ChainIds |-> @[id] - taken[id]]]
      /\ paidOut[<<c, dbt>>][liquidator] >= act.debt
      /\ wallet' = [paidOut EXCEPT ![<<c, dbt>>][liquidator] = @ - act.debt]
      /\ cash' = [cashLeft EXCEPT ![<<c, dbt>>] = @ + act.debt]
      /\ receipt' = {LockReleased(c, coll, u, taken[id], id, liquidator) :
                       id \in {d \in ChainIds : taken[d] > 0}}
      /\ UNCHANGED <<lockedFor, knownChainIds, price>>

-----------------------------------------------------------------------------
(* The relayed calls, the oracle and the underlying tokens. *)

\* ChainsightAdapter.onLockCreated and the credit token behind it.
OnLockCreated(c, a, u, amount, src) ==
  /\ onLockCreated(c, a, u, amount, src)
  /\ receipt' = {}
  /\ UNCHANGED <<funds, debt, price>>

\* ChainsightAdapter.unlockAssetOf and the credit token behind it.
UnlockAssetOf(c, a, u, to, amount, id) ==
  /\ burnLockedFor(c, a, u, to, amount, id)
  /\ receipt' = {}
  /\ UNCHANGED <<debt, price>>

SetPrice(c, a, p) ==
  /\ price' = [price EXCEPT ![<<c, a>>] = p]
  /\ receipt' = {}
  /\ UNCHANGED <<tokenVars, debt>>

Mint(c, a, u, amount) ==
  /\ MintUnderlying(c, a, u, amount)
  /\ receipt' = {}
  /\ UNCHANGED <<credit, locks, debt, price>>

Donate(c, a, u, amount) ==
  /\ PayIn(c, a, u, amount)
  /\ receipt' = {}
  /\ UNCHANGED <<credit, locks, debt, price>>

-----------------------------------------------------------------------------
(* What the accounts do on one chain, and what reaches it from outside. *)

UserStep(c, a, u, amount) ==
  \/ UnderlyingSupply(c, a) + amount <= MaxSupply[<<c, a>>] /\ Mint(c, a, u, amount)
  \/ Donate(c, a, u, amount)
  \/ Deposit(c, a, u, amount)
  \/ Withdraw(c, a, u, amount)
  \/ TotalOf(debt[<<c, a>>]) + amount <= MaxDebt[<<c, a>>] /\ Borrow(c, a, u, amount)
  \/ Repay(c, a, u, amount)
  \/ \E v \in Users : Transfer(c, a, u, v, amount)

UserSteps == \E c \in Chains, a \in Assets, u \in Users :
               \/ \E amount \in Amounts[a] : UserStep(c, a, u, amount)
               \/ \E amount \in LockAmounts[a], id \in ChainIds :
                    \/ <<c, id>> \in Routes /\ LockFor(c, a, u, amount, id)
                    \/ UnLockFor(c, a, u, amount, id)
               \/ \E dbt \in Assets, v \in Users : \E toCover \in Amounts[dbt] :
                    LiquidationCall(c, a, dbt, u, toCover, v)

PriceSteps == \E c \in Chains, a \in Assets : \E p \in Prices[<<c, a>>] : SetPrice(c, a, p)

\* Any relayed calls: the composition with the other chains (CrossChainLending)
\* replaces this by the calls the canisters make.
RelayedCalls ==
  \E c \in Chains, a \in Assets, u \in Users :
  \E amount \in LockAmounts[a], id \in ChainIds :
  \/ lockedFrom[<<c, a>>][u][id] + amount <= MaxLocked[a] /\ OnLockCreated(c, a, u, amount, id)
  \/ \E to \in Users : UnlockAssetOf(c, a, u, to, amount, id)

PoolNext == UserSteps \/ PriceSteps \/ RelayedCalls

PoolSpec == PoolInit /\ [][PoolNext]_poolVars

-----------------------------------------------------------------------------
(* Properties. *)

\* Every variable has its type; no balance is ever negative.
PoolTypeOK ==
  /\ TokenTypeOK
  /\ debt \in [Reserves -> [Users -> Nat]]
  /\ price \in [Reserves -> Nat]

\* Deposits are never paid out twice: what the holders of a credit token are
\* owed is covered by the cash of the contract and the debt owed to it, through
\* every deposit, loan, liquidation (also with one asset on both sides, also
\* with the liquidator paying from what it was just paid) and relayed payout.
Solvent ==
  \A c \in Chains, a \in Assets :
    TotalOf(credit[<<c, a>>]) <= cash[<<c, a>>] + TotalOf(debt[<<c, a>>])

\* borrow rounds the old debt and the new loan to USD separately, so it can pass
\* its health check with the account short of it, but by less than one USD unit.
BorrowKeepsHealthy ==
  [][\A c \in Chains, u \in Users :
       (\E a \in Assets : debt'[<<c, a>>][u] > debt[<<c, a>>][u]) =>
         BASE * (totalBorrowsInUsd(c, u)' - 1) <= totalCollateral(c, u)']_poolVars

\* Some position of u shrinks in the step: what a liquidation is looked for in.
GivesUp(c, u) ==
  \E a \in Assets : \/ debt'[<<c, a>>][u] < debt[<<c, a>>][u]
                    \/ credit'[<<c, a>>][u] < credit[<<c, a>>][u]
                    \/ lockedFrom'[<<c, a>>][u] # lockedFrom[<<c, a>>][u]

\* The collateral a step takes from u: burnt here, or released on other chains.
Seized(c, a, u) ==
  (credit[<<c, a>>][u] - credit'[<<c, a>>][u])
    + SumFunction([id \in ChainIds |-> lockedFrom[<<c, a>>][u][id] - lockedFrom'[<<c, a>>][u][id]])

\* A liquidator gets no more collateral than it pays for: the value of what is
\* seized is at most that of the debt repaid, up to one unit of the debt asset
\* lost in the two divisions, whatever the prices and decimals of the assets.
FairSeizure ==
  [][\A c \in Chains, u \in Users : GivesUp(c, u) /\ Liquidatable(c, u) =>
     \A coll, dbt \in Assets, v \in Users : \A toCover \in Amounts[dbt] :
       LiquidationCall(c, coll, dbt, u, toCover, v) =>
         priceOf(c, coll) * Seized(c, coll, u) * Unit[dbt]
           <= priceOf(c, dbt) * (debt[<<c, dbt>>][u] - debt'[<<c, dbt>>][u] + 1) * Unit[coll]]_poolVars

\* What the last transaction told chain d to release of u's collateral.
Announced(c, a, u, d) ==
  LET events == {e \in receipt : /\ e.event = "LockReleased" /\ e.account = u
                                 /\ e.asset = a /\ e.emitter = c /\ e.peer = d}
  IN  SumFunction([e \in events |-> e.amount])

\* A liquidation settles all of the collateral it charges the liquidator for: it
\* is paid out here or announced, to the chain that holds it, in the very amount
\* by which the counter of that chain falls.
LiquidationSettles ==
  [][\A c \in Chains, u \in Users : GivesUp(c, u) /\ Liquidatable(c, u) =>
     \A coll, dbt \in Assets, v \in Users : \A toCover \in Amounts[dbt] :
       LiquidationCall(c, coll, dbt, u, toCover, v) =>
         /\ Seized(c, coll, u) = ActualDebtToLiquidate(c, coll, dbt, u, toCover).collateral
         /\ \A d \in ChainIds :
              lockedFrom[<<c, coll>>][u][d] - lockedFrom'[<<c, coll>>][u][d]
                = Announced(c, coll, u, d)']_poolVars

\* The account's balance covers what it locked for other chains.
LockHeld(c, a, u) == lockedBalanceOf(c, a, u) <= credit[<<c, a>>][u]

\* Only the owner of a lock can take its backing away, by withdrawing it:
\* transfers, liquidations and relayed payouts never leave a lock uncovered.
OnlyOwnerUncoversLock ==
  [][\A c \in Chains, a \in Assets, u \in Users :
       LockHeld(c, a, u) /\ ~LockHeld(c, a, u)' =>
         /\ credit'[<<c, a>>][u] < credit[<<c, a>>][u]
         /\ wallet'[<<c, a>>][u] - wallet[<<c, a>>][u]
              = credit[<<c, a>>][u] - credit'[<<c, a>>][u]]_poolVars

\* unLockFor promises by its require ("health factor is too low") that the
\* caller is healthy once the collateral is gone.  The code does not keep this:
\* it takes the released value off the collateral without the threshold and BASE
\* the collateral is scaled with.
UnlockKeepsHealthy ==
  [][\A c \in Chains, a \in Assets, u \in Users, src \in ChainIds : \A amount \in LockAmounts[a] :
       UnLockFor(c, a, u, amount, src) => ~Liquidatable(c, u)']_poolVars
=============================================================================
