-------------------------- MODULE LendingPoolProofs --------------------------
(***************************************************************************)
(* Proofs about module LendingPool.  First its invariant: the types, the   *)
(* list of chain ids, and that the pool is solvent.  Each follows from the *)
(* calls a transaction makes (CreditTokenProofs) and, for the liquidation, *)
(* from what its views return: amounts within the balances they are taken  *)
(* from.  Then what its steps never do, in any state of the invariant: take*)
(* away the backing of a lock, make a loan of an unhealthy account, or     *)
(* seize more, or announce other amounts, than a liquidation charges for.  *)
(***************************************************************************)
EXTENDS LendingPool, CreditTokenProofs

DebtType == debt \in [Reserves -> [Users -> Nat]]
PriceType == price \in [Reserves -> Nat]

\* The type invariant of the pool in the four parts its calls change.
LEMMA PoolTypeParts == PoolTypeOK <=> FundsType /\ LocksType /\ DebtType /\ PriceType
BY TypeParts DEF PoolTypeOK, DebtType, PriceType

-----------------------------------------------------------------------------
(* Arithmetic. *)

\* The minimum of two numbers.
LEMMA MinOf ==
  ASSUME NEW x \in Int, NEW y \in Int
  PROVE  Min({x, y}) = IF x <= y THEN x ELSE y
<1> DEFINE m == IF x <= y THEN x ELSE y
<1>1. m \in {x, y} /\ \A z \in {x, y} : m <= z
  OBVIOUS
<1>2. \A n \in {x, y} : (\A z \in {x, y} : n <= z) => n = m
  OBVIOUS
<1>3. QED
  BY <1>1, <1>2 DEF Min

\* The maximum of two numbers.
LEMMA MaxOf ==
  ASSUME NEW x \in Int, NEW y \in Int
  PROVE  Max({x, y}) = IF x >= y THEN x ELSE y
<1> DEFINE m == IF x >= y THEN x ELSE y
<1>1. m \in {x, y} /\ \A z \in {x, y} : m >= z
  OBVIOUS
<1>2. \A n \in {x, y} : (\A z \in {x, y} : n >= z) => n = m
  OBVIOUS
<1>3. QED
  BY <1>1, <1>2 DEF Max

\* Products of natural numbers are natural.
LEMMA ProductIsNat ==
  ASSUME NEW x \in Nat, NEW y \in Nat
  PROVE  x * y \in Nat /\ (x > 0 /\ y > 0 => x * y > 0)
OBVIOUS

\* Quotients of natural numbers are natural.
LEMMA QuotientIsNat ==
  ASSUME NEW x \in Nat, NEW y \in Nat, y > 0
  PROVE  x \div y \in Nat
OBVIOUS

-----------------------------------------------------------------------------
(* What the views of a liquidation return. *)

\* No price the pool computes with is zero: its divisions are defined.
LEMMA PriceOfIsPositive ==
  ASSUME NEW c \in Chains, NEW a \in Assets, PriceType
  PROVE  priceOf(c, a) \in Nat /\ priceOf(c, a) > 0
BY ReserveOf, PoolAssumption DEF PriceType, priceOf

\* A value is converted into an amount of another asset: price1 * amount * unit1
\* divided by price2 * unit2.
LEMMA ConversionIsNat ==
  ASSUME NEW p \in Nat, NEW n \in Nat, NEW v \in Nat, NEW q \in Nat, NEW w \in Nat, q > 0, w > 0
  PROVE  (p * n * v) \div (q * w) \in Nat
<1>1. p * n * v \in Nat
  BY ProductIsNat
<1>2. q * w \in Nat /\ q * w > 0
  BY ProductIsNat
<1>3. QED
  BY <1>1, <1>2, QuotientIsNat

\* The collateral to liquidate is no more than there is.
LEMMA AvailableCollateralBound ==
  ASSUME NEW c \in Chains, NEW coll \in Assets, NEW dbt \in Assets,
         NEW toCover \in Nat, NEW balance \in Nat, PriceType
  PROVE  LET available == AvailableCollateral(c, coll, dbt, toCover, balance)
         IN  available.collateral \in 0..balance /\ available.debt \in Nat
<1> DEFINE worth == (priceOf(c, dbt) * toCover * Unit[coll])
                      \div (priceOf(c, coll) * Unit[dbt])
           needed == (priceOf(c, coll) * balance * Unit[dbt])
                       \div (priceOf(c, dbt) * Unit[coll])
<1>1. /\ priceOf(c, dbt) \in Nat /\ priceOf(c, dbt) > 0
      /\ priceOf(c, coll) \in Nat /\ priceOf(c, coll) > 0
  BY PriceOfIsPositive
<1>2. /\ Unit[coll] \in Nat /\ Unit[coll] > 0
      /\ Unit[dbt] \in Nat /\ Unit[dbt] > 0
  BY PoolAssumption
<1>3. worth \in Nat /\ needed \in Nat
  BY <1>1, <1>2, ConversionIsNat
<1>4. AvailableCollateral(c, coll, dbt, toCover, balance)
        = IF worth > balance THEN [collateral |-> balance, debt |-> needed]
                             ELSE [collateral |-> worth, debt |-> toCover]
  BY DEF AvailableCollateral
<1> HIDE DEF worth, needed
<1>5. QED
  BY <1>3, <1>4

\* The amounts of a liquidation are natural numbers.
LEMMA ActualDebtBound ==
  ASSUME NEW c \in Chains, NEW coll \in Assets, NEW dbt \in Assets, NEW u \in Users,
         NEW toCover \in Nat, FundsType, LocksType, DebtType, PriceType
  PROVE  LET act == ActualDebtToLiquidate(c, coll, dbt, u, toCover)
         IN  act.collateral \in Nat /\ act.debt \in Nat
<1> DEFINE capped == Min({toCover, debt[<<c, dbt>>][u] \div 2})
           available == AvailableCollateral(c, coll, dbt, capped, collateralAmountOf(c, coll, u))
<1>1. debt[<<c, dbt>>][u] \div 2 \in Nat
  BY ReserveOf, QuotientIsNat DEF DebtType
<1>2. capped \in Nat
  BY <1>1, MinOf
<1>3. collateralAmountOf(c, coll, u) \in Nat
  BY UnlockedBalance
<1> HIDE DEF capped
<1>4. available.collateral \in Nat /\ available.debt \in Nat
  BY <1>2, <1>3, AvailableCollateralBound
<1> HIDE DEF available
<1>5. Min({available.debt, capped}) \in Nat
  BY <1>2, <1>4, MinOf
<1>6. ActualDebtToLiquidate(c, coll, dbt, u, toCover)
        = [collateral |-> available.collateral, debt |-> Min({available.debt, capped})]
  BY DEF ActualDebtToLiquidate, capped, available
<1>7. QED
  BY <1>4, <1>5, <1>6

\* The loop takes from a chain id no more than its counter holds.
LEMMA TakenBound ==
  ASSUME NEW c \in Chains, NEW a \in Assets, NEW u \in Users, NEW amount \in Nat, LocksType
  PROVE  \A id \in ChainIds : TakenFrom(c, a, u, amount, id) \in 0..lockedFrom[<<c, a>>][u][id]
<1> DEFINE ids == knownChainIds[<<c, a>>]
           counters == [j \in DOMAIN ids |-> lockedFrom[<<c, a>>][u][ids[j]]]
           takenBefore(i) == SumFunctionOnSet(counters, 1..(i - 1))
           left(i) == Max({0, amount - takenBefore(i)})
           at(id) == CHOOSE i \in DOMAIN ids : ids[i] = id
<1> TAKE id \in ChainIds
<1>1. ids \in Seq(ChainIds)
  BY ReserveOf DEF LocksType
<1>2. lockedFrom[<<c, a>>][u][id] \in Nat
  BY CountersAreNat
<1>3. TakenFrom(c, a, u, amount, id)
        = IF Contains(ids, id) THEN Min({lockedFrom[<<c, a>>][u][id], left(at(id))}) ELSE 0
  BY DEF TakenFrom
<1>4. ASSUME Contains(ids, id)
      PROVE  left(at(id)) \in Nat
  <2>1. at(id) \in DOMAIN ids
    BY <1>1, <1>4 DEF Contains
  <2>2. at(id) \in 1..Len(ids)
    BY <1>1, <2>1
  <2> HIDE DEF at
  <2>3. \A j \in 1..(at(id) - 1) : j \in DOMAIN ids /\ ids[j] \in ChainIds
    BY <1>1, <2>2
  <2>4. \A j \in 1..(at(id) - 1) : counters[j] \in Nat
    BY <2>3, CountersAreNat
  <2>5. IsFiniteSet(1..(at(id) - 1))
    BY <2>2, FS_Interval
  <2>6. takenBefore(at(id)) \in Nat
    BY <2>4, <2>5, SumIsNat
  <2> HIDE DEF takenBefore
  <2>7. amount - takenBefore(at(id)) \in Int
    BY <2>6
  <2>8. QED
    BY <2>7, MaxOf
<1> HIDE DEF left
<1>5. CASE Contains(ids, id)
  <2>1. left(at(id)) \in Nat
    BY <1>4, <1>5
  <2>2. Min({lockedFrom[<<c, a>>][u][id], left(at(id))}) \in 0..lockedFrom[<<c, a>>][u][id]
    BY <1>2, <2>1, MinOf
  <2>3. QED
    BY <1>3, <1>5, <2>2
<1>6. CASE ~ Contains(ids, id)
  BY <1>2, <1>3, <1>6
<1>7. QED
  BY <1>5, <1>6

-----------------------------------------------------------------------------
(* The liquidation, in the terms of the lemmas above. *)

\* What a liquidation of coll changes: burnt is burnt here, taken is released on
\* the other chains, paid is the debt repaid.
LiquidationChange(c, coll, dbt, u, v, burnt, paid, taken) ==
  LET paidOut == [wallet EXCEPT ![<<c, coll>>][v] = @ + burnt]
      cashLeft == [cash EXCEPT ![<<c, coll>>] = @ - burnt]
  IN  /\ burnt <= credit[<<c, coll>>][u] /\ burnt <= cash[<<c, coll>>]
      /\ paid <= debt[<<c, dbt>>][u] /\ paid <= paidOut[<<c, dbt>>][v]
      /\ \A id \in ChainIds : taken[id] <= lockedFrom[<<c, coll>>][u][id]
      /\ credit' = [credit EXCEPT ![<<c, coll>>][u] = @ - burnt]
      /\ debt' = [debt EXCEPT ![<<c, dbt>>][u] = @ - paid]
      /\ lockedFrom' = [lockedFrom EXCEPT ![<<c, coll>>][u] =
                          [id \in ChainIds |-> @[id] - taken[id]]]
      /\ wallet' = [paidOut EXCEPT ![<<c, dbt>>][v] = @ - paid]
      /\ cash' = [cashLeft EXCEPT ![<<c, dbt>>] = @ + paid]
      /\ UNCHANGED <<lockedFor, knownChainIds, price>>

\* liquidationCall, whatever its arithmetic, burns some credit, is paid some debt
\* and takes some amount off each counter, none of it more than there is.
LEMMA LiquidationEffect ==
  ASSUME NEW c \in Chains, NEW coll \in Assets, NEW dbt \in Assets, NEW u \in Users,
         NEW toCover \in Nat, NEW v \in Users,
         FundsType, LocksType, DebtType, PriceType,
         LiquidationCall(c, coll, dbt, u, toCover, v)
  PROVE  \E burnt \in Nat, paid \in Nat, taken \in [ChainIds -> Nat] :
           /\ LiquidationChange(c, coll, dbt, u, v, burnt, paid, taken)
           /\ burnt <= unlockedBalanceOf(c, coll, u)
<1> DEFINE act == ActualDebtToLiquidate(c, coll, dbt, u, toCover)
           burnt == Min({unlockedBalanceOf(c, coll, u), act.collateral})
           taken == TakenFromOtherChains(c, coll, u, act.collateral - burnt)
           paidOut == [wallet EXCEPT ![<<c, coll>>][v] = @ + burnt]
<1>1. act.collateral \in Nat /\ act.debt \in Nat
  BY ActualDebtBound
<1>2. unlockedBalanceOf(c, coll, u) \in 0..credit[<<c, coll>>][u]
  BY UnlockedBalance
<1>3. /\ cash[<<c, coll>>] \in Nat /\ credit[<<c, coll>>][u] \in Nat
      /\ debt[<<c, dbt>>][u] \in Nat
  BY BalancesAreNat, ReserveOf DEF DebtType
<1>4. cash[<<c, coll>>] >= act.collateral
  BY DEF LiquidationCall
<1>5. /\ burnt \in Nat /\ burnt <= credit[<<c, coll>>][u] /\ burnt <= cash[<<c, coll>>]
      /\ burnt <= act.collateral /\ burnt <= unlockedBalanceOf(c, coll, u)
  BY <1>1, <1>2, <1>3, <1>4, MinOf
<1>6. \A id \in ChainIds : taken[id] \in 0..lockedFrom[<<c, coll>>][u][id]
  BY <1>1, <1>5, TakenBound DEF TakenFromOtherChains
<1>7. taken \in [ChainIds -> Nat] /\ \A id \in ChainIds : taken[id] <= lockedFrom[<<c, coll>>][u][id]
  <2>1. taken = [id \in ChainIds |-> taken[id]]
    BY DEF TakenFromOtherChains
  <2> HIDE DEF taken
  <2>2. \A id \in ChainIds : taken[id] \in Nat /\ taken[id] <= lockedFrom[<<c, coll>>][u][id]
    BY <1>6, CountersAreNat
  <2>3. QED
    BY <2>1, <2>2
<1>8. burnDebt(c, dbt, u, act.debt) /\ paidOut[<<c, dbt>>][v] >= act.debt
  BY DEF LiquidationCall
<1>9. act.debt <= debt[<<c, dbt>>][u]
  BY <1>1, <1>3, <1>8 DEF burnDebt
<1>10. act.debt <= paidOut[<<c, dbt>>][v]
  <2>1. wallet[<<c, coll>>][v] + burnt \in Nat
    BY <1>5, BalancesAreNat
  <2> HIDE DEF burnt
  <2>2. paidOut \in [Reserves -> [Users -> Nat]]
    BY <2>1, ReserveOf, Update2 DEF FundsType
  <2> HIDE DEF paidOut
  <2>3. paidOut[<<c, dbt>>][v] \in Nat
    BY <2>2, ReserveOf
  <2>4. QED
    BY <1>1, <1>8, <2>3
<1>11. LiquidationChange(c, coll, dbt, u, v, burnt, act.debt, taken)
  BY <1>5, <1>7, <1>8, <1>9, <1>10, Zenon DEF LiquidationCall, LiquidationChange, burnDebt
<1> HIDE DEF burnt, taken, act
<1>12. QED
  BY <1>1, <1>5, <1>7, <1>11

\* Such a change keeps every type.
LEMMA LiquidationType ==
  ASSUME NEW c \in Chains, NEW coll \in Assets, NEW dbt \in Assets, NEW u \in Users, NEW v \in Users,
         NEW burnt \in Nat, NEW paid \in Nat, NEW taken \in [ChainIds -> Nat],
         FundsType, LocksType, DebtType, PriceType,
         LiquidationChange(c, coll, dbt, u, v, burnt, paid, taken)
  PROVE  FundsType' /\ LocksType' /\ DebtType' /\ PriceType'
<1> DEFINE paidOut == [wallet EXCEPT ![<<c, coll>>][v] = @ + burnt]
           cashLeft == [cash EXCEPT ![<<c, coll>>] = @ - burnt]
<1>1. <<c, coll>> \in Reserves /\ <<c, dbt>> \in Reserves
  BY ReserveOf
<1>2. wallet' \in [Reserves -> [Users -> Nat]]
  <2>1. wallet[<<c, coll>>][v] + burnt \in Nat
    BY BalancesAreNat
  <2>2. paidOut \in [Reserves -> [Users -> Nat]]
    BY <1>1, <2>1 DEF FundsType
  <2>3. paid <= paidOut[<<c, dbt>>][v] /\ wallet' = [paidOut EXCEPT ![<<c, dbt>>][v] = @ - paid]
    BY DEF LiquidationChange
  <2> DEFINE n == paidOut[<<c, dbt>>][v] - paid
  <2> HIDE DEF paidOut
  <2>4. n \in Nat /\ wallet' = [paidOut EXCEPT ![<<c, dbt>>][v] = n]
    BY <1>1, <2>2, <2>3
  <2> HIDE DEF n
  <2>5. QED
    BY <1>1, <2>2, <2>4, UpdateIn
<1>3. cash' \in [Reserves -> Nat]
  <2>1. cash \in [Reserves -> Nat] /\ cash[<<c, coll>>] - burnt \in Nat
    BY BalancesAreNat DEF LiquidationChange, FundsType
  <2>2. cashLeft \in [Reserves -> Nat]
    BY <1>1, <2>1
  <2>3. cash' = [cashLeft EXCEPT ![<<c, dbt>>] = @ + paid]
    BY DEF LiquidationChange
  <2> HIDE DEF cashLeft
  <2>4. QED
    BY <1>1, <2>2, <2>3
<1>4. credit' \in [Reserves -> [Users -> Nat]]
  <2>1. credit[<<c, coll>>][u] - burnt \in Nat
    BY BalancesAreNat DEF LiquidationChange
  <2>2. QED
    BY <1>1, <2>1, Update2 DEF LiquidationChange, FundsType
<1>5. DebtType'
  <2>1. debt[<<c, dbt>>][u] - paid \in Nat
    BY <1>1 DEF LiquidationChange, DebtType
  <2>2. QED
    BY <1>1, <2>1, Update2 DEF LiquidationChange, DebtType
<1>6. LocksType'
  <2> DEFINE counters == [id \in ChainIds |-> lockedFrom[<<c, coll>>][u][id] - taken[id]]
  <2>1. \A id \in ChainIds : lockedFrom[<<c, coll>>][u][id] - taken[id] \in Nat
    <3>1. \A id \in ChainIds : taken[id] <= lockedFrom[<<c, coll>>][u][id]
      BY DEF LiquidationChange
    <3>2. QED
      BY <3>1, CountersAreNat
  <2>2. counters \in [ChainIds -> Nat]
    BY <2>1
  <2>3. lockedFrom' = [lockedFrom EXCEPT ![<<c, coll>>][u] = counters]
    BY DEF LiquidationChange
  <2>4. UNCHANGED <<lockedFor, knownChainIds>>
    BY DEF LiquidationChange
  <2> HIDE DEF counters
  <2>5. lockedFrom' \in [Reserves -> [Users -> [ChainIds -> Nat]]]
    BY <1>1, <2>2, <2>3 DEF LocksType
  <2>6. QED
    BY <2>4, <2>5 DEF LocksType
<1>7. PriceType'
  BY DEF LiquidationChange, PriceType
<1>8. QED
  BY <1>2, <1>3, <1>4, <1>5, <1>6, <1>7 DEF FundsType

\* Such a change raises no counter.
LEMMA LiquidationListed ==
  ASSUME NEW c \in Chains, NEW coll \in Assets, NEW dbt \in Assets, NEW u \in Users, NEW v \in Users,
         NEW burnt \in Nat, NEW paid \in Nat, NEW taken \in [ChainIds -> Nat],
         FundsType, LocksType, DebtType, PriceType, LocksListed,
         LiquidationChange(c, coll, dbt, u, v, burnt, paid, taken)
  PROVE  LocksListed'
<1> DEFINE counters == [id \in ChainIds |-> lockedFrom[<<c, coll>>][u][id] - taken[id]]
<1>1. LocksType'
  BY LiquidationType
<1>2. lockedFor' = lockedFor /\ knownChainIds' = knownChainIds
  BY DEF LiquidationChange
<1>3. \A id \in ChainIds : counters[id] <= lockedFrom[<<c, coll>>][u][id]
  BY CountersAreNat
<1>4. lockedFrom' = [lockedFrom EXCEPT ![<<c, coll>>][u] = counters]
  BY DEF LiquidationChange
<1> HIDE DEF counters
<1>5. \A r \in Reserves, w \in Users :
        \/ lockedFrom'[r][w] = lockedFrom[r][w]
        \/ lockedFrom'[r][w] = counters /\ r = <<c, coll>> /\ w = u
  BY <1>4 DEF LocksType
<1>6. \A r \in Reserves, w \in Users, d \in ChainIds :
        /\ lockedFor'[r][w][d] <= lockedFor[r][w][d]
        /\ lockedFrom'[r][w][d] <= lockedFrom[r][w][d]
  <2> TAKE r \in Reserves, w \in Users, d \in ChainIds
  <2>1. lockedFor[r][w][d] \in Nat /\ lockedFrom[r][w][d] \in Nat
    BY DEF LocksType
  <2>2. QED
    BY <1>2, <1>3, <1>5, <2>1
<1>7. QED
  BY <1>1, <1>2, <1>6, LocksFallListed

-----------------------------------------------------------------------------
(* The debt token. *)

\* A loan raises the debt owed to one reserve by the amount.
LEMMA MintDebtEffect ==
  ASSUME NEW c \in Chains, NEW a \in Assets, NEW u \in Users, NEW amount \in Nat,
         DebtType, mintDebt(c, a, u, amount)
  PROVE  /\ DebtType'
         /\ \A r \in Reserves :
              TotalOf(debt'[r]) = IF r = <<c, a>> THEN TotalOf(debt[r]) + amount ELSE TotalOf(debt[r])
<1> DEFINE n == debt[<<c, a>>][u] + amount
<1>1. /\ <<c, a>> \in Reserves /\ debt \in [Reserves -> [Users -> Nat]]
      /\ n \in Nat /\ debt[<<c, a>>][u] \in Nat
  BY ReserveOf DEF DebtType
<1>2. debt' = [debt EXCEPT ![<<c, a>>][u] = n]
  BY DEF mintDebt
<1>3. n - debt[<<c, a>>][u] = amount
  BY <1>1
<1> HIDE DEF n
<1>4. DebtType'
  BY <1>1, <1>2, Update2 DEF DebtType
<1>5. \A r \in Reserves : TotalOf(debt[r]) \in Nat
  BY <1>1, TotalIsNat
<1>6. \A r \in Reserves :
        TotalOf(debt'[r]) = IF r = <<c, a>> THEN TotalOf(debt[r]) - debt[r][u] + n
                                            ELSE TotalOf(debt[r])
  BY <1>1, <1>2, TotalAfter
<1>7. QED
  BY <1>1, <1>3, <1>4, <1>5, <1>6

\* A repayment lowers the debt owed to one reserve by the amount.
LEMMA BurnDebtEffect ==
  ASSUME NEW c \in Chains, NEW a \in Assets, NEW u \in Users, NEW amount \in Nat,
         DebtType, burnDebt(c, a, u, amount)
  PROVE  /\ DebtType'
         /\ \A r \in Reserves :
              TotalOf(debt'[r]) = IF r = <<c, a>> THEN TotalOf(debt[r]) - amount ELSE TotalOf(debt[r])
<1> DEFINE n == debt[<<c, a>>][u] - amount
<1>1. /\ <<c, a>> \in Reserves /\ debt \in [Reserves -> [Users -> Nat]]
      /\ n \in Nat /\ debt[<<c, a>>][u] \in Nat
  BY ReserveOf DEF DebtType, burnDebt
<1>2. debt' = [debt EXCEPT ![<<c, a>>][u] = n]
  BY DEF burnDebt
<1>3. debt[<<c, a>>][u] - n = amount
  BY <1>1
<1> HIDE DEF n
<1>4. DebtType'
  BY <1>1, <1>2, Update2 DEF DebtType
<1>5. \A r \in Reserves : TotalOf(debt[r]) \in Nat
  BY <1>1, TotalIsNat
<1>6. \A r \in Reserves :
        TotalOf(debt'[r]) = IF r = <<c, a>> THEN TotalOf(debt[r]) - debt[r][u] + n
                                            ELSE TotalOf(debt[r])
  BY <1>1, <1>2, TotalAfter
<1>7. QED
  BY <1>1, <1>3, <1>4, <1>5, <1>6

-----------------------------------------------------------------------------
(* The invariant, and each transaction's step. *)

\* Solvent is inductive only where balances are natural numbers: the types are
\* part of the invariant, and with them the list of chain ids.
PoolInv ==
  /\ FundsType /\ LocksType /\ DebtType /\ PriceType
  /\ LocksListed
  /\ Solvent

\* What a step must not do to a reserve: owe more without holding more.
LEMMA StaysSolvent ==
  ASSUME FundsType, DebtType, FundsType', DebtType', Solvent,
         \A r \in Reserves :
           TotalOf(credit'[r]) - TotalOf(credit[r])
             <= (cash'[r] - cash[r]) + (TotalOf(debt'[r]) - TotalOf(debt[r]))
  PROVE  Solvent'
<1> SUFFICES ASSUME NEW c \in Chains, NEW a \in Assets
             PROVE  TotalOf(credit'[<<c, a>>]) <= cash'[<<c, a>>] + TotalOf(debt'[<<c, a>>])
  BY DEF Solvent
<1> DEFINE r == <<c, a>>
<1>1. r \in Reserves
  BY ReserveOf
<1>2. /\ TotalOf(credit[r]) \in Nat /\ TotalOf(credit'[r]) \in Nat
      /\ TotalOf(debt[r]) \in Nat /\ TotalOf(debt'[r]) \in Nat
      /\ cash[r] \in Nat /\ cash'[r] \in Nat
  BY <1>1, TotalIsNat DEF FundsType, DebtType
<1>3. TotalOf(credit[r]) <= cash[r] + TotalOf(debt[r])
  BY DEF Solvent
<1>4. QED
  BY <1>1, <1>2, <1>3

\* The amounts Solvent compares are natural numbers.
LEMMA TotalsAreNat ==
  ASSUME FundsType, DebtType
  PROVE  \A r \in Reserves :
           TotalOf(credit[r]) \in Nat /\ TotalOf(debt[r]) \in Nat /\ cash[r] \in Nat
BY TotalIsNat DEF FundsType, DebtType

\* Minting the underlying leaves what the reserve owes and holds alone.
LEMMA MintStep ==
  ASSUME NEW c \in Chains, NEW a \in Assets, NEW u \in Users, NEW amount \in Nat,
         PoolInv, Mint(c, a, u, amount)
  PROVE  PoolInv'
<1> USE DEF locks
<1>1. MintUnderlying(c, a, u, amount) /\ UNCHANGED <<cash, credit, locks, debt, price>>
  BY DEF Mint, MintUnderlying
<1>2. FundsType' /\ LocksType' /\ DebtType' /\ PriceType'
  BY <1>1, MintUnderlyingType DEF PoolInv, FundsType, LocksType, DebtType, PriceType
<1>3. LocksListed'
  BY <1>1, UnchangedListed DEF PoolInv
<1>4. Solvent'
  BY <1>1, <1>2, TotalsAreNat, StaysSolvent DEF PoolInv
<1>5. QED
  BY <1>2, <1>3, <1>4 DEF PoolInv

\* A donation raises the cash only.
LEMMA DonateStep ==
  ASSUME NEW c \in Chains, NEW a \in Assets, NEW u \in Users, NEW amount \in Nat,
         PoolInv, Donate(c, a, u, amount)
  PROVE  PoolInv'
<1> USE DEF locks
<1>1. PayIn(c, a, u, amount) /\ UNCHANGED <<credit, locks, debt, price>>
  BY DEF Donate
<1>2. FundsType' /\ LocksType' /\ DebtType' /\ PriceType'
  BY <1>1, PayInType DEF PoolInv, FundsType, LocksType, DebtType, PriceType
<1>3. LocksListed'
  BY <1>1, UnchangedListed DEF PoolInv
<1>4. Solvent'
  BY <1>1, <1>2, PayInCash, TotalsAreNat, StaysSolvent DEF PoolInv
<1>5. QED
  BY <1>2, <1>3, <1>4 DEF PoolInv

\* A deposit raises credit and cash alike.
LEMMA DepositStep ==
  ASSUME NEW c \in Chains, NEW a \in Assets, NEW u \in Users, NEW amount \in Nat,
         PoolInv, Deposit(c, a, u, amount)
  PROVE  PoolInv'
<1> USE DEF locks
<1>1. PayIn(c, a, u, amount) /\ mint(c, a, u, amount) /\ UNCHANGED <<locks, debt, price>>
  BY DEF Deposit
<1>2. FundsType' /\ LocksType' /\ DebtType' /\ PriceType'
  BY <1>1, PayInType, MintType DEF PoolInv, FundsType, LocksType, DebtType, PriceType
<1>3. LocksListed'
  BY <1>1, UnchangedListed DEF PoolInv
<1>4. Solvent'
  BY <1>1, <1>2, PayInCash, MintTotal, TotalsAreNat, StaysSolvent DEF PoolInv
<1>5. QED
  BY <1>2, <1>3, <1>4 DEF PoolInv

\* A withdrawal lowers credit and cash alike.
LEMMA WithdrawStep ==
  ASSUME NEW c \in Chains, NEW a \in Assets, NEW u \in Users, NEW amount \in Nat,
         PoolInv, Withdraw(c, a, u, amount)
  PROVE  PoolInv'
<1> USE DEF locks
<1>1. burn(c, a, u, u, amount) /\ UNCHANGED <<locks, debt, price>>
  BY DEF Withdraw
<1>2. FundsType' /\ LocksType' /\ DebtType' /\ PriceType'
  BY <1>1, BurnType DEF PoolInv, LocksType, DebtType, PriceType
<1>3. LocksListed'
  BY <1>1, UnchangedListed DEF PoolInv
<1>4. Solvent'
  BY <1>1, <1>2, BurnTotal, TotalsAreNat, StaysSolvent DEF PoolInv
<1>5. QED
  BY <1>2, <1>3, <1>4 DEF PoolInv

\* A loan turns cash into debt.
LEMMA BorrowStep ==
  ASSUME NEW c \in Chains, NEW a \in Assets, NEW u \in Users, NEW amount \in Nat,
         PoolInv, Borrow(c, a, u, amount)
  PROVE  PoolInv'
<1> USE DEF locks
<1>1. /\ mintDebt(c, a, u, amount) /\ transferUnderlyingTo(c, a, u, amount)
      /\ UNCHANGED <<credit, locks, price>>
  BY DEF Borrow
<1>2. FundsType' /\ LocksType' /\ DebtType' /\ PriceType'
  BY <1>1, MintDebtEffect, TransferUnderlyingToType DEF PoolInv, FundsType, LocksType, PriceType
<1>3. LocksListed'
  BY <1>1, UnchangedListed DEF PoolInv
<1>4. Solvent'
  BY <1>1, <1>2, MintDebtEffect, TransferUnderlyingToCash, TotalsAreNat, StaysSolvent DEF PoolInv
<1>5. QED
  BY <1>2, <1>3, <1>4 DEF PoolInv

\* A repayment turns debt into cash.
LEMMA RepayStep ==
  ASSUME NEW c \in Chains, NEW a \in Assets, NEW u \in Users, NEW amount \in Nat,
         PoolInv, Repay(c, a, u, amount)
  PROVE  PoolInv'
<1> USE DEF locks
<1>1. /\ burnDebt(c, a, u, amount) /\ PayIn(c, a, u, amount)
      /\ UNCHANGED <<credit, locks, price>>
  BY DEF Repay
<1>2. FundsType' /\ LocksType' /\ DebtType' /\ PriceType'
  BY <1>1, BurnDebtEffect, PayInType DEF PoolInv, FundsType, LocksType, PriceType
<1>3. LocksListed'
  BY <1>1, UnchangedListed DEF PoolInv
<1>4. Solvent'
  BY <1>1, <1>2, BurnDebtEffect, PayInCash, TotalsAreNat, StaysSolvent DEF PoolInv
<1>5. QED
  BY <1>2, <1>3, <1>4 DEF PoolInv

\* A transfer of credit leaves its total alone.
LEMMA TransferStep ==
  ASSUME NEW c \in Chains, NEW a \in Assets, NEW u \in Users, NEW v \in Users, NEW amount \in Nat,
         PoolInv, Transfer(c, a, u, v, amount)
  PROVE  PoolInv'
<1> USE DEF locks
<1>1. transfer(c, a, u, v, amount) /\ UNCHANGED <<wallet, cash, locks, debt, price>>
  BY DEF Transfer
<1>2. FundsType' /\ LocksType' /\ DebtType' /\ PriceType'
  BY <1>1, TransferType DEF PoolInv, FundsType, LocksType, DebtType, PriceType
<1>3. LocksListed'
  BY <1>1, UnchangedListed DEF PoolInv
<1>4. Solvent'
  BY <1>1, <1>2, TransferTotal, TotalsAreNat, StaysSolvent DEF PoolInv
<1>5. QED
  BY <1>2, <1>3, <1>4 DEF PoolInv

\* A step that moves locks only.
LEMMA FundsUnchangedSolvent ==
  ASSUME PoolInv, UNCHANGED <<wallet, cash, credit, debt>>
  PROVE  FundsType' /\ DebtType' /\ Solvent'
<1>1. FundsType' /\ DebtType'
  BY DEF PoolInv, FundsType, DebtType
<1>2. QED
  BY <1>1, TotalsAreNat, StaysSolvent DEF PoolInv

\* Locking moves no funds.
LEMMA LockForStep ==
  ASSUME NEW c \in Chains, NEW a \in Assets, NEW u \in Users, NEW amount \in Nat,
         NEW d \in ChainIds, PoolInv, LockFor(c, a, u, amount, d)
  PROVE  PoolInv'
<1>1. lockFor(c, a, u, amount, d) /\ UNCHANGED <<wallet, cash, credit, debt, price>>
  BY DEF LockFor, funds
<1>2. LocksType' /\ PriceType' /\ LocksListed'
  BY <1>1, LockForType, LockForListed DEF PoolInv, PriceType
<1>3. QED
  BY <1>1, <1>2, FundsUnchangedSolvent DEF PoolInv

\* Unlocking moves no funds.
LEMMA UnLockForStep ==
  ASSUME NEW c \in Chains, NEW a \in Assets, NEW u \in Users, NEW amount \in Nat,
         NEW s \in ChainIds, PoolInv, UnLockFor(c, a, u, amount, s)
  PROVE  PoolInv'
<1>1. unlockFor(c, a, u, amount, s) /\ UNCHANGED <<wallet, cash, credit, debt, price>>
  BY DEF UnLockFor, funds
<1>2. LocksType' /\ PriceType' /\ LocksListed'
  BY <1>1, UnlockForType, UnlockForListed DEF PoolInv, PriceType
<1>3. QED
  BY <1>1, <1>2, FundsUnchangedSolvent DEF PoolInv

\* The report of a lock moves no funds.
LEMMA OnLockCreatedStep ==
  ASSUME NEW c \in Chains, NEW a \in Assets, NEW u \in Users, NEW amount \in Nat,
         NEW s \in ChainIds, PoolInv, OnLockCreated(c, a, u, amount, s)
  PROVE  PoolInv'
<1>1. onLockCreated(c, a, u, amount, s) /\ UNCHANGED <<wallet, cash, credit, debt, price>>
  BY DEF OnLockCreated, funds
<1>2. LocksType' /\ PriceType' /\ LocksListed'
  BY <1>1, OnLockCreatedType, OnLockCreatedListed DEF PoolInv, PriceType
<1>3. QED
  BY <1>1, <1>2, FundsUnchangedSolvent DEF PoolInv

\* A relayed release burns as much credit as it pays out, or moves nothing.
LEMMA UnlockAssetOfStep ==
  ASSUME NEW c \in Chains, NEW a \in Assets, NEW u \in Users, NEW v \in Users, NEW amount \in Nat,
         NEW id \in ChainIds, PoolInv, UnlockAssetOf(c, a, u, v, amount, id)
  PROVE  PoolInv'
<1>1. burnLockedFor(c, a, u, v, amount, id) /\ UNCHANGED <<debt, price>>
  BY DEF UnlockAssetOf
<1>2. FundsType' /\ LocksType' /\ DebtType' /\ PriceType' /\ LocksListed'
  BY <1>1, BurnLockedForType, BurnLockedForListed DEF PoolInv, DebtType, PriceType
<1>3. Solvent'
  <2>1. CASE u = v
    <3>1. UNCHANGED <<wallet, cash, credit, debt>>
      BY <1>1, <2>1 DEF burnLockedFor, funds
    <3>2. QED
      BY <3>1, FundsUnchangedSolvent
  <2>2. CASE u # v
    <3>1. burn(c, a, u, v, amount)
      BY <1>1, <2>2 DEF burnLockedFor
    <3>2. QED
      BY <1>1, <1>2, <3>1, BurnTotal, TotalsAreNat, StaysSolvent DEF PoolInv
  <2>3. QED
    BY <2>1, <2>2
<1>4. QED
  BY <1>2, <1>3 DEF PoolInv

\* A new price moves no funds.
LEMMA SetPriceStep ==
  ASSUME NEW c \in Chains, NEW a \in Assets, NEW p \in Nat, PoolInv, SetPrice(c, a, p)
  PROVE  PoolInv'
<1> USE DEF tokenVars, locks
<1>1. UNCHANGED <<wallet, cash, credit, lockedFor, lockedFrom, knownChainIds, debt>>
  BY DEF SetPrice
<1>2. PriceType'
  BY ReserveOf DEF SetPrice, PoolInv, PriceType
<1>3. LocksType' /\ LocksListed'
  BY <1>1, UnchangedListed DEF PoolInv, LocksType
<1>4. QED
  BY <1>1, <1>2, <1>3, FundsUnchangedSolvent DEF PoolInv

\* A liquidation burns credit for the cash it pays out and debt for the cash it
\* takes in, whether or not the two are of one reserve.
LEMMA LiquidationSolvent ==
  ASSUME NEW c \in Chains, NEW coll \in Assets, NEW dbt \in Assets, NEW u \in Users, NEW v \in Users,
         NEW burnt \in Nat, NEW paid \in Nat, NEW taken \in [ChainIds -> Nat],
         PoolInv, LiquidationChange(c, coll, dbt, u, v, burnt, paid, taken)
  PROVE  Solvent'
<1> DEFINE n == credit[<<c, coll>>][u] - burnt
           m == debt[<<c, dbt>>][u] - paid
           cashLeft == [cash EXCEPT ![<<c, coll>>] = @ - burnt]
<1>1. /\ <<c, coll>> \in Reserves /\ <<c, dbt>> \in Reserves
      /\ credit \in [Reserves -> [Users -> Nat]] /\ debt \in [Reserves -> [Users -> Nat]]
      /\ cash \in [Reserves -> Nat]
  BY ReserveOf DEF PoolInv, FundsType, DebtType
<1>2. FundsType' /\ DebtType'
  BY LiquidationType DEF PoolInv
<1>3. burnt <= credit[<<c, coll>>][u] /\ paid <= debt[<<c, dbt>>][u]
  BY DEF LiquidationChange
<1>4. /\ n \in Nat /\ m \in Nat
      /\ credit[<<c, coll>>][u] - n = burnt /\ debt[<<c, dbt>>][u] - m = paid
      /\ credit[<<c, coll>>][u] \in Nat /\ debt[<<c, dbt>>][u] \in Nat
  BY <1>1, <1>3
<1>5. /\ credit' = [credit EXCEPT ![<<c, coll>>][u] = n]
      /\ debt' = [debt EXCEPT ![<<c, dbt>>][u] = m]
  BY DEF LiquidationChange
<1>6. cash' = [cashLeft EXCEPT ![<<c, dbt>>] = @ + paid]
  BY DEF LiquidationChange
<1> HIDE DEF n, m
<1>7. \A r \in Reserves :
        TotalOf(credit'[r]) = IF r = <<c, coll>> THEN TotalOf(credit[r]) - credit[r][u] + n
                                                 ELSE TotalOf(credit[r])
  BY <1>1, <1>4, <1>5, TotalAfter
<1>8. \A r \in Reserves :
        TotalOf(debt'[r]) = IF r = <<c, dbt>> THEN TotalOf(debt[r]) - debt[r][u] + m
                                              ELSE TotalOf(debt[r])
  BY <1>1, <1>4, <1>5, TotalAfter
<1>9. \A r \in Reserves :
        /\ cashLeft[r] = IF r = <<c, coll>> THEN cash[r] - burnt ELSE cash[r]
        /\ cashLeft[r] \in Int
        /\ cash'[r] = IF r = <<c, dbt>> THEN cashLeft[r] + paid ELSE cashLeft[r]
  <2>1. \A r \in Reserves : cashLeft[r] = IF r = <<c, coll>> THEN cash[r] - burnt ELSE cash[r]
    BY <1>1
  <2>2. \A r \in Reserves : cashLeft[r] \in Int
    BY <1>1, <2>1
  <2>3. cashLeft \in [Reserves -> Int]
    BY <1>1
  <2> HIDE DEF cashLeft
  <2>4. \A r \in Reserves : cash'[r] = IF r = <<c, dbt>> THEN cashLeft[r] + paid ELSE cashLeft[r]
    BY <1>1, <1>6, <2>3
  <2>5. QED
    BY <2>1, <2>2, <2>4
<1>10. \A r \in Reserves :
        TotalOf(credit[r]) \in Nat /\ TotalOf(debt[r]) \in Nat /\ cash[r] \in Nat
  BY TotalsAreNat DEF PoolInv
<1> HIDE DEF cashLeft
<1>11. \A r \in Reserves :
        TotalOf(credit'[r]) - TotalOf(credit[r])
          <= (cash'[r] - cash[r]) + (TotalOf(debt'[r]) - TotalOf(debt[r]))
  <2> TAKE r \in Reserves
  <2>1. TotalOf(credit'[r]) = IF r = <<c, coll>> THEN TotalOf(credit[r]) - burnt ELSE TotalOf(credit[r])
    BY <1>4, <1>7, <1>10
  <2>2. TotalOf(debt'[r]) = IF r = <<c, dbt>> THEN TotalOf(debt[r]) - paid ELSE TotalOf(debt[r])
    BY <1>4, <1>8, <1>10
  <2>3. QED
    BY <1>9, <1>10, <2>1, <2>2
<1>12. QED
  BY <1>2, <1>11, StaysSolvent DEF PoolInv

\* A liquidation keeps the invariant, with one asset on both sides or with two.
LEMMA LiquidationCallStep ==
  ASSUME NEW c \in Chains, NEW coll \in Assets, NEW dbt \in Assets, NEW u \in Users,
         NEW toCover \in Nat, NEW v \in Users,
         PoolInv, LiquidationCall(c, coll, dbt, u, toCover, v)
  PROVE  PoolInv'
<1>1. FundsType /\ LocksType /\ DebtType /\ PriceType /\ LocksListed
  BY DEF PoolInv
<1>2. PICK burnt \in Nat, paid \in Nat, taken \in [ChainIds -> Nat] :
        LiquidationChange(c, coll, dbt, u, v, burnt, paid, taken)
  BY <1>1, LiquidationEffect
<1>3. FundsType' /\ LocksType' /\ DebtType' /\ PriceType'
  BY <1>1, <1>2, LiquidationType
<1>4. LocksListed'
  BY <1>1, <1>2, LiquidationListed
<1>5. Solvent'
  BY <1>2, LiquidationSolvent
<1>6. QED
  BY <1>3, <1>4, <1>5 DEF PoolInv

-----------------------------------------------------------------------------
(* The theorems. *)

\* The invariant holds at first.
LEMMA PoolInvInit == PoolInit => PoolInv
<1> SUFFICES ASSUME PoolInit PROVE PoolInv
  OBVIOUS
<1>1. FundsType /\ LocksType /\ DebtType /\ PriceType
  BY DEF PoolInit, TokenInit, FundsType, LocksType, DebtType, PriceType
<1>2. LocksListed
  BY TokenInitListed DEF PoolInit
<1>3. Solvent
  <2> SUFFICES ASSUME NEW c \in Chains, NEW a \in Assets
               PROVE  TotalOf(credit[<<c, a>>]) <= cash[<<c, a>>] + TotalOf(debt[<<c, a>>])
    BY DEF Solvent
  <2>1. <<c, a>> \in Reserves
    BY ReserveOf
  <2>2. credit[<<c, a>>] = debt[<<c, a>>] /\ cash[<<c, a>>] = 0
    BY <2>1 DEF PoolInit, TokenInit
  <2>3. TotalOf(debt[<<c, a>>]) \in Nat
    BY <1>1, <2>1, TotalsAreNat
  <2>4. QED
    BY <2>2, <2>3
<1>4. QED
  BY <1>1, <1>2, <1>3 DEF PoolInv

\* The transactions of the accounts keep the invariant.
LEMMA UserStepsKeepInv ==
  ASSUME PoolInv, UserSteps
  PROVE  PoolInv'
<1>1. PICK c \in Chains, a \in Assets, u \in Users :
        \/ \E amount \in Amounts[a] : UserStep(c, a, u, amount)
        \/ \E amount \in LockAmounts[a], id \in ChainIds :
             \/ <<c, id>> \in Routes /\ LockFor(c, a, u, amount, id)
             \/ UnLockFor(c, a, u, amount, id)
        \/ \E dbt \in Assets, v \in Users : \E toCover \in Amounts[dbt] :
             LiquidationCall(c, a, dbt, u, toCover, v)
  BY DEF UserSteps
<1>2. CASE \E amount \in Amounts[a] : UserStep(c, a, u, amount)
  <2>1. PICK amount \in Amounts[a] : UserStep(c, a, u, amount)
    BY <1>2
  <2>2. amount \in Nat
    BY AmountsAreNat
  <2>3. QED
    BY <2>1, <2>2, MintStep, DonateStep, DepositStep, WithdrawStep, BorrowStep, RepayStep,
       TransferStep DEF UserStep
<1>3. CASE \E amount \in LockAmounts[a], id \in ChainIds :
             \/ <<c, id>> \in Routes /\ LockFor(c, a, u, amount, id)
             \/ UnLockFor(c, a, u, amount, id)
  BY <1>3, AmountsAreNat, LockForStep, UnLockForStep
<1>4. CASE \E dbt \in Assets, v \in Users : \E toCover \in Amounts[dbt] :
             LiquidationCall(c, a, dbt, u, toCover, v)
  BY <1>4, AmountsAreNat, LiquidationCallStep
<1>5. QED
  BY <1>1, <1>2, <1>3, <1>4

\* The oracle keeps the invariant.
LEMMA PriceStepsKeepInv ==
  ASSUME PoolInv, PriceSteps
  PROVE  PoolInv'
<1>1. \A c \in Chains, a \in Assets : \A p \in Prices[<<c, a>>] : p \in Nat
  BY ReserveOf, PoolAssumption
<1>2. QED
  BY <1>1, SetPriceStep DEF PriceSteps

\* The relayed calls keep the invariant, whatever the relayers send.
LEMMA RelayedCallsKeepInv ==
  ASSUME PoolInv, RelayedCalls
  PROVE  PoolInv'
BY AmountsAreNat, OnLockCreatedStep, UnlockAssetOfStep DEF RelayedCalls

\* Every step of the pool keeps the invariant.
LEMMA PoolInvStep == PoolInv /\ [PoolNext]_poolVars => PoolInv'
<1> SUFFICES ASSUME PoolInv, [PoolNext]_poolVars PROVE PoolInv'
  OBVIOUS
<1>1. CASE UserSteps
  BY <1>1, UserStepsKeepInv
<1>2. CASE PriceSteps
  BY <1>2, PriceStepsKeepInv
<1>3. CASE RelayedCalls
  BY <1>3, RelayedCallsKeepInv
<1>4. CASE UNCHANGED poolVars
  <2>1. UNCHANGED <<wallet, cash, credit, debt>> /\ UNCHANGED locks /\ UNCHANGED price
    BY <1>4 DEF poolVars, tokenVars, locks
  <2>2. LocksType' /\ LocksListed' /\ PriceType'
    BY <2>1, UnchangedListed DEF PoolInv, LocksType, PriceType, locks
  <2>3. QED
    BY <2>1, <2>2, FundsUnchangedSolvent DEF PoolInv
<1>5. QED
  BY <1>1, <1>2, <1>3, <1>4 DEF PoolNext

\* The inductive invariant holds in every reachable state of the pool.
THEOREM PoolInvariant == PoolSpec => []PoolInv
BY PoolInvInit, PoolInvStep, PTL DEF PoolSpec

\* Whatever the accounts, the oracle and the relayers do, no balance, debt or
\* counter of the contracts ever underflows.
THEOREM PoolTypeCorrect == PoolSpec => []PoolTypeOK
<1>1. PoolInv => PoolTypeOK
  BY PoolTypeParts DEF PoolInv
<1>2. QED
  BY <1>1, PoolInvariant, PTL

\* Every chain with an amount on a counter is listed, once, under the pool's own
\* transactions, its liquidations included.
THEOREM PoolLocksListed == PoolSpec => []LocksListed
<1>1. PoolInv => LocksListed
  BY DEF PoolInv
<1>2. QED
  BY <1>1, PoolInvariant, PTL

\* What the holders of a credit token are owed is covered by its cash and the
\* debt owed to it, for any number of chains, assets, accounts and any prices.
THEOREM PoolSolvent == PoolSpec => []Solvent
<1>1. PoolInv => Solvent
  BY DEF PoolInv
<1>2. QED
  BY <1>1, PoolInvariant, PTL

-----------------------------------------------------------------------------
(* OnlyOwnerUncoversLock.                                                  *)

\* LockHeld, of the totals and not of the loops, for any reserve.
Holds(q, w) == LockedTotal(q, w) <= credit[q][w]

\* A step after which a lock has lost its backing only to its owner's wallet.
KeepsHolds ==
  \A q \in Reserves, w \in Users :
    Holds(q, w) =>
      \/ Holds(q, w)'
      \/ credit'[q][w] < credit[q][w] /\ wallet'[q][w] - wallet[q][w] = credit[q][w] - credit'[q][w]

\* What an account can spend or lock is not what backs its locks.
LEMMA SpendableBacksNothing ==
  ASSUME NEW c \in Chains, NEW a \in Assets, NEW u \in Users, NEW amount \in Nat,
         FundsType, LocksType, LocksListed, unlockedBalanceOf(c, a, u) >= amount, Holds(<<c, a>>, u)
  PROVE  LockedTotal(<<c, a>>, u) + amount <= credit[<<c, a>>][u]
<1>1. LockedTotal(<<c, a>>, u) \in Nat /\ FromTotal(<<c, a>>, u) \in Nat /\ credit[<<c, a>>][u] \in Nat
  BY ReserveOf, AllAreNat
<1>2. unlockedBalanceOf(c, a, u)
        = IF credit[<<c, a>>][u] > LockedTotal(<<c, a>>, u) + FromTotal(<<c, a>>, u)
          THEN credit[<<c, a>>][u] - (LockedTotal(<<c, a>>, u) + FromTotal(<<c, a>>, u)) ELSE 0
  BY ViewsAreTotals DEF unlockedBalanceOf
<1> QED BY <1>1, <1>2 DEF Holds

\* A step that locks nothing more and takes no credit uncovers nothing.
LEMMA CreditKeptHolds ==
  ASSUME FundsType, FundsType', LocksType, lockedFor' = lockedFor,
         \A q \in Reserves, w \in Users : credit'[q][w] >= credit[q][w]
  PROVE  KeepsHolds
<1> SUFFICES ASSUME NEW q \in Reserves, NEW w \in Users, Holds(q, w) PROVE Holds(q, w)'
  BY DEF KeepsHolds
<1>1. LockedTotal(q, w)' = LockedTotal(q, w) /\ LockedTotal(q, w) \in Nat /\ credit[q][w] \in Nat
  BY AllAreNat DEF LockedTotal
<1>2. credit'[q][w] \in Nat /\ credit'[q][w] >= credit[q][w]
  BY DEF FundsType
<1> QED BY <1>1, <1>2 DEF Holds

\* Nor does one that moves neither.
LEMMA UnchangedHolds ==
  ASSUME credit' = credit, lockedFor' = lockedFor
  PROVE  KeepsHolds
BY DEF KeepsHolds, Holds, LockedTotal

\* A deposit raises a balance.
LEMMA DepositHolds ==
  ASSUME NEW c \in Chains, NEW a \in Assets, NEW u \in Users, NEW amount \in Nat,
         PoolInv, Deposit(c, a, u, amount)
  PROVE  KeepsHolds
<1>1. FundsType /\ FundsType' /\ LocksType
  BY DepositStep DEF PoolInv
<1>2. credit' = [credit EXCEPT ![<<c, a>>][u] = credit[<<c, a>>][u] + amount] /\ lockedFor' = lockedFor
  BY DEF Deposit, mint, locks
<1>3. PICK n \in Nat : n = credit[<<c, a>>][u] + amount
  BY <1>1, BalancesAreNat
<1>4. \A q \in Reserves, w \in Users : credit'[q][w] >= credit[q][w]
  <2> TAKE q \in Reserves, w \in Users
  <2>1. credit[q][w] \in Nat
    BY <1>1 DEF FundsType
  <2>2. credit' = [credit EXCEPT ![<<c, a>>][u] = n]
    BY <1>2, <1>3
  <2>3. credit'[q][w] = IF q = <<c, a>> /\ w = u THEN n ELSE credit[q][w]
    BY <1>1, <2>2 DEF FundsType
  <2>4. q = <<c, a>> /\ w = u => n = credit[q][w] + amount
    BY <1>3
  <2> QED BY <2>1, <2>3, <2>4
<1> QED BY <1>1, <1>2, <1>4, CreditKeptHolds

\* The owner may withdraw what backs its lock: it is paid what leaves its balance.
LEMMA WithdrawHolds ==
  ASSUME NEW c \in Chains, NEW a \in Assets, NEW u \in Users, NEW amount \in Nat,
         PoolInv, Withdraw(c, a, u, amount)
  PROVE  KeepsHolds
<1>1. FundsType /\ LocksType
  BY DEF PoolInv
<1>2. /\ lockedFor' = lockedFor
      /\ credit' = [credit EXCEPT ![<<c, a>>][u] = credit[<<c, a>>][u] - amount]
      /\ wallet' = [wallet EXCEPT ![<<c, a>>][u] = wallet[<<c, a>>][u] + amount]
  BY DEF Withdraw, burn, transferUnderlyingTo, locks
<1>3. PICK n \in Int, m \in Int : n = credit[<<c, a>>][u] - amount /\ m = wallet[<<c, a>>][u] + amount
  BY <1>1, BalancesAreNat
<1> SUFFICES ASSUME NEW q \in Reserves, NEW w \in Users, Holds(q, w)
             PROVE  \/ Holds(q, w)'
                    \/ /\ credit'[q][w] < credit[q][w]
                       /\ wallet'[q][w] - wallet[q][w] = credit[q][w] - credit'[q][w]
  BY DEF KeepsHolds
<1>4. LockedTotal(q, w)' = LockedTotal(q, w)
  BY <1>2 DEF LockedTotal
<1>5. credit[q][w] \in Nat /\ wallet[q][w] \in Nat
  BY <1>1 DEF FundsType
<1>6. /\ credit'[q][w] = IF q = <<c, a>> /\ w = u THEN n ELSE credit[q][w]
      /\ wallet'[q][w] = IF q = <<c, a>> /\ w = u THEN m ELSE wallet[q][w]
  <2>1. credit' = [credit EXCEPT ![<<c, a>>][u] = n] /\ wallet' = [wallet EXCEPT ![<<c, a>>][u] = m]
    BY <1>2, <1>3
  <2> QED BY <1>1, <2>1 DEF FundsType
<1>7. CASE q = <<c, a>> /\ w = u /\ amount > 0
  BY <1>3, <1>5, <1>6, <1>7
<1>8. CASE ~ (q = <<c, a>> /\ w = u /\ amount > 0)
  <2>1. credit'[q][w] = credit[q][w]
    BY <1>3, <1>5, <1>6, <1>8
  <2> QED BY <1>4, <2>1 DEF Holds
<1> QED BY <1>7, <1>8

\* A transfer spends what backs no lock.
LEMMA TransferHolds ==
  ASSUME NEW c \in Chains, NEW a \in Assets, NEW u \in Users, NEW v \in Users, NEW amount \in Nat,
         PoolInv, Transfer(c, a, u, v, amount)
  PROVE  KeepsHolds
<1>1. FundsType /\ LocksType /\ LocksListed
  BY DEF PoolInv
<1>2. transfer(c, a, u, v, amount) /\ lockedFor' = lockedFor
  BY DEF Transfer, locks
<1> SUFFICES ASSUME NEW q \in Reserves, NEW w \in Users, Holds(q, w) PROVE Holds(q, w)'
  BY DEF KeepsHolds
<1>3. LockedTotal(q, w)' = LockedTotal(q, w) /\ LockedTotal(q, w) \in Nat /\ credit[q][w] \in Nat
  BY <1>1, <1>2, AllAreNat DEF LockedTotal
<1>4. CASE credit'[q][w] \in Nat /\ credit'[q][w] >= credit[q][w]
  BY <1>3, <1>4 DEF Holds
<1>5. CASE q = <<c, a>> /\ w = u /\ credit'[q][w] = credit[q][w] - amount
  <2>1. unlockedBalanceOf(c, a, u) >= amount
    BY <1>2 DEF transfer
  <2>2. LockedTotal(q, w) + amount <= credit[q][w]
    BY <1>1, <1>5, <2>1, SpendableBacksNothing
  <2> QED BY <1>3, <1>5, <2>2 DEF Holds
<1> QED BY <1>1, <1>2, <1>4, <1>5, TransferCredit

\* A lock is backed by credit that backs no other.
LEMMA LockForHolds ==
  ASSUME NEW c \in Chains, NEW a \in Assets, NEW u \in Users, NEW amount \in Nat, NEW d \in ChainIds,
         PoolInv, LockFor(c, a, u, amount, d)
  PROVE  KeepsHolds
<1>1. FundsType /\ LocksType /\ LocksListed
  BY DEF PoolInv
<1>2. lockFor(c, a, u, amount, d) /\ credit' = credit
  BY DEF LockFor, funds
<1> SUFFICES ASSUME NEW q \in Reserves, NEW w \in Users, Holds(q, w) PROVE Holds(q, w)'
  BY DEF KeepsHolds
<1>3. LockedTotal(q, w) \in Nat /\ credit[q][w] \in Nat
  BY <1>1, AllAreNat
<1>4. /\ LockedTotal(q, w)' = IF q = <<c, a>> /\ w = u THEN LockedTotal(q, w) + amount ELSE LockedTotal(q, w)
      /\ unlockedBalanceOf(c, a, u) >= amount
  BY <1>1, <1>2, LockForTotals
<1>5. CASE q = <<c, a>> /\ w = u
  <2>1. LockedTotal(q, w) + amount <= credit[q][w]
    BY <1>1, <1>4, <1>5, SpendableBacksNothing
  <2> QED BY <1>2, <1>3, <1>4, <1>5, <2>1 DEF Holds
<1>6. CASE ~ (q = <<c, a>> /\ w = u)
  BY <1>2, <1>4, <1>6 DEF Holds
<1> QED BY <1>5, <1>6

\* A relayed payout burns no more than it unlocks.
LEMMA UnlockAssetOfHolds ==
  ASSUME NEW c \in Chains, NEW a \in Assets, NEW u \in Users, NEW v \in Users, NEW amount \in Nat,
         NEW id \in ChainIds, PoolInv, UnlockAssetOf(c, a, u, v, amount, id)
  PROVE  KeepsHolds
<1>1. FundsType /\ LocksType /\ LocksListed
  BY DEF PoolInv
<1>2. burnLockedFor(c, a, u, v, amount, id)
  BY DEF UnlockAssetOf
<1> SUFFICES ASSUME NEW q \in Reserves, NEW w \in Users, Holds(q, w) PROVE Holds(q, w)'
  BY DEF KeepsHolds
<1>3. LockedTotal(q, w) \in Nat /\ credit[q][w] \in Nat
  BY <1>1, AllAreNat
<1>4. /\ LockedTotal(q, w)' = IF q = <<c, a>> /\ w = u THEN LockedTotal(q, w) - amount ELSE LockedTotal(q, w)
      /\ credit'[q][w] = IF q = <<c, a>> /\ w = u /\ u # v THEN credit[q][w] - amount ELSE credit[q][w]
  BY <1>1, <1>2, BurnLockedForTotals
<1> QED BY <1>3, <1>4 DEF Holds

\* A liquidation burns credit that backs no lock.
LEMMA LiquidationHolds ==
  ASSUME NEW c \in Chains, NEW coll \in Assets, NEW dbt \in Assets, NEW u \in Users,
         NEW toCover \in Nat, NEW v \in Users,
         PoolInv, LiquidationCall(c, coll, dbt, u, toCover, v)
  PROVE  KeepsHolds
<1>1. FundsType /\ LocksType /\ LocksListed /\ DebtType /\ PriceType
  BY DEF PoolInv
<1>2. PICK burnt \in Nat, paid \in Nat, taken \in [ChainIds -> Nat] :
        /\ LiquidationChange(c, coll, dbt, u, v, burnt, paid, taken)
        /\ burnt <= unlockedBalanceOf(c, coll, u)
  BY <1>1, LiquidationEffect
<1> SUFFICES ASSUME NEW q \in Reserves, NEW w \in Users, Holds(q, w) PROVE Holds(q, w)'
  BY DEF KeepsHolds
<1>3. LockedTotal(q, w)' = LockedTotal(q, w) /\ LockedTotal(q, w) \in Nat /\ credit[q][w] \in Nat
  BY <1>1, <1>2, AllAreNat DEF LockedTotal, LiquidationChange
<1>4. PICK n \in Int : n = credit[<<c, coll>>][u] - burnt
  BY <1>1, BalancesAreNat
<1>5. credit'[q][w] = IF q = <<c, coll>> /\ w = u THEN n ELSE credit[q][w]
  <2>1. credit' = [credit EXCEPT ![<<c, coll>>][u] = n]
    BY <1>2, <1>4 DEF LiquidationChange
  <2> QED BY <1>1, <2>1 DEF FundsType
<1>6. CASE q = <<c, coll>> /\ w = u
  <2>1. LockedTotal(q, w) + burnt <= credit[q][w]
    <3>1. unlockedBalanceOf(c, coll, u) \in 0..credit[<<c, coll>>][u]
      BY <1>1, UnlockedBalance
    <3>2. unlockedBalanceOf(c, coll, u) >= burnt
      BY <1>2, <1>3, <1>6, <3>1
    <3> QED BY <1>1, <1>6, <3>2, SpendableBacksNothing
  <2> QED BY <1>3, <1>4, <1>5, <1>6, <2>1 DEF Holds
<1>7. CASE ~ (q = <<c, coll>> /\ w = u)
  BY <1>3, <1>5, <1>7 DEF Holds
<1> QED BY <1>6, <1>7

\* The transactions of the accounts.
LEMMA UserStepsHold ==
  ASSUME PoolInv, UserSteps
  PROVE  KeepsHolds
<1>1. PICK c \in Chains, a \in Assets, u \in Users :
        \/ \E amount \in Amounts[a] : UserStep(c, a, u, amount)
        \/ \E amount \in LockAmounts[a], id \in ChainIds :
             \/ <<c, id>> \in Routes /\ LockFor(c, a, u, amount, id)
             \/ UnLockFor(c, a, u, amount, id)
        \/ \E dbt \in Assets, v \in Users : \E toCover \in Amounts[dbt] :
             LiquidationCall(c, a, dbt, u, toCover, v)
  BY DEF UserSteps
<1>2. CASE \E amount \in Amounts[a] : UserStep(c, a, u, amount)
  <2>1. PICK amount \in Amounts[a] : UserStep(c, a, u, amount)
    BY <1>2
  <2>2. amount \in Nat
    BY AmountsAreNat
  <2>3. CASE \/ Mint(c, a, u, amount) \/ Donate(c, a, u, amount)
             \/ Borrow(c, a, u, amount) \/ Repay(c, a, u, amount)
    BY <2>3, UnchangedHolds DEF Mint, Donate, Borrow, Repay, locks
  <2> QED BY <2>1, <2>2, <2>3, DepositHolds, WithdrawHolds, TransferHolds DEF UserStep
<1>3. CASE \E amount \in LockAmounts[a], id \in ChainIds :
             \/ <<c, id>> \in Routes /\ LockFor(c, a, u, amount, id)
             \/ UnLockFor(c, a, u, amount, id)
  <2>1. PICK amount \in LockAmounts[a], id \in ChainIds :
          LockFor(c, a, u, amount, id) \/ UnLockFor(c, a, u, amount, id)
    BY <1>3
  <2>2. CASE UnLockFor(c, a, u, amount, id)
    BY <2>2, UnchangedHolds DEF UnLockFor, unlockFor, funds
  <2> QED BY <2>1, <2>2, AmountsAreNat, LockForHolds
<1>4. CASE \E dbt \in Assets, v \in Users : \E toCover \in Amounts[dbt] :
             LiquidationCall(c, a, dbt, u, toCover, v)
  BY <1>4, AmountsAreNat, LiquidationHolds
<1> QED BY <1>1, <1>2, <1>3, <1>4

\* Every step of the pool.
LEMMA PoolStepHolds ==
  ASSUME PoolInv, [PoolNext]_poolVars
  PROVE  KeepsHolds
<1>1. CASE UserSteps
  BY <1>1, UserStepsHold
<1>2. CASE PriceSteps
  BY <1>2, UnchangedHolds DEF PriceSteps, SetPrice, tokenVars
<1>3. CASE RelayedCalls
  <2>1. PICK c \in Chains, a \in Assets, u \in Users : \E amount \in LockAmounts[a], id \in ChainIds :
          \/ OnLockCreated(c, a, u, amount, id)
          \/ \E to \in Users : UnlockAssetOf(c, a, u, to, amount, id)
    BY <1>3 DEF RelayedCalls
  <2>2. PICK amount \in LockAmounts[a], id \in ChainIds :
          \/ OnLockCreated(c, a, u, amount, id)
          \/ \E to \in Users : UnlockAssetOf(c, a, u, to, amount, id)
    BY <2>1
  <2>3. CASE OnLockCreated(c, a, u, amount, id)
    BY <2>3, UnchangedHolds DEF OnLockCreated, onLockCreated, funds
  <2> QED BY <2>2, <2>3, AmountsAreNat, UnlockAssetOfHolds
<1>4. CASE UNCHANGED poolVars
  BY <1>4, UnchangedHolds DEF poolVars, tokenVars
<1> QED BY <1>1, <1>2, <1>3, <1>4 DEF PoolNext

\* In the terms of the contract's views.
LEMMA HoldsOfViews ==
  ASSUME PoolInv, PoolInv', KeepsHolds, NEW c \in Chains, NEW a \in Assets, NEW u \in Users,
         LockHeld(c, a, u), ~ LockHeld(c, a, u)'
  PROVE  /\ credit'[<<c, a>>][u] < credit[<<c, a>>][u]
         /\ wallet'[<<c, a>>][u] - wallet[<<c, a>>][u] = credit[<<c, a>>][u] - credit'[<<c, a>>][u]
<1>1. LocksType /\ LocksListed /\ LocksType' /\ LocksListed'
  BY DEF PoolInv
<1>2. lockedBalanceOf(c, a, u) = LockedTotal(<<c, a>>, u)
  BY <1>1, ViewsAreTotals
<1>3. lockedBalanceOf(c, a, u)' = LockedTotal(<<c, a>>, u)'
  BY <1>1, ViewsAreTotalsNext
<1>4. Holds(<<c, a>>, u) /\ ~ Holds(<<c, a>>, u)'
  BY <1>2, <1>3 DEF LockHeld, Holds
<1> QED BY <1>4, ReserveOf DEF KeepsHolds

\* Transfers, liquidations and relayed payouts never leave a lock uncovered: only
\* its owner does, who is paid for the credit it gives up.
THEOREM PoolOwnerUncovers == PoolSpec => OnlyOwnerUncoversLock
<1> DEFINE Step == \A c \in Chains, a \in Assets, u \in Users :
                     LockHeld(c, a, u) /\ ~ LockHeld(c, a, u)' =>
                       /\ credit'[<<c, a>>][u] < credit[<<c, a>>][u]
                       /\ wallet'[<<c, a>>][u] - wallet[<<c, a>>][u]
                            = credit[<<c, a>>][u] - credit'[<<c, a>>][u]
<1>1. PoolInv /\ PoolInv' /\ [PoolNext]_poolVars => [Step]_poolVars
  BY PoolStepHolds, HoldsOfViews
<1> QED BY <1>1, PoolInvariant, PTL DEF PoolSpec, OnlyOwnerUncoversLock

-----------------------------------------------------------------------------
(* BorrowKeepsHealthy.                                                     *)

\* What a division rounds off is less than the divisor.
LEMMA DivBounds ==
  ASSUME NEW n \in Nat, NEW d \in Nat, d > 0
  PROVE  n \div d \in Nat /\ d * (n \div d) <= n /\ n < d * ((n \div d) + 1)
OBVIOUS

\* A product grows with its factor.
LEMMA ProductMonotone ==
  ASSUME NEW k \in Nat, NEW x \in Int, NEW y \in Int, x <= y
  PROVE  k * x <= k * y /\ k * x \in Int /\ k * y \in Int
OBVIOUS

\* A factor can be cancelled.
LEMMA ProductCancel ==
  ASSUME NEW k \in Nat, NEW x \in Int, NEW y \in Int, k > 0, k * x < k * y
  PROVE  x < y
OBVIOUS

\* Two divisions round off at most one more than the division of the sum.
LEMMA DivOfSum ==
  ASSUME NEW m \in Nat, NEW n \in Nat, NEW d \in Nat, d > 0
  PROVE  (m + n) \div d <= (m \div d) + (n \div d) + 1
<1>1. PICK x \in Nat, y \in Nat, z \in Nat : x = m \div d /\ y = n \div d /\ z = (m + n) \div d
  BY DivBounds
<1>2. m < d * (x + 1) /\ n < d * (y + 1) /\ d * z <= m + n
  BY <1>1, DivBounds
<1>3. d * z < d * (x + y + 2)
  <2>1. d * (x + 1) + d * (y + 1) = d * (x + y + 2) /\ d * (x + 1) \in Nat /\ d * (y + 1) \in Nat
    OBVIOUS
  <2>2. d * z \in Nat
    OBVIOUS
  <2> QED BY <1>2, <2>1, <2>2
<1>4. z < x + y + 2
  BY <1>3, ProductCancel
<1> QED BY <1>1, <1>4

\* Amounts have a value; none, no value; and two amounts less than one unit more
\* than the two values.
LEMMA UsdOf ==
  ASSUME NEW c \in Chains, NEW a \in Assets, PriceType
  PROVE  /\ \A n \in Nat : amountInUsd(c, a, n) \in Nat
         /\ amountInUsd(c, a, 0) = 0
         /\ \A m, n \in Nat : amountInUsd(c, a, m + n) <= amountInUsd(c, a, m) + amountInUsd(c, a, n) + 1
<1>1. PICK p \in Nat, d \in Nat : p = priceOf(c, a) /\ d = Unit[a] /\ d > 0
  BY PriceOfIsPositive, PoolAssumption
<1>2. \A n \in Nat : amountInUsd(c, a, n) = (n * p) \div d /\ n * p \in Nat
  BY <1>1, ProductIsNat DEF amountInUsd
<1>3. \A n \in Nat : amountInUsd(c, a, n) \in Nat
  <2> TAKE n \in Nat
  <2>1. PICK x \in Nat : x = n * p
    BY <1>2
  <2>2. x \div d \in Nat
    BY <1>1, DivBounds
  <2> QED BY <1>2, <2>1, <2>2
<1>4. amountInUsd(c, a, 0) = 0
  <2>1. 0 * p = 0 /\ 0 \div d = 0
    BY <1>1
  <2> QED BY <1>2, <2>1
<1>5. ASSUME NEW m \in Nat, NEW n \in Nat
      PROVE  amountInUsd(c, a, m + n) <= amountInUsd(c, a, m) + amountInUsd(c, a, n) + 1
  <2>1. (m + n) * p = m * p + n * p /\ m + n \in Nat
    OBVIOUS
  <2>2. (m * p + n * p) \div d <= ((m * p) \div d) + ((n * p) \div d) + 1
    BY <1>1, <1>2, DivOfSum
  <2> QED BY <1>2, <2>1, <2>2
<1> QED BY <1>3, <1>4, <1>5

\* The borrows and the collateral of an account are natural numbers.
LEMMA HealthIsNat ==
  ASSUME NEW c \in Chains, NEW u \in Users, FundsType, LocksType, DebtType, PriceType
  PROVE  totalBorrowsInUsd(c, u) \in Nat /\ totalCollateral(c, u) \in Nat
<1> DEFINE owed == [a \in Assets |-> amountInUsd(c, a, debt[<<c, a>>][u])]
           held == [a \in Assets |-> amountInUsd(c, a, collateralAmountOf(c, a, u)) * liquidationThreshold]
<1>1. \A a \in Assets : debt[<<c, a>>][u] \in Nat
  BY ReserveOf DEF DebtType
<1>2. liquidationThreshold \in Nat
  <2>1. 80 * BASE \in Nat
    BY PoolAssumption
  <2> QED BY <2>1, DivBounds DEF liquidationThreshold
<1>3. \A a \in Assets : owed[a] \in Nat
  BY <1>1, UsdOf
<1>4. \A a \in Assets : held[a] \in Nat
  <2> TAKE a \in Assets
  <2>1. amountInUsd(c, a, collateralAmountOf(c, a, u)) \in Nat
    BY UnlockedBalance, UsdOf
  <2>2. amountInUsd(c, a, collateralAmountOf(c, a, u)) * liquidationThreshold \in Nat
    BY <1>2, <2>1, ProductIsNat
  <2> QED BY <2>2
<1>5. DOMAIN owed = Assets /\ DOMAIN held = Assets /\ IsFiniteSet(Assets)
  BY PoolAssumption
<1>6. totalBorrowsInUsd(c, u) = SumFunctionOnSet(owed, DOMAIN owed)
      /\ totalCollateral(c, u) = SumFunctionOnSet(held, DOMAIN held)
  BY DEF totalBorrowsInUsd, totalCollateral, SumFunction
<1> HIDE DEF owed, held
<1> QED BY <1>3, <1>4, <1>5, <1>6, SumIsNat

\* A loan raises the borrows by its value, and at most one unit that rounding hid.
LEMMA BorrowsAfter ==
  ASSUME NEW c \in Chains, NEW a \in Assets, NEW u \in Users, NEW amount \in Nat,
         DebtType, PriceType, mintDebt(c, a, u, amount), price' = price
  PROVE  totalBorrowsInUsd(c, u)' <= totalBorrowsInUsd(c, u) + amountInUsd(c, a, amount) + 1
         /\ totalBorrowsInUsd(c, u)' \in Nat
<1>1. PICK f, g : /\ f = [b \in Assets |-> amountInUsd(c, b, debt[<<c, b>>][u])]
                  /\ g = [b \in Assets |-> amountInUsd(c, b, debt'[<<c, b>>][u])]
  OBVIOUS
<1>2. PICK n \in Nat, m \in Nat : n = debt[<<c, a>>][u] /\ m = n + amount
  BY ReserveOf DEF DebtType
<1>3. \A b \in Assets : debt'[<<c, b>>][u] = IF b = a THEN m ELSE debt[<<c, b>>][u]
  <2>1. debt' = [debt EXCEPT ![<<c, a>>][u] = m]
    BY <1>2 DEF mintDebt
  <2> QED BY <2>1, ReserveOf DEF DebtType
<1>4. \A b \in Assets : f[b] \in Nat /\ g[b] \in Nat
  <2>1. \A b \in Assets : debt[<<c, b>>][u] \in Nat /\ debt'[<<c, b>>][u] \in Nat
    BY <1>3, ReserveOf DEF DebtType
  <2> QED BY <1>1, <2>1, UsdOf
<1>5. g[a] <= f[a] + amountInUsd(c, a, amount) + 1
  <2>1. g[a] = amountInUsd(c, a, n + amount) /\ f[a] = amountInUsd(c, a, n)
    BY <1>1, <1>2, <1>3
  <2> QED BY <2>1, UsdOf
<1>6. \A b \in Assets \ {a} : f[b] = g[b]
  BY <1>1, <1>3
<1>7. PICK x \in Nat : x = SumFunctionOnSet(f, Assets \ {a})
  BY <1>4, PoolAssumption, FS_Subset, SumIsNat
<1>8. SumFunctionOnSet(f, Assets \ {a}) = SumFunctionOnSet(g, Assets \ {a})
  BY <1>6, PoolAssumption, FS_Subset, SumCongruence
<1>9. SumFunctionOnSet(f, Assets) = f[a] + x
  BY <1>4, <1>7, PoolAssumption, SumRemove
<1>10. SumFunctionOnSet(g, Assets) = g[a] + x
  BY <1>4, <1>7, <1>8, PoolAssumption, SumRemove
<1>11. totalBorrowsInUsd(c, u) = SumFunctionOnSet(f, Assets)
  BY <1>1 DEF totalBorrowsInUsd, SumFunction
<1>12. totalBorrowsInUsd(c, u)' = SumFunctionOnSet(g, Assets)
  <2>1. \A b \in Assets : amountInUsd(c, b, debt[<<c, b>>][u])' = amountInUsd(c, b, debt'[<<c, b>>][u])
    BY DEF amountInUsd, priceOf
  <2>2. totalBorrowsInUsd(c, u)' = SumFunction([b \in Assets |-> amountInUsd(c, b, debt[<<c, b>>][u])'])
    BY DEF totalBorrowsInUsd
  <2>3. [b \in Assets |-> amountInUsd(c, b, debt[<<c, b>>][u])'] = g
    BY <1>1, <2>1
  <2> QED BY <1>1, <2>2, <2>3 DEF SumFunction
<1>13. amountInUsd(c, a, amount) \in Nat /\ f[a] \in Nat /\ g[a] \in Nat
  BY <1>4, UsdOf
<1> QED BY <1>5, <1>9, <1>10, <1>11, <1>12, <1>13

\* The collateral of an account depends on the credit, the locks and the prices.
LEMMA CollateralUnchanged ==
  ASSUME NEW c \in Chains, NEW u \in Users, UNCHANGED <<credit, locks, price>>
  PROVE  totalCollateral(c, u)' = totalCollateral(c, u)
<1>1. \A a \in Assets : lockedBalanceOf(c, a, u)' = lockedBalanceOf(c, a, u)
                        /\ receivedAmountOf(c, a, u)' = receivedAmountOf(c, a, u)
  BY DEF lockedBalanceOf, receivedAmountOf, locks
<1>2. \A a \in Assets : collateralAmountOf(c, a, u)' = collateralAmountOf(c, a, u)
  BY <1>1 DEF collateralAmountOf, unlockedBalanceOf
<1>3. \A a \in Assets : (amountInUsd(c, a, collateralAmountOf(c, a, u)) * liquidationThreshold)'
                         = amountInUsd(c, a, collateralAmountOf(c, a, u)) * liquidationThreshold
  BY <1>2 DEF amountInUsd, priceOf, liquidationThreshold
<1>4. totalCollateral(c, u)'
        = SumFunction([a \in Assets |-> (amountInUsd(c, a, collateralAmountOf(c, a, u)) * liquidationThreshold)'])
  BY DEF totalCollateral
<1>5. [a \in Assets |-> (amountInUsd(c, a, collateralAmountOf(c, a, u)) * liquidationThreshold)']
        = [a \in Assets |-> amountInUsd(c, a, collateralAmountOf(c, a, u)) * liquidationThreshold]
  BY <1>3
<1> QED BY <1>4, <1>5 DEF totalCollateral

\* The check of borrow, with the two roundings it leaves out.
LEMMA BorrowHealthy ==
  ASSUME NEW c \in Chains, NEW a \in Assets, NEW u \in Users, NEW amount \in Nat,
         PoolInv, Borrow(c, a, u, amount)
  PROVE  BASE * (totalBorrowsInUsd(c, u)' - 1) <= totalCollateral(c, u)'
<1>1. FundsType /\ LocksType /\ DebtType /\ PriceType
  BY DEF PoolInv
<1>2. /\ mintDebt(c, a, u, amount) /\ UNCHANGED <<credit, locks, price>>
      /\ healthFactorAfterDecrease(c, u, a, 0, amount) >= BASE
  BY DEF Borrow
<1>3. PICK b \in Nat, n \in Nat, k \in Nat, x \in Nat :
        /\ b = totalBorrowsInUsd(c, u) /\ n = totalBorrowsInUsd(c, u)'
        /\ k = totalCollateral(c, u) /\ x = amountInUsd(c, a, amount)
  BY <1>1, <1>2, HealthIsNat, BorrowsAfter, UsdOf
<1>4. n <= b + x + 1
  BY <1>1, <1>2, <1>3, BorrowsAfter
<1>5. totalCollateral(c, u)' = k
  BY <1>2, <1>3, CollateralUnchanged
<1>6. Ratio(k, b + x) >= BASE
  <2>1. amountInUsd(c, a, 0) = 0 /\ k - 0 = k
    BY <1>1, UsdOf
  <2> QED BY <1>2, <1>3, <2>1 DEF healthFactorAfterDecrease
<1>7. BASE * (b + x) <= k
  <2>1. CASE b + x = 0
    <3>1. BASE * 0 = 0
      BY PoolAssumption
    <3> QED BY <2>1, <3>1
  <2>2. CASE b + x > 0
    <3>1. PICK q \in Nat : q = k \div (b + x) /\ (b + x) * q <= k
      BY <2>2, DivBounds
    <3>2. q >= BASE
      BY <1>6, <2>2, <3>1 DEF Ratio
    <3>3. (b + x) * BASE <= (b + x) * q /\ (b + x) * BASE = BASE * (b + x)
      BY <3>2, PoolAssumption, ProductMonotone
    <3>4. (b + x) * BASE \in Nat /\ (b + x) * q \in Nat
      BY PoolAssumption
    <3> QED BY <3>1, <3>3, <3>4
  <2> QED BY <2>1, <2>2
<1>8. BASE * (n - 1) <= BASE * (b + x) /\ BASE * (n - 1) \in Int /\ BASE * (b + x) \in Int
  BY <1>4, PoolAssumption, ProductMonotone
<1> QED BY <1>3, <1>5, <1>7, <1>8

\* No transaction but borrow raises a debt.
DebtsKept == \A q \in Reserves, w \in Users : ~ (debt'[q][w] > debt[q][w])

\* repay and a liquidation lower one debt.
LEMMA BurnDebtKeeps ==
  ASSUME NEW c \in Chains, NEW a \in Assets, NEW u \in Users, NEW amount \in Nat,
         DebtType, burnDebt(c, a, u, amount)
  PROVE  DebtsKept
<1>1. PICK n \in Int : n = debt[<<c, a>>][u] - amount
  BY ReserveOf DEF DebtType
<1>2. debt' = [debt EXCEPT ![<<c, a>>][u] = n]
  BY <1>1 DEF burnDebt
<1> SUFFICES ASSUME NEW q \in Reserves, NEW w \in Users PROVE ~ (debt'[q][w] > debt[q][w])
  BY DEF DebtsKept
<1>3. debt'[q][w] = IF q = <<c, a>> /\ w = u THEN n ELSE debt[q][w]
  BY <1>2 DEF DebtType
<1>4. debt[q][w] \in Nat
  BY DEF DebtType
<1> QED BY <1>1, <1>3, <1>4

\* The other transactions touch no debt.
LEMMA SameDebtKeeps ==
  ASSUME DebtType, debt' = debt
  PROVE  DebtsKept
<1>1. \A q \in Reserves, w \in Users : debt[q][w] \in Nat
  BY DEF DebtType
<1> QED BY <1>1 DEF DebtsKept

\* A loan is made.
SomeBorrow == \E c \in Chains, a \in Assets, u \in Users : \E amount \in Amounts[a] : Borrow(c, a, u, amount)

\* Every step is a loan or raises no debt.
LEMMA StepBorrows ==
  ASSUME PoolInv, [PoolNext]_poolVars
  PROVE  SomeBorrow \/ DebtsKept
<1>1. DebtType /\ FundsType /\ LocksType /\ PriceType
  BY DEF PoolInv
<1>2. CASE debt' = debt
  BY <1>1, <1>2, SameDebtKeeps
<1>3. CASE UserSteps
  <2>1. PICK c \in Chains, a \in Assets, u \in Users :
          \/ \E amount \in Amounts[a] : UserStep(c, a, u, amount)
          \/ \E amount \in LockAmounts[a], id \in ChainIds :
               \/ <<c, id>> \in Routes /\ LockFor(c, a, u, amount, id)
               \/ UnLockFor(c, a, u, amount, id)
          \/ \E dbt \in Assets, v \in Users : \E toCover \in Amounts[dbt] :
               LiquidationCall(c, a, dbt, u, toCover, v)
    BY <1>3 DEF UserSteps
  <2>2. CASE \E amount \in Amounts[a] : UserStep(c, a, u, amount)
    <3>1. PICK amount \in Amounts[a] : UserStep(c, a, u, amount)
      BY <2>2
    <3>2. CASE Borrow(c, a, u, amount)
      BY <3>2 DEF SomeBorrow
    <3>3. CASE Repay(c, a, u, amount)
      <4>1. burnDebt(c, a, u, amount) /\ amount \in Nat
        BY <3>3, AmountsAreNat DEF Repay
      <4> QED BY <1>1, <4>1, BurnDebtKeeps
    <3>4. CASE debt' = debt
      BY <1>2, <3>4
    <3> QED BY <3>1, <3>2, <3>3, <3>4 DEF UserStep, Mint, Donate, Deposit, Withdraw, Transfer
  <2>3. CASE \E amount \in LockAmounts[a], id \in ChainIds :
               \/ <<c, id>> \in Routes /\ LockFor(c, a, u, amount, id)
               \/ UnLockFor(c, a, u, amount, id)
    BY <1>2, <2>3 DEF LockFor, UnLockFor
  <2>4. CASE \E dbt \in Assets, v \in Users : \E toCover \in Amounts[dbt] :
               LiquidationCall(c, a, dbt, u, toCover, v)
    <3>1. PICK dbt \in Assets, v \in Users : \E toCover \in Amounts[dbt] :
            LiquidationCall(c, a, dbt, u, toCover, v)
      BY <2>4
    <3>2. PICK toCover \in Amounts[dbt] : LiquidationCall(c, a, dbt, u, toCover, v)
      BY <3>1
    <3>3. toCover \in Nat
      BY AmountsAreNat
    <3>4. /\ ActualDebtToLiquidate(c, a, dbt, u, toCover).debt \in Nat
          /\ burnDebt(c, dbt, u, ActualDebtToLiquidate(c, a, dbt, u, toCover).debt)
      BY <1>1, <3>2, <3>3, ActualDebtBound DEF LiquidationCall
    <3> QED BY <1>1, <3>4, BurnDebtKeeps
  <2> QED BY <2>1, <2>2, <2>3, <2>4
<1>4. CASE PriceSteps
  BY <1>2, <1>4 DEF PriceSteps, SetPrice
<1>5. CASE RelayedCalls
  <2>1. debt' = debt
    BY <1>5 DEF RelayedCalls, OnLockCreated, UnlockAssetOf
  <2> QED BY <1>2, <2>1
<1>6. CASE UNCHANGED poolVars
  BY <1>2, <1>6 DEF poolVars
<1> QED BY <1>3, <1>4, <1>5, <1>6 DEF PoolNext

\* A loan that borrow accepts leaves the account healthy but for one unit of
\* account, which its two roundings may hide: for any number of assets and prices.
THEOREM PoolBorrowKeepsHealthy == PoolSpec => BorrowKeepsHealthy
<1> DEFINE Step == \A c \in Chains, u \in Users :
                     (\E a \in Assets : debt'[<<c, a>>][u] > debt[<<c, a>>][u]) =>
                       BASE * (totalBorrowsInUsd(c, u)' - 1) <= totalCollateral(c, u)'
<1>1. PoolInv /\ [PoolNext]_poolVars => [Step]_poolVars
  <2> SUFFICES ASSUME PoolInv, [PoolNext]_poolVars, NEW c \in Chains, NEW u \in Users, NEW a \in Assets,
                      debt'[<<c, a>>][u] > debt[<<c, a>>][u]
               PROVE  BASE * (totalBorrowsInUsd(c, u)' - 1) <= totalCollateral(c, u)'
    OBVIOUS
  <2>1. ~ DebtsKept
    BY ReserveOf DEF DebtsKept
  <2>2. PICK d \in Chains, b \in Assets, w \in Users : \E amount \in Amounts[b] : Borrow(d, b, w, amount)
    BY <2>1, StepBorrows DEF SomeBorrow
  <2>3. PICK amount \in Amounts[b] : Borrow(d, b, w, amount)
    BY <2>2
  <2>4. amount \in Nat
    BY AmountsAreNat
  <2>5. c = d /\ u = w
    <3>1. debt \in [Reserves -> [Users -> Nat]] /\ <<c, a>> \in Reserves
      BY ReserveOf DEF PoolInv, DebtType
    <3>2. debt' = [debt EXCEPT ![<<d, b>>][w] = debt[<<d, b>>][w] + amount]
      BY <2>3 DEF Borrow, mintDebt
    <3>3. ~ (debt[<<c, a>>][u] > debt[<<c, a>>][u])
      BY <3>1
    <3>4. CASE ~ (c = d /\ u = w)
      <4>1. debt'[<<c, a>>][u] = debt[<<c, a>>][u]
        BY <3>1, <3>2, <3>4
      <4> QED BY <3>3, <4>1
    <3> QED BY <3>4
  <2> QED BY <2>3, <2>4, <2>5, BorrowHealthy
<1> QED BY <1>1, PoolInvariant, PTL DEF PoolSpec, BorrowKeepsHealthy

-----------------------------------------------------------------------------
(* What a liquidation takes from the other chains.                         *)

\* The loop takes in all what it is asked for, if the counters hold as much.
LEMMA TakenTotal ==
  ASSUME NEW c \in Chains, NEW a \in Assets, NEW u \in Users, NEW amount \in Nat,
         LocksType, LocksListed, amount <= receivedAmountOf(c, a, u)
  PROVE  SumFunction(TakenFromOtherChains(c, a, u, amount)) = amount
<1>1. PICK ids, row, taken : /\ ids = knownChainIds[<<c, a>>] /\ row = lockedFrom[<<c, a>>][u]
                            /\ taken = TakenFromOtherChains(c, a, u, amount)
  OBVIOUS
<1>2. ids \in Seq(ChainIds) /\ row \in [ChainIds -> Nat] /\ IsInjective(ids)
  BY <1>1, ReserveOf DEF LocksType, LocksListed
<1>3. PICK n \in Nat : n = Len(ids)
  BY <1>2
<1>4. DOMAIN ids = 1..n /\ \A i \in 1..n : ids[i] \in ChainIds
  BY <1>2, <1>3
<1>5. \A i, j \in 1..n : ids[i] = ids[j] => i = j
  BY <1>2, <1>4 DEF IsInjective
<1> DEFINE f == [j \in 1..n |-> row[ids[j]]]
           t == [j \in 1..n |-> taken[ids[j]]]
<1>6. \A i \in 1..n : f[i] \in Nat /\ f[i] = row[ids[i]] /\ t[i] = taken[ids[i]]
  BY <1>2, <1>4
<1>7. \A i \in 1..n : LET before == SumFunctionOnSet(f, 1..(i - 1)) IN
        t[i] = IF amount <= before THEN 0
               ELSE IF f[i] <= amount - before THEN f[i] ELSE amount - before
  <2> TAKE i \in 1..n
  <2>1. Contains(ids, ids[i])
    BY <1>4 DEF Contains
  <2>2. (CHOOSE k \in DOMAIN ids : ids[k] = ids[i]) = i
    BY <1>4, <1>5
  <2>3. PICK before \in Nat : before = SumFunctionOnSet(f, 1..(i - 1))
    <3>1. IsFiniteSet(1..(i - 1)) /\ \A j \in 1..(i - 1) : f[j] \in Nat
      <4>1. IsFiniteSet(1..(i - 1))
        BY FS_Interval
      <4> QED BY <1>6, <4>1
    <3> HIDE DEF f
    <3> QED BY <3>1, SumIsNat
  <2>4. taken[ids[i]] = Min({row[ids[i]], Max({0, amount - before})})
    <3>1. taken[ids[i]] = TakenFrom(c, a, u, amount, ids[i])
      BY <1>1, <1>4 DEF TakenFromOtherChains
    <3>2. [j \in DOMAIN ids |-> row[ids[j]]] = f
      BY <1>4
    <3> HIDE DEF f
    <3> QED BY <1>1, <2>1, <2>2, <2>3, <3>1, <3>2 DEF TakenFrom
  <2>5. row[ids[i]] \in Nat /\ amount - before \in Int
    BY <1>2, <1>4
  <2>6. Max({0, amount - before}) = IF 0 >= amount - before THEN 0 ELSE amount - before
    BY <2>5, MaxOf
  <2>7. PICK left \in Int : left = Max({0, amount - before})
    BY <2>5, <2>6
  <2>8. taken[ids[i]] = IF row[ids[i]] <= left THEN row[ids[i]] ELSE left
    <3>1. taken[ids[i]] = Min({row[ids[i]], left})
      BY <2>4, <2>7
    <3> QED BY <2>5, <3>1, MinOf
  <2>9. t[i] = IF amount <= before THEN 0
               ELSE IF row[ids[i]] <= amount - before THEN row[ids[i]] ELSE amount - before
    BY <1>6, <2>5, <2>6, <2>7, <2>8
  <2> HIDE DEF f, t
  <2> QED BY <1>6, <2>3, <2>9
<1>8. \A i \in 1..n : t[i] \in Nat
  <2>1. \A id \in ChainIds : taken[id] \in 0..row[id]
    BY <1>1, TakenBound DEF TakenFromOtherChains
  <2> QED BY <1>2, <1>4, <1>6, <2>1
<1>9. PICK V : V = ToSet(ids)
  OBVIOUS
<1>10. V \subseteq ChainIds /\ IsFiniteSet(V) /\ (\A i \in 1..n : ids[i] \in V) /\ \A x \in V : \E i \in 1..n : ids[i] = x
  <2>1. (\A i \in 1..n : ids[i] \in V) /\ \A x \in V : \E i \in 1..n : ids[i] = x
    BY <1>4, <1>9 DEF ToSet
  <2>2. V \subseteq ChainIds
    BY <1>4, <2>1
  <2> QED BY <2>1, <2>2, TokenAssumption, FS_Subset
<1>11. IsFiniteSet(1..n)
  BY FS_Interval
<1> HIDE DEF f, t
<1>12. SumFunctionOnSet(f, 1..n) = SumFunctionOnSet(row, V)
  <2>1. PICK I : I = 1..n
    OBVIOUS
  <2>2. /\ IsFiniteSet(I) /\ IsFiniteSet(V)
        /\ \A i \in I : ids[i] \in V
        /\ \A x \in V : \E i \in I : ids[i] = x
        /\ \A i, j \in I : ids[i] = ids[j] => i = j
    BY <1>5, <1>10, <1>11, <2>1
  <2>3. \A i \in I : f[i] = row[ids[i]] /\ f[i] \in Nat
    BY <1>6, <2>1
  <2>4. SumFunctionOnSet(f, I) = SumFunctionOnSet(row, V)
    BY <2>2, <2>3, SumRenamed
  <2> QED BY <2>1, <2>4
<1>13. SumFunctionOnSet(t, 1..n) = SumFunctionOnSet(taken, V)
  <2>1. PICK I : I = 1..n
    OBVIOUS
  <2>2. /\ IsFiniteSet(I) /\ IsFiniteSet(V)
        /\ \A i \in I : ids[i] \in V
        /\ \A x \in V : \E i \in I : ids[i] = x
        /\ \A i, j \in I : ids[i] = ids[j] => i = j
    BY <1>5, <1>10, <1>11, <2>1
  <2>3. \A i \in I : t[i] = taken[ids[i]] /\ t[i] \in Nat
    BY <1>6, <1>8, <2>1
  <2>4. SumFunctionOnSet(t, I) = SumFunctionOnSet(taken, V)
    BY <2>2, <2>3, SumRenamed
  <2> QED BY <2>1, <2>4
<1>14. PICK total \in Nat : total = SumFunctionOnSet(f, 1..n) /\ amount <= total
  <2>1. SumFunctionOnSet(f, 1..n) \in Nat
    BY <1>6, <1>11, SumIsNat
  <2>2. receivedAmountOf(c, a, u) = SumFunctionOnSet(f, 1..n)
    BY <1>1, <1>9, <1>12 DEF receivedAmountOf
  <2> QED BY <2>1, <2>2
<1>15. SumFunctionOnSet(t, 1..n) = amount
  <2>1. SumFunctionOnSet(t, 1..n) = IF amount <= SumFunctionOnSet(f, 1..n)
                                    THEN amount ELSE SumFunctionOnSet(f, 1..n)
    BY <1>6, <1>7, RunningTake
  <2> QED BY <1>14, <2>1
<1>16. SumFunctionOnSet(taken, ToSet(ids)) = SumFunctionOnSet(taken, ChainIds)
  <2>1. ToSet(ids) \subseteq ChainIds
    BY <1>4 DEF ToSet
  <2>2. \A id \in ChainIds : taken[id] \in Nat
    <3>1. \A id \in ChainIds : taken[id] \in 0..row[id]
      BY <1>1, TakenBound DEF TakenFromOtherChains
    <3> QED BY <1>2, <3>1
  <2>3. \A id \in ChainIds \ ToSet(ids) : taken[id] = 0
    <3> TAKE id \in ChainIds \ ToSet(ids)
    <3>1. ~ Contains(ids, id)
      BY DEF Contains, ToSet
    <3> QED BY <1>1, <3>1 DEF TakenFromOtherChains, TakenFrom
  <2> QED BY <2>1, <2>2, <2>3, TokenAssumption, SumOfNonzero
<1>17. DOMAIN taken = ChainIds
  BY <1>1 DEF TakenFromOtherChains
<1> QED BY <1>1, <1>9, <1>13, <1>15, <1>16, <1>17 DEF SumFunction

-----------------------------------------------------------------------------
(* What a liquidation pays and what it seizes.                             *)

\* The two divisions round in favour of the account, but for one unit of debt.
LEMMA FairAmounts ==
  ASSUME NEW p \in Nat, NEW q \in Nat, NEW v \in Nat, NEW w \in Nat, p > 0, q > 0, v > 0, w > 0,
         NEW capped \in Nat, NEW balance \in Nat, NEW worth \in Nat, NEW needed \in Nat,
         worth = (q * capped * v) \div (p * w), needed = (p * balance * w) \div (q * v)
  PROVE  /\ p * worth * w <= q * (capped + 1) * v
         /\ worth > balance => p * balance * w <= q * (capped + 1) * v
         /\ p * balance * w <= q * (needed + 1) * v
<1>1. PICK d \in Nat, e \in Nat, x \in Nat, y \in Nat :
        /\ d = p * w /\ d > 0 /\ e = q * v /\ e > 0 /\ x = q * capped * v /\ y = p * balance * w
  BY ProductIsNat
<1>2. worth = x \div d /\ needed = y \div e
  BY <1>1
<1>3. d * worth <= x /\ y < e * (needed + 1)
  BY <1>1, <1>2, DivBounds
<1>4. p * worth * w = d * worth /\ q * (needed + 1) * v = e * (needed + 1) /\ y = d * balance
  BY <1>1
<1>5. q * (capped + 1) * v = x + e
  BY <1>1
<1>6. ASSUME worth > balance
      PROVE  d * balance <= d * worth
  BY <1>1, <1>6, ProductMonotone
<1>7. d * worth \in Nat /\ d * balance \in Nat /\ e * (needed + 1) \in Nat
  OBVIOUS
<1> QED BY <1>1, <1>3, <1>4, <1>5, <1>6, <1>7

\* What is charged for the collateral, and that there is as much of it.
LEMMA ActualDebtIsFair ==
  ASSUME NEW c \in Chains, NEW coll \in Assets, NEW dbt \in Assets, NEW u \in Users,
         NEW toCover \in Nat, FundsType, LocksType, DebtType, PriceType
  PROVE  LET act == ActualDebtToLiquidate(c, coll, dbt, u, toCover)
         IN  /\ act.collateral <= collateralAmountOf(c, coll, u)
             /\ priceOf(c, coll) * act.collateral * Unit[dbt]
                  <= priceOf(c, dbt) * (act.debt + 1) * Unit[coll]
<1>1. PICK p \in Nat, q \in Nat, v \in Nat, w \in Nat :
        /\ p = priceOf(c, coll) /\ q = priceOf(c, dbt) /\ v = Unit[coll] /\ w = Unit[dbt]
        /\ p > 0 /\ q > 0 /\ v > 0 /\ w > 0
  BY PriceOfIsPositive, PoolAssumption
<1>2. PICK capped \in Nat : capped = Min({toCover, debt[<<c, dbt>>][u] \div 2})
  <2>1. PICK half \in Nat : half = debt[<<c, dbt>>][u] \div 2
    BY ReserveOf, QuotientIsNat DEF DebtType
  <2> QED BY <2>1, MinOf
<1>3. PICK balance \in Nat : balance = collateralAmountOf(c, coll, u)
  BY UnlockedBalance
<1>4. PICK worth \in Nat, needed \in Nat :
        worth = (q * capped * v) \div (p * w) /\ needed = (p * balance * w) \div (q * v)
  BY <1>1, ConversionIsNat
<1>5. PICK act : act = ActualDebtToLiquidate(c, coll, dbt, u, toCover)
  OBVIOUS
<1>6. AvailableCollateral(c, coll, dbt, capped, balance)
        = IF worth > balance THEN [collateral |-> balance, debt |-> needed]
                             ELSE [collateral |-> worth, debt |-> capped]
  BY <1>1, <1>4 DEF AvailableCollateral
<1>7. act = [collateral |-> AvailableCollateral(c, coll, dbt, capped, balance).collateral,
             debt |-> Min({AvailableCollateral(c, coll, dbt, capped, balance).debt, capped})]
  BY <1>2, <1>3, <1>5 DEF ActualDebtToLiquidate
<1>8. /\ p * worth * w <= q * (capped + 1) * v
      /\ worth > balance => p * balance * w <= q * (capped + 1) * v
      /\ p * balance * w <= q * (needed + 1) * v
  BY <1>1, <1>4, FairAmounts
<1>9. act.collateral <= balance /\ p * act.collateral * w <= q * (act.debt + 1) * v
  <2>1. CASE worth > balance
    <3>1. act.collateral = balance /\ act.debt = Min({needed, capped})
      BY <1>6, <1>7, <2>1
    <3>2. act.debt = needed \/ act.debt = capped
      BY <3>1, MinOf
    <3> QED BY <1>8, <2>1, <3>1, <3>2
  <2>2. CASE ~ (worth > balance)
    <3>1. act.collateral = worth /\ act.debt = Min({capped, capped})
      BY <1>6, <1>7, <2>2
    <3>2. act.debt = capped
      BY <3>1, MinOf
    <3> QED BY <1>8, <2>2, <3>1, <3>2
  <2> QED BY <2>1, <2>2
<1> QED BY <1>1, <1>3, <1>5, <1>9

\* A liquidation, in numbers: the debt falls by what is paid, and what is burnt
\* here and taken elsewhere make up the collateral.
LiquidationMoves(c, coll, dbt, u, v, act) ==
  /\ debt[<<c, dbt>>][u] - debt'[<<c, dbt>>][u] = act.debt
  /\ \E burnt \in Nat, taken \in [ChainIds -> Nat] :
       /\ credit[<<c, coll>>][u] - credit'[<<c, coll>>][u] = burnt
       /\ \A id \in ChainIds :
            lockedFrom[<<c, coll>>][u][id] - lockedFrom'[<<c, coll>>][u][id] = taken[id]
       /\ burnt + SumFunction(taken) = act.collateral
       /\ receipt' = {LockReleased(c, coll, u, taken[id], id, v) : id \in {d \in ChainIds : taken[d] > 0}}

\* It moves what _actualDebtToLiquidate says, neither less nor more.
LEMMA LiquidationAmounts ==
  ASSUME NEW c \in Chains, NEW coll \in Assets, NEW dbt \in Assets, NEW u \in Users,
         NEW toCover \in Nat, NEW v \in Users,
         PoolInv, LiquidationCall(c, coll, dbt, u, toCover, v)
  PROVE  LiquidationMoves(c, coll, dbt, u, v, ActualDebtToLiquidate(c, coll, dbt, u, toCover))
<1> DEFINE act == ActualDebtToLiquidate(c, coll, dbt, u, toCover)
<1>1. FundsType /\ LocksType /\ LocksListed /\ DebtType /\ PriceType
  BY DEF PoolInv
<1>2. PICK free \in Nat, received \in Nat, cut \in Nat, paid \in Nat :
        /\ free = unlockedBalanceOf(c, coll, u) /\ received = receivedAmountOf(c, coll, u)
        /\ cut = act.collateral /\ paid = act.debt /\ free <= credit[<<c, coll>>][u]
  <2>1. unlockedBalanceOf(c, coll, u) \in 0..credit[<<c, coll>>][u] /\ receivedAmountOf(c, coll, u) \in Nat
    BY <1>1, UnlockedBalance
  <2>2. credit[<<c, coll>>][u] \in Nat
    BY <1>1, BalancesAreNat
  <2>3. act.collateral \in Nat /\ act.debt \in Nat
    BY <1>1, ActualDebtBound
  <2> HIDE DEF act
  <2> QED BY <2>1, <2>2, <2>3
<1>3. cut <= free + received
  BY <1>1, <1>2, ActualDebtIsFair DEF collateralAmountOf
<1>4. PICK burnt \in Nat : burnt = Min({free, cut}) /\ burnt <= free /\ burnt <= cut /\ cut - burnt <= received
  BY <1>3, MinOf
<1>5. PICK left \in Nat : left = cut - burnt /\ left <= received
  BY <1>4
<1>6. PICK taken \in [ChainIds -> Nat] : taken = TakenFromOtherChains(c, coll, u, left)
  <2>1. \A id \in ChainIds : TakenFrom(c, coll, u, left, id) \in 0..lockedFrom[<<c, coll>>][u][id]
    BY <1>1, TakenBound
  <2>2. \A id \in ChainIds : TakenFrom(c, coll, u, left, id) \in Nat
    BY <1>1, <2>1, CountersAreNat
  <2> QED BY <2>2 DEF TakenFromOtherChains
<1>7. SumFunction(taken) = left
  BY <1>1, <1>2, <1>5, <1>6, TakenTotal
<1>8. /\ burnDebt(c, dbt, u, act.debt)
      /\ credit' = [credit EXCEPT ![<<c, coll>>][u] = credit[<<c, coll>>][u] - burnt]
      /\ lockedFrom' = [lockedFrom EXCEPT ![<<c, coll>>][u] =
                          [id \in ChainIds |-> lockedFrom[<<c, coll>>][u][id] - taken[id]]]
      /\ receipt' = {LockReleased(c, coll, u, taken[id], id, v) : id \in {d \in ChainIds : taken[d] > 0}}
  <2>1. burnt = Min({unlockedBalanceOf(c, coll, u), act.collateral})
    BY <1>2, <1>4
  <2>2. taken = TakenFromOtherChains(c, coll, u, act.collateral - burnt)
    BY <1>2, <1>5, <1>6
  <2> HIDE DEF act
  <2> QED BY <2>1, <2>2, Zenon DEF LiquidationCall, act
<1>9. credit[<<c, coll>>][u] - credit'[<<c, coll>>][u] = burnt
  <2>1. PICK n \in Int : n = credit[<<c, coll>>][u] - burnt /\ credit[<<c, coll>>][u] - n = burnt
    BY <1>1, BalancesAreNat
  <2>2. credit'[<<c, coll>>][u] = n
    BY <1>1, <1>8, <2>1, ReserveOf DEF FundsType
  <2> QED BY <2>1, <2>2
<1>10. \A id \in ChainIds : lockedFrom[<<c, coll>>][u][id] - lockedFrom'[<<c, coll>>][u][id] = taken[id]
  <2> TAKE id \in ChainIds
  <2>1. lockedFrom'[<<c, coll>>][u] = [k \in ChainIds |-> lockedFrom[<<c, coll>>][u][k] - taken[k]]
    BY <1>1, <1>8, ReserveOf DEF LocksType
  <2>2. lockedFrom[<<c, coll>>][u][id] \in Nat /\ taken[id] \in Nat
    BY <1>1, CountersAreNat
  <2> QED BY <2>1, <2>2
<1>11. debt[<<c, dbt>>][u] - debt'[<<c, dbt>>][u] = act.debt
  <2>1. debt' = [debt EXCEPT ![<<c, dbt>>][u] = debt[<<c, dbt>>][u] - paid]
    BY <1>2, <1>8 DEF burnDebt
  <2>2. PICK n \in Int : n = debt[<<c, dbt>>][u] - paid /\ debt[<<c, dbt>>][u] - n = paid
    BY <1>1, ReserveOf DEF DebtType
  <2>3. debt'[<<c, dbt>>][u] = n
    BY <1>1, <2>1, <2>2, ReserveOf DEF DebtType
  <2> QED BY <1>2, <2>2, <2>3
<1>12. burnt + SumFunction(taken) = act.collateral
  BY <1>2, <1>4, <1>5, <1>7
<1> HIDE DEF act
<1>13. LiquidationMoves(c, coll, dbt, u, v, act)
  BY <1>8, <1>9, <1>10, <1>11, <1>12 DEF LiquidationMoves
<1> QED BY <1>13 DEF act

\* What is seized is the collateral the liquidator is charged for.
LEMMA SeizedIs ==
  ASSUME NEW c \in Chains, NEW coll \in Assets, NEW dbt \in Assets, NEW u \in Users,
         NEW toCover \in Nat, NEW v \in Users,
         PoolInv, LiquidationCall(c, coll, dbt, u, toCover, v)
  PROVE  Seized(c, coll, u) = ActualDebtToLiquidate(c, coll, dbt, u, toCover).collateral
<1>1. PICK act : act = ActualDebtToLiquidate(c, coll, dbt, u, toCover)
  OBVIOUS
<1>2. LiquidationMoves(c, coll, dbt, u, v, act)
  BY <1>1, LiquidationAmounts
<1>3. PICK burnt \in Nat, taken \in [ChainIds -> Nat] :
        /\ credit[<<c, coll>>][u] - credit'[<<c, coll>>][u] = burnt
        /\ \A id \in ChainIds :
             lockedFrom[<<c, coll>>][u][id] - lockedFrom'[<<c, coll>>][u][id] = taken[id]
        /\ burnt + SumFunction(taken) = act.collateral
  BY <1>2 DEF LiquidationMoves
<1>4. [id \in ChainIds |-> lockedFrom[<<c, coll>>][u][id] - lockedFrom'[<<c, coll>>][u][id]] = taken
  BY <1>3
<1> QED BY <1>1, <1>3, <1>4 DEF Seized

\* The events of a liquidation that name a chain carry what was taken from it.
LEMMA AnnouncedIs ==
  ASSUME NEW c \in Chains, NEW a \in Assets, NEW u \in Users, NEW v \in Users,
         NEW taken \in [ChainIds -> Nat], NEW d \in ChainIds,
         receipt' = {LockReleased(c, a, u, taken[id], id, v) : id \in {x \in ChainIds : taken[x] > 0}}
  PROVE  Announced(c, a, u, d)' = taken[d]
<1>1. PICK n \in Nat : n = taken[d]
  OBVIOUS
<1>2. PICK e : e = LockReleased(c, a, u, n, d, v)
  OBVIOUS
<1>3. PICK events : events = {x \in receipt' : /\ x.event = "LockReleased" /\ x.account = u
                                               /\ x.asset = a /\ x.emitter = c /\ x.peer = d}
  OBVIOUS
<1>4. PICK f : f = [x \in events |-> x.amount]
  OBVIOUS
<1>5. Announced(c, a, u, d)' = SumFunctionOnSet(f, events)
  <2>1. DOMAIN f = events
    BY <1>4
  <2> QED BY <1>3, <1>4, <2>1 DEF Announced, SumFunction
<1>6. events = IF n > 0 THEN {e} ELSE {}
  <2>1. \A x \in events : n > 0 /\ x = e
    <3> TAKE x \in events
    <3>1. PICK id \in ChainIds : taken[id] > 0 /\ x = LockReleased(c, a, u, taken[id], id, v)
      BY <1>3
    <3>2. x.peer = id
      BY <3>1 DEF LockReleased
    <3> QED BY <1>1, <1>2, <1>3, <3>1, <3>2
  <2>2. n > 0 => e \in events
    <3> SUFFICES ASSUME n > 0 PROVE e \in events
      OBVIOUS
    <3>1. e \in receipt'
      BY <1>1, <1>2
    <3>2. e.event = "LockReleased" /\ e.account = u /\ e.asset = a /\ e.emitter = c /\ e.peer = d
      BY <1>2 DEF LockReleased
    <3> QED BY <1>3, <3>1, <3>2
  <2> QED BY <2>1, <2>2
<1>7. e.amount = n
  BY <1>2 DEF LockReleased
<1>8. CASE n > 0
  <2>1. events = {e} /\ f[e] = n
    BY <1>4, <1>6, <1>7, <1>8
  <2>2. SumFunctionOnSet(f, {e}) = n
    BY <2>1, SumOfOne
  <2> QED BY <1>1, <1>5, <2>1, <2>2
<1>9. CASE n = 0
  <2>1. events = {}
    BY <1>6, <1>9
  <2>2. SumFunctionOnSet(f, {}) = 0
    BY FS_EmptySet, SumUnfold
  <2> QED BY <1>1, <1>5, <1>9, <2>1, <2>2
<1> QED BY <1>8, <1>9

\* No liquidation seizes more than one unit of debt beyond what it repays is
\* worth: for any prices, decimals, balances and number of chains.
THEOREM PoolFairSeizure == PoolSpec => FairSeizure
<1> DEFINE Step == \A c \in Chains, u \in Users : GivesUp(c, u) /\ Liquidatable(c, u) =>
                     \A coll, dbt \in Assets, v \in Users : \A toCover \in Amounts[dbt] :
                       LiquidationCall(c, coll, dbt, u, toCover, v) =>
                         priceOf(c, coll) * Seized(c, coll, u) * Unit[dbt]
                           <= priceOf(c, dbt) * (debt[<<c, dbt>>][u] - debt'[<<c, dbt>>][u] + 1) * Unit[coll]
<1>1. PoolInv /\ [PoolNext]_poolVars => [Step]_poolVars
  <2> SUFFICES ASSUME PoolInv, NEW c \in Chains, NEW u \in Users, NEW coll \in Assets, NEW dbt \in Assets,
                      NEW v \in Users, NEW toCover \in Amounts[dbt],
                      LiquidationCall(c, coll, dbt, u, toCover, v)
               PROVE  priceOf(c, coll) * Seized(c, coll, u) * Unit[dbt]
                        <= priceOf(c, dbt) * (debt[<<c, dbt>>][u] - debt'[<<c, dbt>>][u] + 1) * Unit[coll]
    OBVIOUS
  <2>1. toCover \in Nat
    BY AmountsAreNat
  <2>2. PICK act : act = ActualDebtToLiquidate(c, coll, dbt, u, toCover)
    OBVIOUS
  <2>3. Seized(c, coll, u) = act.collateral
    BY <2>1, <2>2, SeizedIs
  <2>4. debt[<<c, dbt>>][u] - debt'[<<c, dbt>>][u] = act.debt
    <3>1. LiquidationMoves(c, coll, dbt, u, v, act)
      BY <2>1, <2>2, LiquidationAmounts
    <3> QED BY <3>1 DEF LiquidationMoves
  <2>5. priceOf(c, coll) * act.collateral * Unit[dbt] <= priceOf(c, dbt) * (act.debt + 1) * Unit[coll]
    BY <2>1, <2>2, ActualDebtIsFair DEF PoolInv
  <2> QED BY <2>3, <2>4, <2>5
<1> QED BY <1>1, PoolInvariant, PTL DEF PoolSpec, FairSeizure

\* The counters of a liquidation fall by what its events announce.
LEMMA LiquidationIsSettled ==
  ASSUME PoolInv, NEW c \in Chains, NEW u \in Users, NEW coll \in Assets, NEW dbt \in Assets,
         NEW v \in Users, NEW toCover \in Amounts[dbt], LiquidationCall(c, coll, dbt, u, toCover, v)
  PROVE  /\ Seized(c, coll, u) = ActualDebtToLiquidate(c, coll, dbt, u, toCover).collateral
         /\ \A d \in ChainIds :
              lockedFrom[<<c, coll>>][u][d] - lockedFrom'[<<c, coll>>][u][d] = Announced(c, coll, u, d)'
<1>1. toCover \in Nat
  BY AmountsAreNat
<1>2. Seized(c, coll, u) = ActualDebtToLiquidate(c, coll, dbt, u, toCover).collateral
  BY <1>1, SeizedIs
<1>3. PICK taken \in [ChainIds -> Nat] :
        /\ \A id \in ChainIds :
             lockedFrom[<<c, coll>>][u][id] - lockedFrom'[<<c, coll>>][u][id] = taken[id]
        /\ receipt' = {LockReleased(c, coll, u, taken[id], id, v) : id \in {x \in ChainIds : taken[x] > 0}}
  <2>1. PICK act : act = ActualDebtToLiquidate(c, coll, dbt, u, toCover)
    OBVIOUS
  <2>2. LiquidationMoves(c, coll, dbt, u, v, act)
    BY <1>1, <2>1, LiquidationAmounts
  <2> QED BY <2>2 DEF LiquidationMoves
<1>4. \A d \in ChainIds : Announced(c, coll, u, d)' = taken[d]
  BY <1>3, AnnouncedIs
<1> QED BY <1>2, <1>3, <1>4

\* Every liquidation pays out or announces exactly what it charges for, chain by
\* chain: for any number of chains and any order in which they became known.
THEOREM PoolLiquidationSettles == PoolSpec => LiquidationSettles
<1>1. PoolInv => [\A c \in Chains, u \in Users : GivesUp(c, u) /\ Liquidatable(c, u) =>
        \A coll, dbt \in Assets, v \in Users : \A toCover \in Amounts[dbt] :
          LiquidationCall(c, coll, dbt, u, toCover, v) =>
            /\ Seized(c, coll, u) = ActualDebtToLiquidate(c, coll, dbt, u, toCover).collateral
            /\ \A d \in ChainIds :
                 lockedFrom[<<c, coll>>][u][d] - lockedFrom'[<<c, coll>>][u][d]
                   = Announced(c, coll, u, d)']_poolVars
  BY LiquidationIsSettled
<1> QED BY <1>1, PoolInvariant, PTL DEF LiquidationSettles
=============================================================================
