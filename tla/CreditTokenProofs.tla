-------------------------- MODULE CreditTokenProofs --------------------------
(***************************************************************************)
(* Proofs about module CreditToken.  The first part says, of every call of *)
(* the contract, what it does to the types and to the totals: LendingPool- *)
(* Proofs cites it for the transactions made of these calls.  The last is  *)
(* about what a lock holds back: the views add up counters in loops over   *)
(* knownChainIds, the proofs need sums over all chains; where every chain  *)
(* with an amount is listed once, the two are the same (ViewsAreTotals).   *)
(***************************************************************************)
EXTENDS CreditToken, SumProofs

-----------------------------------------------------------------------------
(* Updates of functions of two and three arguments. *)

\* A table of tables after one entry is set: its type, its row, its other rows.
LEMMA Update2 ==
  ASSUME NEW I, NEW J, NEW f \in [I -> [J -> Nat]], NEW i \in I, NEW j \in J, NEW n \in Nat
  PROVE  /\ [f EXCEPT ![i][j] = n] \in [I -> [J -> Nat]]
         /\ [f EXCEPT ![i][j] = n][i] = [f[i] EXCEPT ![j] = n]
         /\ \A k \in I : k # i => [f EXCEPT ![i][j] = n][k] = f[k]
OBVIOUS

\* A table of tables keeps its type when an entry is set to a value of the type.
LEMMA UpdateIn ==
  ASSUME NEW I, NEW J, NEW T, NEW f \in [I -> [J -> T]], NEW i \in I, NEW j \in J, NEW n \in T
  PROVE  [f EXCEPT ![i][j] = n] \in [I -> [J -> T]]
OBVIOUS

\* The counters keep their type when one of them is set to a natural number.
LEMMA CountersUpdate ==
  ASSUME NEW f \in [Reserves -> [Users -> [ChainIds -> Nat]]],
         NEW c, NEW a, <<c, a>> \in Reserves, NEW u \in Users, NEW d \in ChainIds, NEW n \in Nat
  PROVE  [f EXCEPT ![<<c, a>>][u][d] = n] \in [Reserves -> [Users -> [ChainIds -> Nat]]]
OBVIOUS

\* A chain and an asset make a reserve.
LEMMA ReserveOf ==
  ASSUME NEW c \in Chains, NEW a \in Assets
  PROVE  <<c, a>> \in Reserves
BY DEF Reserves

-----------------------------------------------------------------------------
(* Types. *)

FundsType ==
  /\ wallet \in [Reserves -> [Users -> Nat]]
  /\ cash \in [Reserves -> Nat]
  /\ credit \in [Reserves -> [Users -> Nat]]

LocksType ==
  /\ lockedFor \in [Reserves -> [Users -> [ChainIds -> Nat]]]
  /\ lockedFrom \in [Reserves -> [Users -> [ChainIds -> Nat]]]
  /\ knownChainIds \in [Reserves -> Seq(ChainIds)]

\* The type invariant in two halves: calls that move funds leave the locks alone.
LEMMA TypeParts == TokenTypeOK <=> FundsType /\ LocksType
BY DEF TokenTypeOK, FundsType, LocksType

\* The amounts callers pass are natural numbers.
LEMMA AmountsAreNat ==
  ASSUME NEW a \in Assets
  PROVE  (\A amount \in Amounts[a] : amount \in Nat) /\ (\A amount \in LockAmounts[a] : amount \in Nat)
BY TokenAssumption

\* What the balances and counters of an account are.
LEMMA BalancesAreNat ==
  ASSUME NEW c \in Chains, NEW a \in Assets, NEW u \in Users, FundsType
  PROVE  wallet[<<c, a>>][u] \in Nat /\ cash[<<c, a>>] \in Nat /\ credit[<<c, a>>][u] \in Nat
BY ReserveOf DEF FundsType

\* What the counters of an account are.
LEMMA CountersAreNat ==
  ASSUME NEW c \in Chains, NEW a \in Assets, NEW u \in Users, NEW d \in ChainIds, LocksType
  PROVE  lockedFor[<<c, a>>][u][d] \in Nat /\ lockedFrom[<<c, a>>][u][d] \in Nat
BY ReserveOf DEF LocksType

\* The underlying token's calls keep the types.
LEMMA MintUnderlyingType ==
  ASSUME NEW c \in Chains, NEW a \in Assets, NEW u \in Users, NEW amount \in Nat,
         FundsType, MintUnderlying(c, a, u, amount)
  PROVE  /\ wallet' \in [Reserves -> [Users -> Nat]]
         /\ cash' \in [Reserves -> Nat]
<1>1. <<c, a>> \in Reserves /\ wallet[<<c, a>>][u] + amount \in Nat
  BY ReserveOf, BalancesAreNat
<1>2. QED
  BY <1>1, Update2 DEF FundsType, MintUnderlying

\* A payment into the reserve keeps the types of the balances.
LEMMA PayInType ==
  ASSUME NEW c \in Chains, NEW a \in Assets, NEW u \in Users, NEW amount \in Nat,
         FundsType, PayIn(c, a, u, amount)
  PROVE  /\ wallet' \in [Reserves -> [Users -> Nat]]
         /\ cash' \in [Reserves -> Nat]
<1>1. /\ <<c, a>> \in Reserves
      /\ wallet[<<c, a>>][u] - amount \in Nat /\ cash[<<c, a>>] + amount \in Nat
  BY ReserveOf, BalancesAreNat DEF PayIn
<1>2. QED
  BY <1>1, Update2 DEF FundsType, PayIn

\* A payment out of the reserve keeps the types of the balances.
LEMMA TransferUnderlyingToType ==
  ASSUME NEW c \in Chains, NEW a \in Assets, NEW u \in Users, NEW amount \in Nat,
         FundsType, transferUnderlyingTo(c, a, u, amount)
  PROVE  /\ wallet' \in [Reserves -> [Users -> Nat]]
         /\ cash' \in [Reserves -> Nat]
<1>1. /\ <<c, a>> \in Reserves
      /\ wallet[<<c, a>>][u] + amount \in Nat /\ cash[<<c, a>>] - amount \in Nat
  BY ReserveOf, BalancesAreNat DEF transferUnderlyingTo
<1>2. QED
  BY <1>1, Update2 DEF FundsType, transferUnderlyingTo

\* The calls that move credit keep its type.
LEMMA MintType ==
  ASSUME NEW c \in Chains, NEW a \in Assets, NEW u \in Users, NEW amount \in Nat,
         FundsType, mint(c, a, u, amount)
  PROVE  credit' \in [Reserves -> [Users -> Nat]]
<1>1. <<c, a>> \in Reserves /\ credit[<<c, a>>][u] + amount \in Nat
  BY ReserveOf, BalancesAreNat
<1>2. QED
  BY <1>1, Update2 DEF FundsType, mint

\* Burning credit keeps the types: its balance checks rule an underflow out.
LEMMA BurnType ==
  ASSUME NEW c \in Chains, NEW a \in Assets, NEW u \in Users, NEW v \in Users,
         NEW amount \in Nat, FundsType, burn(c, a, u, v, amount)
  PROVE  FundsType'
<1>1. <<c, a>> \in Reserves /\ credit[<<c, a>>][u] - amount \in Nat
  BY ReserveOf, BalancesAreNat DEF burn
<1>2. credit' \in [Reserves -> [Users -> Nat]]
  BY <1>1, Update2 DEF FundsType, burn
<1>3. transferUnderlyingTo(c, a, v, amount)
  BY DEF burn
<1>4. QED
  BY <1>2, <1>3, TransferUnderlyingToType DEF FundsType

\* What an account can spend is a natural number no larger than its balance.
LEMMA UnlockedBalance ==
  ASSUME NEW c \in Chains, NEW a \in Assets, NEW u \in Users, FundsType, LocksType
  PROVE  /\ lockedBalanceOf(c, a, u) \in Nat
         /\ receivedAmountOf(c, a, u) \in Nat
         /\ unlockedBalanceOf(c, a, u) \in 0..credit[<<c, a>>][u]
         /\ collateralAmountOf(c, a, u) \in Nat
<1> DEFINE ids == ToSet(knownChainIds[<<c, a>>])
<1>1. ids \subseteq ChainIds
  <2>1. knownChainIds[<<c, a>>] \in Seq(ChainIds)
    BY ReserveOf DEF LocksType
  <2>2. QED
    BY <2>1 DEF ToSet
<1>2. IsFiniteSet(ids)
  BY <1>1, TokenAssumption, FS_Subset
<1>3. \A d \in ids : lockedFor[<<c, a>>][u][d] \in Nat /\ lockedFrom[<<c, a>>][u][d] \in Nat
  BY <1>1, CountersAreNat
<1>4. lockedBalanceOf(c, a, u) \in Nat
  BY <1>2, <1>3, SumIsNat DEF lockedBalanceOf
<1>5. receivedAmountOf(c, a, u) \in Nat
  BY <1>2, <1>3, SumIsNat DEF receivedAmountOf
<1>6. unlockedBalanceOf(c, a, u) \in 0..credit[<<c, a>>][u]
  BY <1>4, <1>5, BalancesAreNat DEF unlockedBalanceOf
<1>7. QED
  BY <1>4, <1>5, <1>6, BalancesAreNat DEF collateralAmountOf

\* A transfer of credit keeps its type, also one to oneself.
LEMMA TransferType ==
  ASSUME NEW c \in Chains, NEW a \in Assets, NEW u \in Users, NEW v \in Users,
         NEW amount \in Nat, FundsType, LocksType, transfer(c, a, u, v, amount)
  PROVE  credit' \in [Reserves -> [Users -> Nat]]
<1> DEFINE less == [credit EXCEPT ![<<c, a>>][u] = @ - amount]
<1>1. <<c, a>> \in Reserves /\ credit[<<c, a>>][u] - amount \in Nat
  BY ReserveOf, UnlockedBalance, BalancesAreNat DEF transfer
<1>2. less \in [Reserves -> [Users -> Nat]]
  BY <1>1, Update2 DEF FundsType
<1> HIDE DEF less
<1>3. less[<<c, a>>][v] + amount \in Nat
  BY <1>1, <1>2
<1>4. [less EXCEPT ![<<c, a>>][v] = @ + amount] \in [Reserves -> [Users -> Nat]]
  BY <1>1, <1>2, <1>3, Update2
<1>5. QED
  BY <1>4 DEF transfer, moved, less

\* The calls that move locks keep their types.
LEMMA KnowChainIdType ==
  ASSUME NEW c \in Chains, NEW a \in Assets, NEW id \in ChainIds,
         LocksType, knowChainId(c, a, id)
  PROVE  knownChainIds' \in [Reserves -> Seq(ChainIds)]
<1> DEFINE ids == knownChainIds[<<c, a>>]
<1>1. <<c, a>> \in Reserves /\ ids \in Seq(ChainIds)
  BY ReserveOf DEF LocksType
<1>2. (IF Contains(ids, id) THEN ids ELSE Append(ids, id)) \in Seq(ChainIds)
  BY <1>1
<1>3. QED
  BY <1>1, <1>2 DEF LocksType, knowChainId

\* Locking keeps the types of the counters and of the list.
LEMMA LockForType ==
  ASSUME NEW c \in Chains, NEW a \in Assets, NEW u \in Users, NEW amount \in Nat,
         NEW d \in ChainIds, LocksType, lockFor(c, a, u, amount, d)
  PROVE  LocksType'
<1>1. <<c, a>> \in Reserves /\ lockedFor[<<c, a>>][u][d] + amount \in Nat
  BY ReserveOf, CountersAreNat
<1>2. lockedFor' \in [Reserves -> [Users -> [ChainIds -> Nat]]]
  BY <1>1, CountersUpdate DEF LocksType, lockFor
<1>3. knownChainIds' \in [Reserves -> Seq(ChainIds)]
  BY KnowChainIdType DEF lockFor
<1>4. QED
  BY <1>2, <1>3 DEF LocksType, lockFor

\* Unlocking does: the require on the counter rules an underflow out.
LEMMA UnlockForType ==
  ASSUME NEW c \in Chains, NEW a \in Assets, NEW u \in Users, NEW amount \in Nat,
         NEW s \in ChainIds, LocksType, unlockFor(c, a, u, amount, s)
  PROVE  LocksType'
<1>1. <<c, a>> \in Reserves /\ lockedFrom[<<c, a>>][u][s] - amount \in Nat
  BY ReserveOf, CountersAreNat DEF unlockFor
<1>2. lockedFrom' \in [Reserves -> [Users -> [ChainIds -> Nat]]]
  BY <1>1, CountersUpdate DEF LocksType, unlockFor
<1>3. QED
  BY <1>2 DEF LocksType, unlockFor

\* The report of a lock keeps the types of the counters and of the list.
LEMMA OnLockCreatedType ==
  ASSUME NEW c \in Chains, NEW a \in Assets, NEW u \in Users, NEW amount \in Nat,
         NEW s \in ChainIds, LocksType, onLockCreated(c, a, u, amount, s)
  PROVE  LocksType'
<1>1. <<c, a>> \in Reserves /\ lockedFrom[<<c, a>>][u][s] + amount \in Nat
  BY ReserveOf, CountersAreNat
<1>2. lockedFrom' \in [Reserves -> [Users -> [ChainIds -> Nat]]]
  BY <1>1, CountersUpdate DEF LocksType, onLockCreated
<1>3. knownChainIds' \in [Reserves -> Seq(ChainIds)]
  BY KnowChainIdType DEF onLockCreated
<1>4. QED
  BY <1>2, <1>3 DEF LocksType, onLockCreated

\* A relayed release keeps all types, in both of its branches.
LEMMA BurnLockedForType ==
  ASSUME NEW c \in Chains, NEW a \in Assets, NEW u \in Users, NEW v \in Users,
         NEW amount \in Nat, NEW id \in ChainIds,
         FundsType, LocksType, burnLockedFor(c, a, u, v, amount, id)
  PROVE  FundsType' /\ LocksType'
<1>1. <<c, a>> \in Reserves /\ lockedFor[<<c, a>>][u][id] - amount \in Nat
  BY ReserveOf, CountersAreNat DEF burnLockedFor, CanBurnLockedFor
<1>2. lockedFor' \in [Reserves -> [Users -> [ChainIds -> Nat]]]
  BY <1>1, CountersUpdate DEF LocksType, burnLockedFor
<1>3. LocksType'
  BY <1>2 DEF LocksType, burnLockedFor
<1>4. FundsType'
  <2>1. CASE u = v
    BY <2>1 DEF burnLockedFor, funds, FundsType
  <2>2. CASE u # v
    BY <2>2, BurnType DEF burnLockedFor
  <2>3. QED
    BY <2>1, <2>2
<1>5. QED
  BY <1>3, <1>4

-----------------------------------------------------------------------------
(* TokenTypeOK is inductive.                                               *)

\* The initial state has the type.
LEMMA TokenInitType == TokenInit => TokenTypeOK
BY DEF TokenInit, TokenTypeOK

\* Every step of the token keeps the type: one case per call.
LEMMA TokenStepType ==
  ASSUME TokenTypeOK, [TokenNext]_tokenVars
  PROVE  TokenTypeOK'
<1> USE DEF tokenVars, funds, locks
<1>1. FundsType /\ LocksType
  BY TypeParts
<1>2. SUFFICES FundsType' /\ LocksType'
  BY DEF FundsType, LocksType, TokenTypeOK
<1>3. CASE TokenMintUnderlying
  BY <1>1, <1>3, AmountsAreNat, MintUnderlyingType
     DEF TokenMintUnderlying, FundsType, LocksType
<1>4. CASE TokenDonate
  BY <1>1, <1>4, AmountsAreNat, PayInType DEF TokenDonate, FundsType, LocksType
<1>5. CASE TokenTransfer
  BY <1>1, <1>5, AmountsAreNat, TransferType DEF TokenTransfer, FundsType, LocksType
<1>6. CASE TokenMint
  BY <1>1, <1>6, AmountsAreNat, MintType DEF TokenMint, FundsType, LocksType
<1>7. CASE TokenBurn
  BY <1>1, <1>7, AmountsAreNat, BurnType DEF TokenBurn, LocksType
<1>8. CASE TokenTransferUnderlyingTo
  BY <1>1, <1>8, AmountsAreNat, TransferUnderlyingToType
     DEF TokenTransferUnderlyingTo, FundsType, LocksType
<1>9. CASE TokenLockFor
  BY <1>1, <1>9, AmountsAreNat, LockForType DEF TokenLockFor, FundsType
<1>10. CASE TokenUnlockFor
  BY <1>1, <1>10, AmountsAreNat, UnlockForType DEF TokenUnlockFor, FundsType
<1>11. CASE TokenOnLockCreated
  BY <1>1, <1>11, AmountsAreNat, OnLockCreatedType DEF TokenOnLockCreated, FundsType
<1>12. CASE TokenBurnLockedFor
  BY <1>1, <1>12, AmountsAreNat, BurnLockedForType DEF TokenBurnLockedFor
<1>13. CASE UNCHANGED tokenVars
  BY <1>1, <1>13 DEF FundsType, LocksType
<1>14. QED
  BY <1>3, <1>4, <1>5, <1>6, <1>7, <1>8, <1>9, <1>10, <1>11, <1>12, <1>13 DEF TokenNext

\* No call of the token, in any order, makes a balance or a counter negative.
THEOREM TokenTypeCorrect == TokenSpec => []TokenTypeOK
<1>1. TokenInit => TokenTypeOK
  BY TokenInitType
<1>2. TokenTypeOK /\ [TokenNext]_tokenVars => TokenTypeOK'
  BY TokenStepType
<1>3. QED
  BY <1>1, <1>2, PTL DEF TokenSpec

-----------------------------------------------------------------------------
(* LocksListed.                                                            *)

\* A new element at the end of a sequence without duplicates.
LEMMA AppendNew ==
  ASSUME NEW T, NEW s \in Seq(T), NEW e \in T, IsInjective(s), ~ Contains(s, e)
  PROVE  /\ IsInjective(Append(s, e))
         /\ Contains(Append(s, e), e)
         /\ \A d \in T : Contains(s, d) => Contains(Append(s, e), d)
<1>1. /\ Append(s, e) \in Seq(T) /\ Len(s) \in Nat
      /\ Len(Append(s, e)) = Len(s) + 1 /\ Append(s, e)[Len(s) + 1] = e
  OBVIOUS
<1>2. \A i \in 1..Len(s) : Append(s, e)[i] = s[i] /\ s[i] # e
  BY DEF Contains
<1>3. DOMAIN s = 1..Len(s) /\ DOMAIN Append(s, e) = 1..(Len(s) + 1)
  BY <1>1
<1>4. \A i \in 1..(Len(s) + 1) : i \in 1..Len(s) \/ i = Len(s) + 1
  BY <1>1
<1>5. \A i, j \in 1..(Len(s) + 1) : Append(s, e)[i] = Append(s, e)[j] => i = j
  <2> SUFFICES ASSUME NEW i \in 1..(Len(s) + 1), NEW j \in 1..(Len(s) + 1),
                      Append(s, e)[i] = Append(s, e)[j]
               PROVE  i = j
    OBVIOUS
  <2>1. CASE i \in 1..Len(s) /\ j \in 1..Len(s)
    BY <1>2, <1>3, <2>1 DEF IsInjective
  <2>2. CASE ~ (i \in 1..Len(s) /\ j \in 1..Len(s))
    BY <1>1, <1>2, <1>4, <2>2
  <2>3. QED
    BY <2>1, <2>2
<1>6. IsInjective(Append(s, e))
  BY <1>3, <1>5 DEF IsInjective
<1>7. Contains(Append(s, e), e)
  BY <1>1 DEF Contains
<1>8. \A d \in T : Contains(s, d) => Contains(Append(s, e), d)
  BY <1>1, <1>2 DEF Contains
<1>9. QED
  BY <1>6, <1>7, <1>8

\* knowChainId lists the id, once, and keeps what is listed.
LEMMA KnowChainIdLists ==
  ASSUME NEW c \in Chains, NEW a \in Assets, NEW id \in ChainIds,
         LocksType, LocksListed, knowChainId(c, a, id)
  PROVE  /\ Contains(knownChainIds'[<<c, a>>], id)
         /\ \A r \in Reserves :
              /\ IsInjective(knownChainIds'[r])
              /\ \A d \in ChainIds : Contains(knownChainIds[r], d) => Contains(knownChainIds'[r], d)
<1> DEFINE ids == knownChainIds[<<c, a>>]
           new == IF Contains(ids, id) THEN ids ELSE Append(ids, id)
<1>1. <<c, a>> \in Reserves /\ ids \in Seq(ChainIds)
  BY ReserveOf DEF LocksType
<1>2. knownChainIds' = [knownChainIds EXCEPT ![<<c, a>>] = new]
  BY DEF knowChainId
<1>3. knownChainIds'[<<c, a>>] = new
  BY <1>1, <1>2 DEF LocksType
<1>4. \A r \in Reserves : r # <<c, a>> => knownChainIds'[r] = knownChainIds[r]
  BY <1>2 DEF LocksType
<1>5. \A r \in Reserves : IsInjective(knownChainIds[r])
  BY DEF LocksListed
<1>6. IsInjective(new) /\ Contains(new, id) /\ \A d \in ChainIds : Contains(ids, d) => Contains(new, d)
  <2>1. CASE Contains(ids, id)
    BY <1>1, <1>5, <2>1
  <2>2. CASE ~ Contains(ids, id)
    BY <1>1, <1>5, <2>2, AppendNew
  <2>3. QED
    BY <2>1, <2>2
<1> HIDE DEF ids, new
<1>7. QED
  BY <1>3, <1>4, <1>5, <1>6 DEF ids

\* A step that raises no counter, or only counters of an id it lists, keeps
\* LocksListed.
LEMMA LocksStayListed ==
  ASSUME LocksType, LocksType', LocksListed,
         \A r \in Reserves :
           /\ IsInjective(knownChainIds'[r])
           /\ \A d \in ChainIds : Contains(knownChainIds[r], d) => Contains(knownChainIds'[r], d),
         \A r \in Reserves, u \in Users, d \in ChainIds :
           \/ Contains(knownChainIds'[r], d)
           \/ /\ lockedFor'[r][u][d] <= lockedFor[r][u][d]
              /\ lockedFrom'[r][u][d] <= lockedFrom[r][u][d]
  PROVE  LocksListed'
<1> SUFFICES ASSUME NEW r \in Reserves, NEW u \in Users, NEW d \in ChainIds,
                    lockedFor'[r][u][d] + lockedFrom'[r][u][d] > 0
             PROVE  Contains(knownChainIds'[r], d)
  BY DEF LocksListed
<1>1. /\ lockedFor[r][u][d] \in Nat /\ lockedFrom[r][u][d] \in Nat
      /\ lockedFor'[r][u][d] \in Nat /\ lockedFrom'[r][u][d] \in Nat
  BY DEF LocksType
<1>2. CASE lockedFor[r][u][d] + lockedFrom[r][u][d] > 0
  BY <1>2 DEF LocksListed
<1>3. CASE ~ (lockedFor[r][u][d] + lockedFrom[r][u][d] > 0)
  BY <1>1, <1>3
<1>4. QED
  BY <1>2, <1>3

\* The special case of the calls that list nothing.
LEMMA LocksFallListed ==
  ASSUME LocksType, LocksType', LocksListed, knownChainIds' = knownChainIds,
         \A r \in Reserves, u \in Users, d \in ChainIds :
           /\ lockedFor'[r][u][d] <= lockedFor[r][u][d]
           /\ lockedFrom'[r][u][d] <= lockedFrom[r][u][d]
  PROVE  LocksListed'
<1>1. \A r \in Reserves : IsInjective(knownChainIds[r])
  BY DEF LocksListed
<1>2. QED
  BY <1>1, LocksStayListed

\* lockFor lists the chain before its counter rises.
LEMMA LockForListed ==
  ASSUME NEW c \in Chains, NEW a \in Assets, NEW u \in Users, NEW amount \in Nat,
         NEW d \in ChainIds, LocksType, LocksListed, lockFor(c, a, u, amount, d)
  PROVE  LocksListed'
<1>1. knowChainId(c, a, d) /\ lockedFrom' = lockedFrom
  BY DEF lockFor
<1>2. LocksType'
  BY LockForType
<1> DEFINE n == lockedFor[<<c, a>>][u][d] + amount
<1>3. /\ <<c, a>> \in Reserves /\ n \in Nat
      /\ lockedFor \in [Reserves -> [Users -> [ChainIds -> Nat]]]
      /\ lockedFor' = [lockedFor EXCEPT ![<<c, a>>][u][d] = n]
  BY ReserveOf, CountersAreNat DEF LocksType, lockFor
<1> HIDE DEF n
<1>4. \A r \in Reserves, v \in Users, e \in ChainIds :
        \/ r = <<c, a>> /\ e = d
        \/ lockedFor'[r][v][e] = lockedFor[r][v][e]
  BY <1>3
<1>5. \A r \in Reserves, v \in Users, e \in ChainIds :
        lockedFor[r][v][e] \in Nat /\ lockedFrom[r][v][e] \in Nat
  BY DEF LocksType
<1>6. \A r \in Reserves, v \in Users, e \in ChainIds :
        \/ Contains(knownChainIds'[r], e)
        \/ /\ lockedFor'[r][v][e] <= lockedFor[r][v][e]
           /\ lockedFrom'[r][v][e] <= lockedFrom[r][v][e]
  BY <1>1, <1>4, <1>5, KnowChainIdLists
<1>7. QED
  BY <1>1, <1>2, <1>6, KnowChainIdLists, LocksStayListed

\* onLockCreated lists the source chain before its counter rises.
LEMMA OnLockCreatedListed ==
  ASSUME NEW c \in Chains, NEW a \in Assets, NEW u \in Users, NEW amount \in Nat,
         NEW s \in ChainIds, LocksType, LocksListed, onLockCreated(c, a, u, amount, s)
  PROVE  LocksListed'
<1>1. knowChainId(c, a, s) /\ lockedFor' = lockedFor
  BY DEF onLockCreated
<1>2. LocksType'
  BY OnLockCreatedType
<1> DEFINE n == lockedFrom[<<c, a>>][u][s] + amount
<1>3. /\ <<c, a>> \in Reserves /\ n \in Nat
      /\ lockedFrom \in [Reserves -> [Users -> [ChainIds -> Nat]]]
      /\ lockedFrom' = [lockedFrom EXCEPT ![<<c, a>>][u][s] = n]
  BY ReserveOf, CountersAreNat DEF LocksType, onLockCreated
<1> HIDE DEF n
<1>4. \A r \in Reserves, v \in Users, e \in ChainIds :
        \/ r = <<c, a>> /\ e = s
        \/ lockedFrom'[r][v][e] = lockedFrom[r][v][e]
  BY <1>3
<1>5. \A r \in Reserves, v \in Users, e \in ChainIds :
        lockedFor[r][v][e] \in Nat /\ lockedFrom[r][v][e] \in Nat
  BY DEF LocksType
<1>6. \A r \in Reserves, v \in Users, e \in ChainIds :
        \/ Contains(knownChainIds'[r], e)
        \/ /\ lockedFor'[r][v][e] <= lockedFor[r][v][e]
           /\ lockedFrom'[r][v][e] <= lockedFrom[r][v][e]
  BY <1>1, <1>4, <1>5, KnowChainIdLists
<1>7. QED
  BY <1>1, <1>2, <1>6, KnowChainIdLists, LocksStayListed

\* unlockFor lowers a counter: what was listed is enough.
LEMMA UnlockForListed ==
  ASSUME NEW c \in Chains, NEW a \in Assets, NEW u \in Users, NEW amount \in Nat,
         NEW s \in ChainIds, LocksType, LocksListed, unlockFor(c, a, u, amount, s)
  PROVE  LocksListed'
<1> DEFINE n == lockedFrom[<<c, a>>][u][s] - amount
<1>1. /\ <<c, a>> \in Reserves /\ n \in Nat /\ n <= lockedFrom[<<c, a>>][u][s]
      /\ lockedFrom \in [Reserves -> [Users -> [ChainIds -> Nat]]]
      /\ lockedFrom' = [lockedFrom EXCEPT ![<<c, a>>][u][s] = n]
  BY ReserveOf, CountersAreNat DEF LocksType, unlockFor
<1> HIDE DEF n
<1>2. \A r \in Reserves, v \in Users, e \in ChainIds :
        lockedFor[r][v][e] \in Nat /\ lockedFrom[r][v][e] \in Nat
  BY DEF LocksType
<1>3. \A r \in Reserves, v \in Users, e \in ChainIds :
        \/ lockedFrom'[r][v][e] = lockedFrom[r][v][e]
        \/ lockedFrom'[r][v][e] = n /\ r = <<c, a>> /\ v = u /\ e = s
  BY <1>1
<1>4. lockedFor' = lockedFor /\ knownChainIds' = knownChainIds
  BY DEF unlockFor
<1>5. LocksType'
  BY UnlockForType
<1>6. \A r \in Reserves, v \in Users, e \in ChainIds :
        /\ lockedFor'[r][v][e] <= lockedFor[r][v][e]
        /\ lockedFrom'[r][v][e] <= lockedFrom[r][v][e]
  <2> TAKE r \in Reserves, v \in Users, e \in ChainIds
  <2>1. lockedFrom'[r][v][e] <= lockedFrom[r][v][e]
    <3>1. lockedFrom[r][v][e] \in Nat /\ n <= lockedFrom[<<c, a>>][u][s]
      BY <1>1, <1>2
    <3>2. \/ lockedFrom'[r][v][e] = lockedFrom[r][v][e]
          \/ lockedFrom'[r][v][e] = n /\ r = <<c, a>> /\ v = u /\ e = s
      BY <1>3
    <3>3. QED
      BY <3>1, <3>2
  <2>2. lockedFor'[r][v][e] <= lockedFor[r][v][e]
    BY <1>2, <1>4
  <2>3. QED
    BY <2>1, <2>2
<1>7. QED
  BY <1>4, <1>5, <1>6, LocksFallListed

\* burnLockedFor lowers a counter: what was listed is enough.
LEMMA BurnLockedForListed ==
  ASSUME NEW c \in Chains, NEW a \in Assets, NEW u \in Users, NEW v \in Users,
         NEW amount \in Nat, NEW id \in ChainIds,
         FundsType, LocksType, LocksListed, burnLockedFor(c, a, u, v, amount, id)
  PROVE  LocksListed'
<1> DEFINE n == lockedFor[<<c, a>>][u][id] - amount
<1>0. /\ lockedFor[<<c, a>>][u][id] >= amount
      /\ lockedFor' = [lockedFor EXCEPT ![<<c, a>>][u][id] = n]
  BY DEF burnLockedFor, CanBurnLockedFor
<1>1. /\ <<c, a>> \in Reserves /\ n \in Nat /\ n <= lockedFor[<<c, a>>][u][id]
      /\ lockedFor \in [Reserves -> [Users -> [ChainIds -> Nat]]]
      /\ lockedFor' = [lockedFor EXCEPT ![<<c, a>>][u][id] = n]
  BY <1>0, ReserveOf, CountersAreNat DEF LocksType
<1> HIDE DEF n
<1>2. \A r \in Reserves, w \in Users, e \in ChainIds :
        lockedFor[r][w][e] \in Nat /\ lockedFrom[r][w][e] \in Nat
  BY DEF LocksType
<1>3. \A r \in Reserves, w \in Users, e \in ChainIds :
        \/ lockedFor'[r][w][e] = lockedFor[r][w][e]
        \/ lockedFor'[r][w][e] = n /\ r = <<c, a>> /\ w = u /\ e = id
  BY <1>1
<1>4. lockedFrom' = lockedFrom /\ knownChainIds' = knownChainIds
  BY DEF burnLockedFor
<1>5. LocksType'
  BY BurnLockedForType
<1>6. \A r \in Reserves, w \in Users, e \in ChainIds :
        /\ lockedFor'[r][w][e] <= lockedFor[r][w][e]
        /\ lockedFrom'[r][w][e] <= lockedFrom[r][w][e]
  <2> TAKE r \in Reserves, w \in Users, e \in ChainIds
  <2>1. lockedFor'[r][w][e] <= lockedFor[r][w][e]
    <3>1. lockedFor[r][w][e] \in Nat /\ n <= lockedFor[<<c, a>>][u][id]
      BY <1>1, <1>2
    <3>2. \/ lockedFor'[r][w][e] = lockedFor[r][w][e]
          \/ lockedFor'[r][w][e] = n /\ r = <<c, a>> /\ w = u /\ e = id
      BY <1>3
    <3>3. QED
      BY <3>1, <3>2
  <2>2. lockedFrom'[r][w][e] <= lockedFrom[r][w][e]
    BY <1>2, <1>4
  <2>3. QED
    BY <2>1, <2>2
<1>7. QED
  BY <1>4, <1>5, <1>6, LocksFallListed

\* LocksListed depends on the locks alone.
LEMMA UnchangedListed ==
  ASSUME LocksListed, UNCHANGED locks
  PROVE  LocksListed'
<1>1. lockedFor' = lockedFor /\ lockedFrom' = lockedFrom /\ knownChainIds' = knownChainIds
  BY DEF locks
<1>2. QED
  BY <1>1 DEF LocksListed

\* At first nothing is listed and every counter is zero.
LEMMA TokenInitListed == TokenInit => LocksListed
<1> SUFFICES ASSUME TokenInit PROVE LocksListed
  OBVIOUS
<1>1. \A r \in Reserves : IsInjective(knownChainIds[r])
  BY DEF TokenInit, IsInjective
<1>2. \A r \in Reserves, u \in Users, d \in ChainIds :
        lockedFor[r][u][d] + lockedFrom[r][u][d] = 0
  BY DEF TokenInit
<1>3. QED
  BY <1>1, <1>2 DEF LocksListed

\* Every step of the token keeps the lists complete.
LEMMA TokenStepListed ==
  ASSUME TokenTypeOK, LocksListed, [TokenNext]_tokenVars
  PROVE  LocksListed'
<1>1. FundsType /\ LocksType
  BY TypeParts
<1>2. CASE UNCHANGED locks
  BY <1>2, UnchangedListed
<1>3. CASE TokenLockFor
  BY <1>1, <1>3, AmountsAreNat, LockForListed DEF TokenLockFor
<1>4. CASE TokenUnlockFor
  BY <1>1, <1>4, AmountsAreNat, UnlockForListed DEF TokenUnlockFor
<1>5. CASE TokenOnLockCreated
  BY <1>1, <1>5, AmountsAreNat, OnLockCreatedListed DEF TokenOnLockCreated
<1>6. CASE TokenBurnLockedFor
  BY <1>1, <1>6, AmountsAreNat, BurnLockedForListed DEF TokenBurnLockedFor
<1>7. QED
  BY <1>2, <1>3, <1>4, <1>5, <1>6
     DEF TokenNext, TokenMintUnderlying, TokenDonate, TokenTransfer, TokenMint, TokenBurn,
         TokenTransferUnderlyingTo, tokenVars, locks

\* Every chain with an amount on a counter is listed, once, so that the views
\* that sum over the list miss nothing and count nothing twice.
THEOREM TokenLocksListed == TokenSpec => []LocksListed
<1>1. TokenInit => TokenTypeOK /\ LocksListed
  BY TokenInitType, TokenInitListed
<1>2. TokenTypeOK /\ LocksListed /\ [TokenNext]_tokenVars => (TokenTypeOK /\ LocksListed)'
  BY TokenStepType, TokenStepListed
<1>3. QED
  BY <1>1, <1>2, PTL DEF TokenSpec

-----------------------------------------------------------------------------
(* Totals: what the calls do to the sum of the balances and to the cash.   *)

\* The total of natural balances is a natural number.
LEMMA TotalIsNat ==
  ASSUME NEW f \in [Users -> Nat]
  PROVE  TotalOf(f) \in Nat
<1>1. DOMAIN f = Users /\ \A x \in Users : f[x] \in Nat
  OBVIOUS
<1>2. QED
  BY <1>1, TokenAssumption, SumIsNat DEF TotalOf, SumFunction

\* A change of one balance changes the total of its reserve by as much.
LEMMA TotalAfter ==
  ASSUME NEW f \in [Reserves -> [Users -> Nat]], NEW c \in Chains, NEW a \in Assets,
         NEW u \in Users, NEW n \in Nat
  PROVE  \A r \in Reserves :
           TotalOf([f EXCEPT ![<<c, a>>][u] = n][r])
             = IF r = <<c, a>> THEN TotalOf(f[r]) - f[r][u] + n ELSE TotalOf(f[r])
<1> DEFINE g == [f EXCEPT ![<<c, a>>][u] = n]
<1>1. <<c, a>> \in Reserves
  BY ReserveOf
<1>2. g[<<c, a>>] = [f[<<c, a>>] EXCEPT ![u] = n] /\ \A r \in Reserves : r # <<c, a>> => g[r] = f[r]
  BY <1>1
<1>3. TotalOf([f[<<c, a>>] EXCEPT ![u] = n]) = TotalOf(f[<<c, a>>]) - f[<<c, a>>][u] + n
  <2>1. f[<<c, a>>] \in [Users -> Nat]
    BY <1>1
  <2>2. QED
    BY <2>1, TokenAssumption, SumUpdate DEF TotalOf
<1> HIDE DEF g
<1>4. \A r \in Reserves :
        TotalOf(g[r]) = IF r = <<c, a>> THEN TotalOf(f[r]) - f[r][u] + n ELSE TotalOf(f[r])
  BY <1>2, <1>3
<1>5. QED
  BY <1>4 DEF g

\* A payment in raises the cash of its reserve alone.
LEMMA PayInCash ==
  ASSUME NEW c \in Chains, NEW a \in Assets, NEW u \in Users, NEW amount \in Nat,
         FundsType, PayIn(c, a, u, amount)
  PROVE  \A r \in Reserves : cash'[r] = IF r = <<c, a>> THEN cash[r] + amount ELSE cash[r]
BY ReserveOf DEF FundsType, PayIn

\* A payment out lowers the cash of its reserve alone.
LEMMA TransferUnderlyingToCash ==
  ASSUME NEW c \in Chains, NEW a \in Assets, NEW u \in Users, NEW amount \in Nat,
         FundsType, transferUnderlyingTo(c, a, u, amount)
  PROVE  \A r \in Reserves : cash'[r] = IF r = <<c, a>> THEN cash[r] - amount ELSE cash[r]
BY ReserveOf DEF FundsType, transferUnderlyingTo

\* mint raises what the holders of one credit token are owed, by the amount.
LEMMA MintTotal ==
  ASSUME NEW c \in Chains, NEW a \in Assets, NEW u \in Users, NEW amount \in Nat,
         FundsType, mint(c, a, u, amount)
  PROVE  \A r \in Reserves :
           TotalOf(credit'[r]) = IF r = <<c, a>> THEN TotalOf(credit[r]) + amount
                                                 ELSE TotalOf(credit[r])
<1> DEFINE n == credit[<<c, a>>][u] + amount
<1>1. n \in Nat /\ credit[<<c, a>>][u] \in Nat
  BY BalancesAreNat
<1>2. credit' = [credit EXCEPT ![<<c, a>>][u] = n]
  BY DEF mint
<1>3. \A r \in Reserves : TotalOf(credit[r]) \in Nat
  BY TotalIsNat DEF FundsType
<1>4. n - credit[<<c, a>>][u] = amount
  BY <1>1
<1> HIDE DEF n
<1>5. \A r \in Reserves :
        TotalOf(credit'[r]) = IF r = <<c, a>> THEN TotalOf(credit[r]) - credit[r][u] + n
                                              ELSE TotalOf(credit[r])
  BY <1>1, <1>2, TotalAfter DEF FundsType
<1>6. QED
  BY <1>1, <1>3, <1>4, <1>5

\* burn lowers what the holders are owed and the cash by the same amount.
LEMMA BurnTotal ==
  ASSUME NEW c \in Chains, NEW a \in Assets, NEW u \in Users, NEW v \in Users,
         NEW amount \in Nat, FundsType, burn(c, a, u, v, amount)
  PROVE  \A r \in Reserves :
           /\ TotalOf(credit'[r]) = IF r = <<c, a>> THEN TotalOf(credit[r]) - amount
                                                    ELSE TotalOf(credit[r])
           /\ cash'[r] = IF r = <<c, a>> THEN cash[r] - amount ELSE cash[r]
<1> DEFINE n == credit[<<c, a>>][u] - amount
<1>1. n \in Nat /\ credit[<<c, a>>][u] \in Nat
  BY BalancesAreNat DEF burn
<1>2. credit' = [credit EXCEPT ![<<c, a>>][u] = n] /\ transferUnderlyingTo(c, a, v, amount)
  BY DEF burn
<1>3. \A r \in Reserves : TotalOf(credit[r]) \in Nat
  BY TotalIsNat DEF FundsType
<1>4. credit[<<c, a>>][u] - n = amount
  BY <1>1
<1> HIDE DEF n
<1>5. \A r \in Reserves :
        TotalOf(credit'[r]) = IF r = <<c, a>> THEN TotalOf(credit[r]) - credit[r][u] + n
                                              ELSE TotalOf(credit[r])
  BY <1>1, <1>2, TotalAfter DEF FundsType
<1>6. \A r \in Reserves :
        TotalOf(credit'[r]) = IF r = <<c, a>> THEN TotalOf(credit[r]) - amount
                                              ELSE TotalOf(credit[r])
  BY <1>1, <1>3, <1>4, <1>5
<1>7. QED
  BY <1>2, <1>6, TransferUnderlyingToCash

\* Also when the sender is the recipient.
LEMMA TransferTotal ==
  ASSUME NEW c \in Chains, NEW a \in Assets, NEW u \in Users, NEW v \in Users,
         NEW amount \in Nat, FundsType, LocksType, transfer(c, a, u, v, amount)
  PROVE  \A r \in Reserves : TotalOf(credit'[r]) = TotalOf(credit[r])
<1> DEFINE n == credit[<<c, a>>][u] - amount
           less == [credit EXCEPT ![<<c, a>>][u] = n]
           m == less[<<c, a>>][v] + amount
<1>1. <<c, a>> \in Reserves /\ n \in Nat /\ credit[<<c, a>>][u] \in Nat
  BY ReserveOf, UnlockedBalance, BalancesAreNat DEF transfer
<1>2. credit[<<c, a>>][u] - n = amount
  BY <1>1
<1>3. credit' = [less EXCEPT ![<<c, a>>][v] = m]
  BY DEF transfer, moved
<1> HIDE DEF n
<1>4. less \in [Reserves -> [Users -> Nat]]
  BY <1>1, Update2 DEF FundsType
<1>5. \A r \in Reserves :
        TotalOf(less[r]) = IF r = <<c, a>> THEN TotalOf(credit[r]) - credit[r][u] + n
                                           ELSE TotalOf(credit[r])
  BY <1>1, TotalAfter DEF FundsType
<1> HIDE DEF less
<1>6. less[<<c, a>>][v] \in Nat /\ m \in Nat
  BY <1>1, <1>4
<1>7. m - less[<<c, a>>][v] = amount
  BY <1>6
<1> HIDE DEF m
<1>8. \A r \in Reserves :
        TotalOf(credit'[r]) = IF r = <<c, a>> THEN TotalOf(less[r]) - less[r][v] + m
                                              ELSE TotalOf(less[r])
  BY <1>3, <1>4, <1>6, TotalAfter
<1>9. \A r \in Reserves : TotalOf(credit[r]) \in Nat /\ TotalOf(less[r]) \in Nat
  BY <1>4, TotalIsNat DEF FundsType
<1>10. QED
  BY <1>1, <1>2, <1>5, <1>6, <1>7, <1>8, <1>9

-----------------------------------------------------------------------------
(* What the views hold back: the counters, over all the chain ids.         *)

LockedTotal(r, u) == SumFunction(lockedFor[r][u])
FromTotal(r, u) == SumFunction(lockedFrom[r][u])

\* A loop over a list of ids that holds every positive counter adds up all of them.
LEMMA ListedSum ==
  ASSUME NEW f \in [ChainIds -> Nat], NEW ids \in Seq(ChainIds),
         \A d \in ChainIds : f[d] > 0 => Contains(ids, d)
  PROVE  SumFunctionOnSet(f, ToSet(ids)) = SumFunction(f) /\ SumFunction(f) \in Nat
<1>1. ToSet(ids) \subseteq ChainIds /\ DOMAIN f = ChainIds /\ IsFiniteSet(ChainIds)
  BY TokenAssumption DEF ToSet
<1>2. \A d \in ChainIds \ ToSet(ids) : f[d] = 0
  BY DEF ToSet, Contains
<1>3. SumFunctionOnSet(f, ToSet(ids)) = SumFunctionOnSet(f, ChainIds)
  BY <1>1, <1>2, SumOfNonzero
<1>4. SumFunctionOnSet(f, ChainIds) \in Nat
  BY <1>1, SumIsNat
<1> QED BY <1>1, <1>3, <1>4 DEF SumFunction

\* So the views return the totals of the counters.
LEMMA ViewsAreTotals ==
  ASSUME NEW c \in Chains, NEW a \in Assets, NEW u \in Users, LocksType, LocksListed
  PROVE  /\ lockedBalanceOf(c, a, u) = LockedTotal(<<c, a>>, u) /\ LockedTotal(<<c, a>>, u) \in Nat
         /\ receivedAmountOf(c, a, u) = FromTotal(<<c, a>>, u) /\ FromTotal(<<c, a>>, u) \in Nat
<1>1. <<c, a>> \in Reserves
  BY ReserveOf
<1>2. /\ lockedFor[<<c, a>>][u] \in [ChainIds -> Nat] /\ lockedFrom[<<c, a>>][u] \in [ChainIds -> Nat]
      /\ knownChainIds[<<c, a>>] \in Seq(ChainIds)
  BY <1>1 DEF LocksType
<1>3. \A d \in ChainIds : lockedFor[<<c, a>>][u][d] > 0 \/ lockedFrom[<<c, a>>][u][d] > 0
                            => Contains(knownChainIds[<<c, a>>], d)
  BY <1>1, CountersAreNat DEF LocksListed
<1> QED BY <1>2, <1>3, ListedSum DEF lockedBalanceOf, receivedAmountOf, LockedTotal, FromTotal

\* And they do so after a step that keeps the list complete.
LEMMA ViewsAreTotalsNext ==
  ASSUME NEW c \in Chains, NEW a \in Assets, NEW u \in Users, LocksType', LocksListed'
  PROVE  /\ lockedBalanceOf(c, a, u)' = LockedTotal(<<c, a>>, u)' /\ LockedTotal(<<c, a>>, u)' \in Nat
         /\ receivedAmountOf(c, a, u)' = FromTotal(<<c, a>>, u)' /\ FromTotal(<<c, a>>, u)' \in Nat
<1>1. <<c, a>> \in Reserves
  BY ReserveOf
<1>2. /\ lockedFor'[<<c, a>>][u] \in [ChainIds -> Nat] /\ lockedFrom'[<<c, a>>][u] \in [ChainIds -> Nat]
      /\ knownChainIds'[<<c, a>>] \in Seq(ChainIds)
  BY <1>1 DEF LocksType
<1>3. \A d \in ChainIds : lockedFor'[<<c, a>>][u][d] > 0 \/ lockedFrom'[<<c, a>>][u][d] > 0
                            => Contains(knownChainIds'[<<c, a>>], d)
  <2> TAKE d \in ChainIds
  <2>1. lockedFor'[<<c, a>>][u][d] \in Nat /\ lockedFrom'[<<c, a>>][u][d] \in Nat
    BY <1>2
  <2> QED BY <1>1, <2>1 DEF LocksListed
<1> QED BY <1>2, <1>3, ListedSum DEF lockedBalanceOf, receivedAmountOf, LockedTotal, FromTotal

\* A step that sets one counter.
SetsLockedFor(c, a, u, d, n) == lockedFor' = [lockedFor EXCEPT ![<<c, a>>][u][d] = n]
SetsLockedFrom(c, a, u, d, n) == lockedFrom' = [lockedFrom EXCEPT ![<<c, a>>][u][d] = n]

\* Setting a lock changes what is locked by the difference, and nobody else's total.
LEMMA SetsLockedForTotals ==
  ASSUME NEW c \in Chains, NEW a \in Assets, NEW u \in Users, NEW d \in ChainIds, NEW n \in Nat,
         LocksType, SetsLockedFor(c, a, u, d, n)
  PROVE  \A q \in Reserves, w \in Users :
           LockedTotal(q, w)' = IF q = <<c, a>> /\ w = u THEN LockedTotal(q, w) - lockedFor[<<c, a>>][u][d] + n
                                                 ELSE LockedTotal(q, w)
<1> PICK g : g = lockedFor'
  OBVIOUS
<1>1. <<c, a>> \in Reserves /\ lockedFor[<<c, a>>][u] \in [ChainIds -> Nat]
  BY ReserveOf DEF LocksType
<1>2. /\ g[<<c, a>>][u] = [lockedFor[<<c, a>>][u] EXCEPT ![d] = n]
      /\ \A q \in Reserves, w \in Users : ~ (q = <<c, a>> /\ w = u) => g[q][w] = lockedFor[q][w]
  BY <1>1 DEF LocksType, SetsLockedFor
<1>3. SumFunction([lockedFor[<<c, a>>][u] EXCEPT ![d] = n])
        = SumFunction(lockedFor[<<c, a>>][u]) - lockedFor[<<c, a>>][u][d] + n
  BY <1>1, TokenAssumption, SumUpdate
<1>4. \A q \in Reserves, w \in Users :
        SumFunction(g[q][w]) = IF q = <<c, a>> /\ w = u
                                 THEN SumFunction(lockedFor[q][w]) - lockedFor[<<c, a>>][u][d] + n
                                 ELSE SumFunction(lockedFor[q][w])
  BY <1>2, <1>3
<1> QED BY <1>4 DEF LockedTotal

\* Setting what a chain has reported changes what was received by the difference.
LEMMA SetsLockedFromTotals ==
  ASSUME NEW c \in Chains, NEW a \in Assets, NEW u \in Users, NEW d \in ChainIds, NEW n \in Nat,
         LocksType, SetsLockedFrom(c, a, u, d, n)
  PROVE  \A q \in Reserves, w \in Users :
           FromTotal(q, w)' = IF q = <<c, a>> /\ w = u THEN FromTotal(q, w) - lockedFrom[<<c, a>>][u][d] + n
                                                 ELSE FromTotal(q, w)
<1> PICK g : g = lockedFrom'
  OBVIOUS
<1>1. <<c, a>> \in Reserves /\ lockedFrom[<<c, a>>][u] \in [ChainIds -> Nat]
  BY ReserveOf DEF LocksType
<1>2. /\ g[<<c, a>>][u] = [lockedFrom[<<c, a>>][u] EXCEPT ![d] = n]
      /\ \A q \in Reserves, w \in Users : ~ (q = <<c, a>> /\ w = u) => g[q][w] = lockedFrom[q][w]
  BY <1>1 DEF LocksType, SetsLockedFrom
<1>3. SumFunction([lockedFrom[<<c, a>>][u] EXCEPT ![d] = n])
        = SumFunction(lockedFrom[<<c, a>>][u]) - lockedFrom[<<c, a>>][u][d] + n
  BY <1>1, TokenAssumption, SumUpdate
<1>4. \A q \in Reserves, w \in Users :
        SumFunction(g[q][w]) = IF q = <<c, a>> /\ w = u
                                 THEN SumFunction(lockedFrom[q][w]) - lockedFrom[<<c, a>>][u][d] + n
                                 ELSE SumFunction(lockedFrom[q][w])
  BY <1>2, <1>3
<1> QED BY <1>4 DEF FromTotal

\* lockFor holds back the amount, of credit that was free.
LEMMA LockForTotals ==
  ASSUME NEW c \in Chains, NEW a \in Assets, NEW u \in Users, NEW amount \in Nat, NEW d \in ChainIds,
         LocksType, LocksListed, lockFor(c, a, u, amount, d)
  PROVE  /\ \A q \in Reserves, w \in Users :
              /\ LockedTotal(q, w)' = IF q = <<c, a>> /\ w = u THEN LockedTotal(q, w) + amount ELSE LockedTotal(q, w)
              /\ FromTotal(q, w)' = FromTotal(q, w)
         /\ unlockedBalanceOf(c, a, u) >= amount
<1> DEFINE n == lockedFor[<<c, a>>][u][d] + amount
<1>1. /\ <<c, a>> \in Reserves /\ n \in Nat /\ lockedFor[<<c, a>>][u][d] \in Nat
      /\ SetsLockedFor(c, a, u, d, n) /\ lockedFrom' = lockedFrom
      /\ n - lockedFor[<<c, a>>][u][d] = amount
  BY ReserveOf, CountersAreNat DEF SetsLockedFor, lockFor
<1>2. LockedTotal(<<c, a>>, u) \in Nat
  BY ViewsAreTotals
<1> HIDE DEF n
<1>3. \A q \in Reserves, w \in Users :
        LockedTotal(q, w)' = IF q = <<c, a>> /\ w = u THEN LockedTotal(q, w) - lockedFor[<<c, a>>][u][d] + n
                                              ELSE LockedTotal(q, w)
  BY <1>1, SetsLockedForTotals
<1> QED BY <1>1, <1>2, <1>3 DEF FromTotal, lockFor

\* onLockCreated raises what was received, and nothing else.
LEMMA OnLockCreatedTotals ==
  ASSUME NEW c \in Chains, NEW a \in Assets, NEW u \in Users, NEW amount \in Nat, NEW s \in ChainIds,
         LocksType, LocksListed, onLockCreated(c, a, u, amount, s)
  PROVE  \A q \in Reserves, w \in Users :
           /\ LockedTotal(q, w)' = LockedTotal(q, w)
           /\ FromTotal(q, w)' = IF q = <<c, a>> /\ w = u THEN FromTotal(q, w) + amount ELSE FromTotal(q, w)
<1> DEFINE n == lockedFrom[<<c, a>>][u][s] + amount
<1>1. /\ <<c, a>> \in Reserves /\ n \in Nat /\ lockedFrom[<<c, a>>][u][s] \in Nat
      /\ SetsLockedFrom(c, a, u, s, n) /\ lockedFor' = lockedFor
      /\ n - lockedFrom[<<c, a>>][u][s] = amount
  BY ReserveOf, CountersAreNat DEF SetsLockedFrom, onLockCreated
<1>2. FromTotal(<<c, a>>, u) \in Nat
  BY ViewsAreTotals
<1> HIDE DEF n
<1>3. \A q \in Reserves, w \in Users :
        FromTotal(q, w)' = IF q = <<c, a>> /\ w = u THEN FromTotal(q, w) - lockedFrom[<<c, a>>][u][s] + n
                                              ELSE FromTotal(q, w)
  BY <1>1, SetsLockedFromTotals
<1> QED BY <1>1, <1>2, <1>3 DEF LockedTotal

\* unlockFor gives up some of what was received.
LEMMA UnlockForTotals ==
  ASSUME NEW c \in Chains, NEW a \in Assets, NEW u \in Users, NEW amount \in Nat, NEW s \in ChainIds,
         LocksType, LocksListed, unlockFor(c, a, u, amount, s)
  PROVE  \A q \in Reserves, w \in Users :
           /\ LockedTotal(q, w)' = LockedTotal(q, w)
           /\ FromTotal(q, w)' = IF q = <<c, a>> /\ w = u THEN FromTotal(q, w) - amount ELSE FromTotal(q, w)
<1> DEFINE n == lockedFrom[<<c, a>>][u][s] - amount
<1>1. /\ <<c, a>> \in Reserves /\ n \in Nat /\ lockedFrom[<<c, a>>][u][s] \in Nat
      /\ SetsLockedFrom(c, a, u, s, n) /\ lockedFor' = lockedFor
      /\ lockedFrom[<<c, a>>][u][s] - n = amount
  BY ReserveOf, CountersAreNat DEF SetsLockedFrom, unlockFor
<1>2. FromTotal(<<c, a>>, u) \in Nat
  BY ViewsAreTotals
<1> HIDE DEF n
<1>3. \A q \in Reserves, w \in Users :
        FromTotal(q, w)' = IF q = <<c, a>> /\ w = u THEN FromTotal(q, w) - lockedFrom[<<c, a>>][u][s] + n
                                              ELSE FromTotal(q, w)
  BY <1>1, SetsLockedFromTotals
<1> QED BY <1>1, <1>2, <1>3 DEF LockedTotal

\* burnLockedFor gives up a lock, and burns as much credit if the receiver is another.
LEMMA BurnLockedForTotals ==
  ASSUME NEW c \in Chains, NEW a \in Assets, NEW u \in Users, NEW v \in Users, NEW amount \in Nat,
         NEW id \in ChainIds, FundsType, LocksType, LocksListed, burnLockedFor(c, a, u, v, amount, id)
  PROVE  \A q \in Reserves, w \in Users :
           /\ LockedTotal(q, w)' = IF q = <<c, a>> /\ w = u THEN LockedTotal(q, w) - amount ELSE LockedTotal(q, w)
           /\ FromTotal(q, w)' = FromTotal(q, w)
           /\ credit'[q][w] = IF q = <<c, a>> /\ w = u /\ u # v THEN credit[q][w] - amount ELSE credit[q][w]
<1> DEFINE n == lockedFor[<<c, a>>][u][id] - amount
<1>1. /\ <<c, a>> \in Reserves /\ n \in Nat /\ lockedFor[<<c, a>>][u][id] \in Nat
      /\ SetsLockedFor(c, a, u, id, n) /\ lockedFrom' = lockedFrom
      /\ lockedFor[<<c, a>>][u][id] - n = amount
  BY ReserveOf, CountersAreNat DEF SetsLockedFor, burnLockedFor, CanBurnLockedFor
<1>2. LockedTotal(<<c, a>>, u) \in Nat
  BY ViewsAreTotals
<1> HIDE DEF n
<1>3. \A q \in Reserves, w \in Users :
        LockedTotal(q, w)' = IF q = <<c, a>> /\ w = u THEN LockedTotal(q, w) - lockedFor[<<c, a>>][u][id] + n
                                              ELSE LockedTotal(q, w)
  BY <1>1, SetsLockedForTotals
<1>4. \A q \in Reserves, w \in Users :
        credit'[q][w] = IF q = <<c, a>> /\ w = u /\ u # v THEN credit[q][w] - amount ELSE credit[q][w]
  <2>1. CASE u = v
    BY <2>1 DEF burnLockedFor, funds
  <2>2. CASE u # v
    <3>1. credit' = [credit EXCEPT ![<<c, a>>][u] = credit[<<c, a>>][u] - amount]
      BY <2>2 DEF burnLockedFor, burn
    <3> QED BY <1>1, <2>2, <3>1 DEF FundsType
  <2> QED BY <2>1, <2>2
<1> QED BY <1>1, <1>2, <1>3, <1>4 DEF FromTotal

-----------------------------------------------------------------------------
(* OnlyBurnsOrReportsUncover.                                              *)

\* Covered, of the totals and not of the loops, for any reserve.
Covers(q, w) == LockedTotal(q, w) + FromTotal(q, w) <= credit[q][w]

\* A step that uncovers nobody but by a burn or a report.
KeepsCovers ==
  \A q \in Reserves, w \in Users :
    Covers(q, w) =>
      \/ Covers(q, w)'
      \/ TotalOf(credit'[q]) < TotalOf(credit[q])
      \/ FromTotal(q, w)' > FromTotal(q, w)

\* The totals and the balances are natural numbers.
LEMMA AllAreNat ==
  ASSUME FundsType, LocksType
  PROVE  \A q \in Reserves, w \in Users :
           LockedTotal(q, w) \in Nat /\ FromTotal(q, w) \in Nat /\ credit[q][w] \in Nat
<1> SUFFICES ASSUME NEW q \in Reserves, NEW w \in Users
             PROVE  LockedTotal(q, w) \in Nat /\ FromTotal(q, w) \in Nat /\ credit[q][w] \in Nat
  OBVIOUS
<1>1. lockedFor[q][w] \in [ChainIds -> Nat] /\ lockedFrom[q][w] \in [ChainIds -> Nat] /\ credit[q][w] \in Nat
  BY DEF FundsType, LocksType
<1>2. \A f \in [ChainIds -> Nat] : SumFunction(f) \in Nat
  BY TokenAssumption, SumIsNat DEF SumFunction
<1> QED BY <1>1, <1>2 DEF LockedTotal, FromTotal

\* What a covered account can spend or lock leaves it covered.
LEMMA SpendableIsFree ==
  ASSUME NEW c \in Chains, NEW a \in Assets, NEW u \in Users, NEW amount \in Nat,
         FundsType, LocksType, LocksListed, unlockedBalanceOf(c, a, u) >= amount, Covers(<<c, a>>, u)
  PROVE  LockedTotal(<<c, a>>, u) + FromTotal(<<c, a>>, u) + amount <= credit[<<c, a>>][u]
<1>1. LockedTotal(<<c, a>>, u) \in Nat /\ FromTotal(<<c, a>>, u) \in Nat /\ credit[<<c, a>>][u] \in Nat
  BY ReserveOf, AllAreNat
<1>2. unlockedBalanceOf(c, a, u)
        = IF credit[<<c, a>>][u] > LockedTotal(<<c, a>>, u) + FromTotal(<<c, a>>, u)
          THEN credit[<<c, a>>][u] - (LockedTotal(<<c, a>>, u) + FromTotal(<<c, a>>, u)) ELSE 0
  BY ViewsAreTotals DEF unlockedBalanceOf
<1> QED BY <1>1, <1>2 DEF Covers

\* transfer takes the amount from the sender alone, and nothing in a transfer to oneself.
LEMMA TransferCredit ==
  ASSUME NEW c \in Chains, NEW a \in Assets, NEW u \in Users, NEW v \in Users, NEW amount \in Nat,
         FundsType, LocksType, transfer(c, a, u, v, amount)
  PROVE  \A q \in Reserves, w \in Users :
           \/ credit'[q][w] \in Nat /\ credit'[q][w] >= credit[q][w]
           \/ q = <<c, a>> /\ w = u /\ credit'[q][w] = credit[q][w] - amount
<1> DEFINE n == credit[<<c, a>>][u] - amount
           less == [credit EXCEPT ![<<c, a>>][u] = n]
           m == less[<<c, a>>][v] + amount
<1>1. <<c, a>> \in Reserves /\ n \in Nat /\ credit[<<c, a>>][u] \in Nat /\ n + amount = credit[<<c, a>>][u]
  BY ReserveOf, UnlockedBalance, BalancesAreNat DEF transfer
<1>2. credit' = [less EXCEPT ![<<c, a>>][v] = m]
  BY DEF transfer, moved
<1> HIDE DEF n
<1>3. less \in [Reserves -> [Users -> Nat]]
  BY <1>1, Update2 DEF FundsType
<1>4. \A q \in Reserves, w \in Users :
        less[q][w] = IF q = <<c, a>> /\ w = u THEN n ELSE credit[q][w]
  BY <1>1 DEF FundsType
<1> HIDE DEF less
<1>5. m \in Nat /\ less[<<c, a>>][v] \in Nat
  BY <1>1, <1>3
<1> HIDE DEF m
<1>6. \A q \in Reserves, w \in Users :
        credit'[q][w] = IF q = <<c, a>> /\ w = v THEN m ELSE less[q][w]
  BY <1>1, <1>2, <1>3, <1>5
<1>7. m = less[<<c, a>>][v] + amount
  BY DEF m
<1>8. \A q \in Reserves, w \in Users : credit[q][w] \in Nat /\ less[q][w] \in Nat
  BY <1>3 DEF FundsType
<1> SUFFICES ASSUME NEW q \in Reserves, NEW w \in Users
             PROVE  \/ credit'[q][w] \in Nat /\ credit'[q][w] >= credit[q][w]
                    \/ q = <<c, a>> /\ w = u /\ credit'[q][w] = credit[q][w] - amount
  OBVIOUS
<1>9. CASE q = <<c, a>> /\ w = v
  BY <1>1, <1>4, <1>5, <1>6, <1>7, <1>8, <1>9
<1>10. CASE ~ (q = <<c, a>> /\ w = v)
  <2>1. credit'[q][w] = less[q][w]
    BY <1>6, <1>10
  <2>2. CASE q = <<c, a>> /\ w = u
    <3>1. credit'[q][w] = n
      BY <1>4, <2>1, <2>2
    <3> QED BY <2>2, <3>1 DEF n
  <2>3. CASE ~ (q = <<c, a>> /\ w = u)
    BY <1>4, <1>8, <2>1, <2>3
  <2> QED BY <2>2, <2>3
<1> QED BY <1>9, <1>10

\* A transfer keeps covered accounts covered: the recipient gains, and the sender
\* spends what is free.
LEMMA TransferCovers ==
  ASSUME NEW c \in Chains, NEW a \in Assets, NEW u \in Users, NEW v \in Users, NEW amount \in Nat,
         FundsType, LocksType, LocksListed, transfer(c, a, u, v, amount), UNCHANGED locks
  PROVE  KeepsCovers
<1> SUFFICES ASSUME NEW q \in Reserves, NEW w \in Users, Covers(q, w) PROVE Covers(q, w)'
  BY DEF KeepsCovers
<1>1. LockedTotal(q, w)' = LockedTotal(q, w) /\ FromTotal(q, w)' = FromTotal(q, w)
  BY DEF locks, LockedTotal, FromTotal
<1>2. LockedTotal(q, w) \in Nat /\ FromTotal(q, w) \in Nat /\ credit[q][w] \in Nat
  BY AllAreNat
<1>3. CASE credit'[q][w] \in Nat /\ credit'[q][w] >= credit[q][w]
  BY <1>1, <1>2, <1>3 DEF Covers
<1>4. CASE q = <<c, a>> /\ w = u /\ credit'[q][w] = credit[q][w] - amount
  <2>1. unlockedBalanceOf(c, a, u) >= amount
    BY DEF transfer
  <2>2. LockedTotal(q, w) + FromTotal(q, w) + amount <= credit[q][w]
    BY <1>4, <2>1, SpendableIsFree
  <2> QED BY <1>1, <1>2, <1>4, <2>2 DEF Covers
<1> QED BY <1>3, <1>4, TransferCredit

\* A lock keeps covered accounts covered: it holds back what is free.
LEMMA LockForCovers ==
  ASSUME NEW c \in Chains, NEW a \in Assets, NEW u \in Users, NEW amount \in Nat, NEW d \in ChainIds,
         FundsType, LocksType, LocksListed, lockFor(c, a, u, amount, d), credit' = credit
  PROVE  KeepsCovers
<1> SUFFICES ASSUME NEW q \in Reserves, NEW w \in Users, Covers(q, w) PROVE Covers(q, w)'
  BY DEF KeepsCovers
<1>1. LockedTotal(q, w) \in Nat /\ FromTotal(q, w) \in Nat /\ credit[q][w] \in Nat
  BY AllAreNat
<1>2. /\ FromTotal(q, w)' = FromTotal(q, w)
      /\ LockedTotal(q, w)' = IF q = <<c, a>> /\ w = u THEN LockedTotal(q, w) + amount ELSE LockedTotal(q, w)
      /\ unlockedBalanceOf(c, a, u) >= amount
  BY LockForTotals
<1>3. CASE q = <<c, a>> /\ w = u
  <2>1. LockedTotal(q, w) + FromTotal(q, w) + amount <= credit[q][w]
    BY <1>2, <1>3, SpendableIsFree
  <2> QED BY <1>1, <1>2, <1>3, <2>1 DEF Covers
<1>4. CASE ~ (q = <<c, a>> /\ w = u)
  BY <1>1, <1>2, <1>4 DEF Covers
<1> QED BY <1>3, <1>4

\* Giving up a lock keeps covered accounts covered: no more credit is burnt than
\* stops being held back.
LEMMA BurnLockedForCovers ==
  ASSUME NEW c \in Chains, NEW a \in Assets, NEW u \in Users, NEW v \in Users, NEW amount \in Nat,
         NEW id \in ChainIds, FundsType, LocksType, LocksListed, burnLockedFor(c, a, u, v, amount, id)
  PROVE  KeepsCovers
<1> SUFFICES ASSUME NEW q \in Reserves, NEW w \in Users, Covers(q, w) PROVE Covers(q, w)'
  BY DEF KeepsCovers
<1>1. LockedTotal(q, w) \in Nat /\ FromTotal(q, w) \in Nat /\ credit[q][w] \in Nat
  BY AllAreNat
<1>2. /\ FromTotal(q, w)' = FromTotal(q, w)
      /\ LockedTotal(q, w)' = IF q = <<c, a>> /\ w = u THEN LockedTotal(q, w) - amount ELSE LockedTotal(q, w)
      /\ credit'[q][w] = IF q = <<c, a>> /\ w = u /\ u # v THEN credit[q][w] - amount ELSE credit[q][w]
  BY BurnLockedForTotals
<1> QED BY <1>1, <1>2 DEF Covers

\* What releases a received lock, reports one or mints keeps covered accounts covered.
LEMMA OtherCallsCover ==
  ASSUME NEW c \in Chains, NEW a \in Assets, NEW u \in Users, NEW amount \in Nat, NEW s \in ChainIds,
         FundsType, LocksType, LocksListed, credit' = credit,
         unlockFor(c, a, u, amount, s) \/ onLockCreated(c, a, u, amount, s)
  PROVE  KeepsCovers
<1> SUFFICES ASSUME NEW q \in Reserves, NEW w \in Users, Covers(q, w)
             PROVE  Covers(q, w)' \/ FromTotal(q, w)' > FromTotal(q, w)
  BY DEF KeepsCovers
<1>1. LockedTotal(q, w) \in Nat /\ FromTotal(q, w) \in Nat /\ credit[q][w] \in Nat
  BY AllAreNat
<1>2. /\ LockedTotal(q, w)' = LockedTotal(q, w)
      /\ \/ FromTotal(q, w)' = FromTotal(q, w) - amount
         \/ FromTotal(q, w)' = FromTotal(q, w)
         \/ FromTotal(q, w)' = FromTotal(q, w) + amount
  BY UnlockForTotals, OnLockCreatedTotals
<1> QED BY <1>1, <1>2 DEF Covers

\* A burn that takes credit lowers the total of the reserve.
LEMMA BurnCovers ==
  ASSUME NEW c \in Chains, NEW a \in Assets, NEW u \in Users, NEW v \in Users, NEW amount \in Nat,
         FundsType, LocksType, burn(c, a, u, v, amount), UNCHANGED locks
  PROVE  KeepsCovers
<1> SUFFICES ASSUME NEW q \in Reserves, NEW w \in Users, Covers(q, w)
             PROVE  Covers(q, w)' \/ TotalOf(credit'[q]) < TotalOf(credit[q])
  BY DEF KeepsCovers
<1>1. LockedTotal(q, w)' = LockedTotal(q, w) /\ FromTotal(q, w)' = FromTotal(q, w)
  BY DEF locks, LockedTotal, FromTotal
<1>2. TotalOf(credit'[q]) = IF q = <<c, a>> THEN TotalOf(credit[q]) - amount ELSE TotalOf(credit[q])
  BY BurnTotal
<1>3. TotalOf(credit[q]) \in Nat /\ credit[q][w] \in Nat
  BY TotalIsNat DEF FundsType
<1>4. CASE q = <<c, a>> /\ amount > 0
  BY <1>2, <1>3, <1>4
<1>5. CASE ~ (q = <<c, a>> /\ amount > 0)
  <2>1. PICK n \in Int : n = credit[<<c, a>>][u] - amount
    BY BalancesAreNat
  <2>2. credit' = [credit EXCEPT ![<<c, a>>][u] = n]
    BY <2>1 DEF burn
  <2>3. credit'[q][w] = IF q = <<c, a>> /\ w = u THEN n ELSE credit[q][w]
    BY <2>2 DEF FundsType
  <2>4. q = <<c, a>> /\ w = u => n = credit[q][w]
    BY <1>3, <1>5, <2>1
  <2> QED BY <1>1, <2>3, <2>4 DEF Covers
<1> QED BY <1>4, <1>5

\* A mint raises a balance and touches no lock.
LEMMA MintCovers ==
  ASSUME NEW c \in Chains, NEW a \in Assets, NEW u \in Users, NEW amount \in Nat,
         FundsType, LocksType, mint(c, a, u, amount), UNCHANGED locks
  PROVE  KeepsCovers
<1> SUFFICES ASSUME NEW q \in Reserves, NEW w \in Users, Covers(q, w) PROVE Covers(q, w)'
  BY DEF KeepsCovers
<1>1. LockedTotal(q, w)' = LockedTotal(q, w) /\ FromTotal(q, w)' = FromTotal(q, w)
  BY DEF locks, LockedTotal, FromTotal
<1>2. LockedTotal(q, w) \in Nat /\ FromTotal(q, w) \in Nat /\ credit[q][w] \in Nat
  BY AllAreNat
<1>3. PICK n \in Nat : n = credit[<<c, a>>][u] + amount
  BY BalancesAreNat
<1>4. credit'[q][w] \in Nat /\ credit'[q][w] >= credit[q][w]
  <2>1. credit' = [credit EXCEPT ![<<c, a>>][u] = n]
    BY <1>3 DEF mint
  <2>2. credit'[q][w] = IF q = <<c, a>> /\ w = u THEN n ELSE credit[q][w]
    BY <2>1 DEF FundsType
  <2>3. q = <<c, a>> /\ w = u => n = credit[q][w] + amount
    BY <1>3
  <2> QED BY <1>2, <2>2, <2>3
<1> QED BY <1>1, <1>2, <1>4 DEF Covers

\* A step that moves no credit and no lock uncovers nobody.
LEMMA UnchangedCovers ==
  ASSUME credit' = credit, UNCHANGED locks
  PROVE  KeepsCovers
BY DEF KeepsCovers, Covers, locks, LockedTotal, FromTotal

\* Of every step of the token.
LEMMA TokenStepCovers ==
  ASSUME TokenTypeOK, LocksListed, [TokenNext]_tokenVars
  PROVE  KeepsCovers
<1>1. FundsType /\ LocksType
  BY TypeParts
<1>2. CASE credit' = credit /\ UNCHANGED locks
  BY <1>2, UnchangedCovers
<1>3. CASE TokenTransfer
  BY <1>1, <1>3, AmountsAreNat, TransferCovers DEF TokenTransfer, locks
<1>4. CASE TokenMint
  BY <1>1, <1>4, AmountsAreNat, MintCovers DEF TokenMint, locks
<1>5. CASE TokenBurn
  BY <1>1, <1>5, AmountsAreNat, BurnCovers DEF TokenBurn
<1>6. CASE TokenLockFor
  BY <1>1, <1>6, AmountsAreNat, LockForCovers DEF TokenLockFor, funds
<1>7. CASE TokenUnlockFor
  BY <1>1, <1>7, AmountsAreNat, OtherCallsCover DEF TokenUnlockFor, funds
<1>8. CASE TokenOnLockCreated
  BY <1>1, <1>8, AmountsAreNat, OtherCallsCover DEF TokenOnLockCreated, funds
<1>9. CASE TokenBurnLockedFor
  BY <1>1, <1>9, AmountsAreNat, BurnLockedForCovers DEF TokenBurnLockedFor
<1> QED BY <1>2, <1>3, <1>4, <1>5, <1>6, <1>7, <1>8, <1>9
           DEF TokenNext, TokenMintUnderlying, TokenDonate, TokenTransferUnderlyingTo, tokenVars, locks

\* Locked credit cannot be spent: an account whose balance covers its locks stops
\* covering them only when credit is burnt or another chain reports a lock.
THEOREM TokenUncovers == TokenSpec => OnlyBurnsOrReportsUncover
<1> DEFINE Step == \A c \in Chains, a \in Assets, u \in Users :
                     Covered(c, a, u) /\ ~ Covered(c, a, u)' =>
                       \/ TotalOf(credit[<<c, a>>])' < TotalOf(credit[<<c, a>>])
                       \/ receivedAmountOf(c, a, u)' > receivedAmountOf(c, a, u)
<1>1. TokenInit => TokenTypeOK /\ LocksListed
  BY TokenInitType, TokenInitListed
<1>2. TokenTypeOK /\ LocksListed /\ [TokenNext]_tokenVars => (TokenTypeOK /\ LocksListed)'
  BY TokenStepType, TokenStepListed
<1>3. TokenTypeOK /\ LocksListed /\ [TokenNext]_tokenVars => [Step]_tokenVars
  <2> SUFFICES ASSUME TokenTypeOK, LocksListed, [TokenNext]_tokenVars,
                      NEW c \in Chains, NEW a \in Assets, NEW u \in Users,
                      Covered(c, a, u), ~ Covered(c, a, u)'
               PROVE  \/ TotalOf(credit[<<c, a>>])' < TotalOf(credit[<<c, a>>])
                      \/ receivedAmountOf(c, a, u)' > receivedAmountOf(c, a, u)
    OBVIOUS
  <2>1. LocksType /\ LocksType' /\ LocksListed'
    BY <1>2 DEF TokenTypeOK, LocksType
  <2>2. /\ lockedBalanceOf(c, a, u) = LockedTotal(<<c, a>>, u)
        /\ receivedAmountOf(c, a, u) = FromTotal(<<c, a>>, u)
    BY <2>1, ViewsAreTotals
  <2>3. /\ lockedBalanceOf(c, a, u)' = LockedTotal(<<c, a>>, u)'
        /\ receivedAmountOf(c, a, u)' = FromTotal(<<c, a>>, u)'
    BY <2>1, ViewsAreTotalsNext
  <2>4. Covers(<<c, a>>, u) /\ ~ Covers(<<c, a>>, u)'
    BY <2>2, <2>3 DEF Covered, Covers
  <2>5. \/ TotalOf(credit'[<<c, a>>]) < TotalOf(credit[<<c, a>>])
        \/ FromTotal(<<c, a>>, u)' > FromTotal(<<c, a>>, u)
    BY <2>4, ReserveOf, TokenStepCovers DEF KeepsCovers
  <2> QED BY <2>2, <2>3, <2>5
<1> QED BY <1>1, <1>2, <1>3, PTL DEF TokenSpec, OnlyBurnsOrReportsUncover
=============================================================================
