----------------------------- MODULE CreditToken -----------------------------
(***************************************************************************)
(* contracts/token/CreditToken.sol: the receipt token of one reserve, one  *)
(* contract per chain and asset.  It holds the deposited underlying and,   *)
(* per account and chain id, two counters: how much of the account's       *)
(* balance is locked FOR that chain, and how much that chain has reported  *)
(* to be locked for this one (locked FROM it).                             *)
(*                                                                         *)
(* The operators named after the contract's functions are one call each:   *)
(* their guards are its require statements, their primed variables what it *)
(* assigns.  A call changes a part of the state only; the transaction that *)
(* makes the calls says what else changes (TokenNext below, LendingPool).  *)
(***************************************************************************)
EXTENDS Integers, Sequences, FiniteSets, Functions, SequencesExt

CONSTANTS
  Chains,     \* the chains the contracts are deployed on
  ChainIds,   \* the chain ids callers pass, deployed on or not
  Assets,     \* the listed assets, by symbol: the same on every chain
  Users,      \* the accounts
  Amounts,    \* Amounts[a]: the amounts of asset a callers pass
  LockAmounts, \* LockAmounts[a]: those they lock, unlock and report as locked
  Routes,     \* the pairs <<c, d>> for which callers of c lock for chain id d
  MaxSupply,  \* bound: MaxSupply[<<c, a>>] units of the underlying a exist on c
  MaxLocked   \* bound: units of each asset another chain reports as locked

ASSUME TokenAssumption ==
  /\ IsFiniteSet(ChainIds)
  /\ Routes \subseteq Chains \X ChainIds
  /\ IsFiniteSet(Users)
  /\ Amounts \in [Assets -> SUBSET Nat] /\ LockAmounts \in [Assets -> SUBSET Nat]
  /\ MaxSupply \in [Chains \X Assets -> Nat] /\ MaxLocked \in [Assets -> Nat]

VARIABLES
  wallet,       \* wallet[<<c, a>>][u]: u's balance of the underlying
  cash,         \* cash[<<c, a>>]: the credit token's own balance of the underlying
  credit,       \* credit[<<c, a>>][u]: u's balance of the credit token
  lockedFor,    \* lockedFor[<<c, a>>][u][d]: u's credit locked for chain d
  lockedFrom,   \* lockedFrom[<<c, a>>][u][s]: u's credit that chain s locked for c
  knownChainIds \* knownChainIds[<<c, a>>]: the ids the balances are summed over

funds == <<wallet, cash, credit>>
locks == <<lockedFor, lockedFrom, knownChainIds>>
tokenVars == <<wallet, cash, credit, lockedFor, lockedFrom, knownChainIds>>

Reserves == Chains \X Assets

TokenInit ==
  /\ wallet = [r \in Reserves |-> [u \in Users |-> 0]]
  /\ cash = [r \in Reserves |-> 0]
  /\ credit = [r \in Reserves |-> [u \in Users |-> 0]]
  /\ lockedFor = [r \in Reserves |-> [u \in Users |-> [d \in ChainIds |-> 0]]]
  /\ lockedFrom = [r \in Reserves |-> [u \in Users |-> [d \in ChainIds |-> 0]]]
  /\ knownChainIds = [r \in Reserves |-> <<>>]

-----------------------------------------------------------------------------
(* Views. *)

\* The loops over knownChainIds, which never holds an id twice.
lockedBalanceOf(c, a, u) ==
  SumFunctionOnSet(lockedFor[<<c, a>>][u], ToSet(knownChainIds[<<c, a>>]))

receivedAmountOf(c, a, u) ==
  SumFunctionOnSet(lockedFrom[<<c, a>>][u], ToSet(knownChainIds[<<c, a>>]))

unlockedBalanceOf(c, a, u) ==
  LET held == lockedBalanceOf(c, a, u) + receivedAmountOf(c, a, u)
  IN  IF credit[<<c, a>>][u] > held THEN credit[<<c, a>>][u] - held ELSE 0

collateralAmountOf(c, a, u) ==
  unlockedBalanceOf(c, a, u) + receivedAmountOf(c, a, u)

-----------------------------------------------------------------------------
(* Transfers of the underlying token. *)

\* MintableERC20.mint: anyone mints to anyone.
MintUnderlying(c, a, u, amount) ==
  /\ wallet' = [wallet EXCEPT ![<<c, a>>][u] = @ + amount]
  /\ UNCHANGED cash

\* transferFrom(u, creditToken, amount), by the pool or by u itself.
PayIn(c, a, u, amount) ==
  /\ wallet[<<c, a>>][u] >= amount
  /\ wallet' = [wallet EXCEPT ![<<c, a>>][u] = @ - amount]
  /\ cash' = [cash EXCEPT ![<<c, a>>] = @ + amount]

transferUnderlyingTo(c, a, u, amount) ==
  /\ cash[<<c, a>>] >= amount
  /\ cash' = [cash EXCEPT ![<<c, a>>] = @ - amount]
  /\ wallet' = [wallet EXCEPT ![<<c, a>>][u] = @ + amount]

-----------------------------------------------------------------------------
(* Calls that move credit. *)

mint(c, a, u, amount) ==
  credit' = [credit EXCEPT ![<<c, a>>][u] = @ + amount]

burn(c, a, u, receiver, amount) ==
  /\ credit[<<c, a>>][u] >= amount
  /\ credit' = [credit EXCEPT ![<<c, a>>][u] = @ - amount]
  /\ transferUnderlyingTo(c, a, receiver, amount)

\* credit after a transfer; the recipient's new balance is read after the first
\* update, so that a transfer to oneself changes nothing.
moved(c, a, sender, recipient, amount) ==
  LET less == [credit EXCEPT ![<<c, a>>][sender] = @ - amount]
  IN  [less EXCEPT ![<<c, a>>][recipient] = @ + amount]

\* Mutation: the inherited _transfer, without the check of the locks.
transferOfAll(c, a, sender, recipient, amount) ==
  /\ credit[<<c, a>>][sender] >= amount
  /\ credit' = moved(c, a, sender, recipient, amount)

\* _transfer: behind transfer, transferFrom and transferOnLiquidation.
transfer(c, a, sender, recipient, amount) ==
  /\ unlockedBalanceOf(c, a, sender) >= amount
  /\ credit' = moved(c, a, sender, recipient, amount)

-----------------------------------------------------------------------------
(* Calls that move locks. *)

\* Mutation: the id is pushed without a look at chainIdExists.
knowChainIdAgain(c, a, id) ==
  knownChainIds' = [knownChainIds EXCEPT ![<<c, a>>] = Append(@, id)]

knowChainId(c, a, id) ==
  knownChainIds' = [knownChainIds EXCEPT ![<<c, a>>] =
                      IF Contains(@, id) THEN @ ELSE Append(@, id)]

lockFor(c, a, u, amount, dst) ==
  /\ unlockedBalanceOf(c, a, u) >= amount
  /\ knowChainId(c, a, dst)
  /\ lockedFor' = [lockedFor EXCEPT ![<<c, a>>][u][dst] = @ + amount]
  /\ UNCHANGED lockedFrom

\* Mutation: without the require on the counter.
unlockForUnchecked(c, a, u, amount, src) ==
  /\ lockedFrom' = [lockedFrom EXCEPT ![<<c, a>>][u][src] = @ - amount]
  /\ UNCHANGED <<lockedFor, knownChainIds>>

unlockFor(c, a, u, amount, src) ==
  /\ lockedFrom[<<c, a>>][u][src] >= amount
  /\ lockedFrom' = [lockedFrom EXCEPT ![<<c, a>>][u][src] = @ - amount]
  /\ UNCHANGED <<lockedFor, knownChainIds>>

\* Mutation: the source chain is not made known.
onLockCreatedUnknown(c, a, u, amount, src) ==
  /\ lockedFrom' = [lockedFrom EXCEPT ![<<c, a>>][u][src] = @ + amount]
  /\ UNCHANGED <<lockedFor, knownChainIds>>

\* Mutation: the report replaces the counter instead of adding to it.
onLockCreatedOverwrites(c, a, u, amount, src) ==
  /\ knowChainId(c, a, src)
  /\ lockedFrom' = [lockedFrom EXCEPT ![<<c, a>>][u][src] = amount]
  /\ UNCHANGED lockedFor

onLockCreated(c, a, u, amount, src) ==
  /\ knowChainId(c, a, src)
  /\ lockedFrom' = [lockedFrom EXCEPT ![<<c, a>>][u][src] = @ + amount]
  /\ UNCHANGED lockedFor

\* The conditions under which burnLockedFor does not revert: its require, and
\* for a receiver other than the account those of _burn and of the transfer.
CanBurnLockedFor(c, a, u, receiver, amount, id) ==
  /\ lockedFor[<<c, a>>][u][id] >= amount
  /\ u # receiver => credit[<<c, a>>][u] >= amount /\ cash[<<c, a>>] >= amount

\* Mutation: the counter is not lowered.
burnLockedForKept(c, a, u, receiver, amount, id) ==
  /\ CanBurnLockedFor(c, a, u, receiver, amount, id)
  /\ UNCHANGED locks
  /\ IF u = receiver THEN UNCHANGED funds
                     ELSE burn(c, a, u, receiver, amount)

\* Mutation: the receiver is paid and the account keeps its credit.
burnLockedForUnburnt(c, a, u, receiver, amount, id) ==
  /\ CanBurnLockedFor(c, a, u, receiver, amount, id)
  /\ lockedFor' = [lockedFor EXCEPT ![<<c, a>>][u][id] = @ - amount]
  /\ UNCHANGED <<credit, lockedFrom, knownChainIds>>
  /\ IF u = receiver THEN UNCHANGED <<wallet, cash>>
                     ELSE transferUnderlyingTo(c, a, receiver, amount)

burnLockedFor(c, a, u, receiver, amount, id) ==
  /\ CanBurnLockedFor(c, a, u, receiver, amount, id)
  /\ lockedFor' = [lockedFor EXCEPT ![<<c, a>>][u][id] = @ - amount]
  /\ UNCHANGED <<lockedFrom, knownChainIds>>
  /\ IF u = receiver THEN UNCHANGED funds
                     ELSE burn(c, a, u, receiver, amount)

-----------------------------------------------------------------------------
(* The token alone: its pool and its adapter make any calls, in any order. *)

TotalOf(balances) == SumFunction(balances)
UnderlyingSupply(c, a) == TotalOf(wallet[<<c, a>>]) + cash[<<c, a>>]

TokenMintUnderlying == \E c \in Chains, a \in Assets, u \in Users : \E amount \in Amounts[a] :
  /\ UnderlyingSupply(c, a) + amount <= MaxSupply[<<c, a>>]
  /\ MintUnderlying(c, a, u, amount)
  /\ UNCHANGED <<credit, locks>>

\* Anyone may send underlying to the contract without a deposit.
TokenDonate == \E c \in Chains, a \in Assets, u \in Users : \E amount \in Amounts[a] :
  PayIn(c, a, u, amount) /\ UNCHANGED <<credit, locks>>

TokenTransfer == \E c \in Chains, a \in Assets, u, v \in Users : \E amount \in Amounts[a] :
  transfer(c, a, u, v, amount) /\ UNCHANGED <<wallet, cash, locks>>

TokenMint == \E c \in Chains, a \in Assets, u \in Users : \E amount \in Amounts[a] :
  /\ TotalOf(credit[<<c, a>>]) + amount <= MaxSupply[<<c, a>>]
  /\ mint(c, a, u, amount)
  /\ UNCHANGED <<wallet, cash, locks>>

TokenBurn == \E c \in Chains, a \in Assets, u, v \in Users : \E amount \in Amounts[a] :
  burn(c, a, u, v, amount) /\ UNCHANGED locks

TokenTransferUnderlyingTo == \E c \in Chains, a \in Assets, u \in Users : \E amount \in Amounts[a] :
  transferUnderlyingTo(c, a, u, amount) /\ UNCHANGED <<credit, locks>>

TokenLockFor ==
  \E c \in Chains, a \in Assets, u \in Users, d \in ChainIds :
  \E amount \in LockAmounts[a] :
  <<c, d>> \in Routes /\ lockFor(c, a, u, amount, d) /\ UNCHANGED funds

TokenUnlockFor ==
  \E c \in Chains, a \in Assets, u \in Users, s \in ChainIds :
  \E amount \in LockAmounts[a] :
  unlockFor(c, a, u, amount, s) /\ UNCHANGED funds

TokenOnLockCreated ==
  \E c \in Chains, a \in Assets, u \in Users, s \in ChainIds :
  \E amount \in LockAmounts[a] :
  /\ lockedFrom[<<c, a>>][u][s] + amount <= MaxLocked[a]
  /\ onLockCreated(c, a, u, amount, s)
  /\ UNCHANGED funds

TokenBurnLockedFor ==
  \E c \in Chains, a \in Assets, u, v \in Users, id \in ChainIds :
  \E amount \in LockAmounts[a] :
  burnLockedFor(c, a, u, v, amount, id)

TokenNext ==
  \/ TokenMintUnderlying \/ TokenDonate \/ TokenTransfer
  \/ TokenMint \/ TokenBurn \/ TokenTransferUnderlyingTo
  \/ TokenLockFor \/ TokenUnlockFor \/ TokenOnLockCreated \/ TokenBurnLockedFor

TokenSpec == TokenInit /\ [][TokenNext]_tokenVars

-----------------------------------------------------------------------------
(* What the token guarantees whoever calls it. *)

\* Every variable has its type; the counters and balances never go negative.
TokenTypeOK ==
  /\ wallet \in [Reserves -> [Users -> Nat]]
  /\ cash \in [Reserves -> Nat]
  /\ credit \in [Reserves -> [Users -> Nat]]
  /\ lockedFor \in [Reserves -> [Users -> [ChainIds -> Nat]]]
  /\ lockedFrom \in [Reserves -> [Users -> [ChainIds -> Nat]]]
  /\ knownChainIds \in [Reserves -> Seq(ChainIds)]

\* The chain ids the balance loops visit: every chain with an amount on it is
\* listed (a lock that is not would be spendable), and none is listed twice (it
\* would be counted twice).
LocksListed ==
  \A r \in Reserves :
    /\ IsInjective(knownChainIds[r])
    /\ \A u \in Users, d \in ChainIds :
         lockedFor[r][u][d] + lockedFrom[r][u][d] > 0 => Contains(knownChainIds[r], d)

\* The account's balance covers what the views hold back from it.
Covered(c, a, u) ==
  lockedBalanceOf(c, a, u) + receivedAmountOf(c, a, u) <= credit[<<c, a>>][u]

\* Locked credit cannot be spent by transferring it or locking it again: an
\* account whose balance covers its locks stops covering them only when credit
\* is burnt (the total falls) or another chain reports a lock for it.
OnlyBurnsOrReportsUncover ==
  [][\A c \in Chains, a \in Assets, u \in Users :
       Covered(c, a, u) /\ ~Covered(c, a, u)' =>
         \/ TotalOf(credit[<<c, a>>])' < TotalOf(credit[<<c, a>>])
         \/ receivedAmountOf(c, a, u)' > receivedAmountOf(c, a, u)]_tokenVars
=============================================================================
