# Verification of demo-crosschain-lending

TLA+ models of the cross-chain lending demo: the contracts of one chain, two
chains with the messages between them, the canisters that read, publish and
relay the chains' events, and the one that keeps the chains' prices. TLC checks
them on small instances. TLAPS proves, for every value of the constants, the
invariants of the contracts, that chains and canisters together implement an
abstract ledger of locks, and when the indexer misses no event.

    tlc -config <Run>.cfg <MC module>      one run (the table below)
    tlapm CrossChainProofs.tla             the proofs of a module

## 1. The system

A deposit on one chain serves as collateral of a loan on another.

```
 account --lockFor--> LendingPool (A) --LockCreated--> lock_indexer (A)
                        CreditToken: lockedFor[B] += n        | publish
                                                              v
                      CreditToken (B): lockedFrom[A] += n <-- lock_relayer (A)
                        via ChainsightAdapter.onLockCreated
 account --borrow, repay, unLockFor--> LendingPool (B)
 liquidator --liquidationCall-------->   lockedFrom[A] -= n
                                         --LockReleased--> unlock_indexer (B)
                                                              | publish
                                                              v
                      CreditToken (A): lockedFor[B] -= n, pays the liquidator
                        via ChainsightAdapter.unlockAssetOf <-- unlock_relayer (B)
```

| Component | State | Operations | Correct when |
|---|---|---|---|
| CreditToken (Solidity) | balances, the reserve's cash, per account and chain `amountLockedFor` and `amountLockedFrom`, `knownChainIds` | transfer, mint, burn, transferUnderlyingTo, lockFor, unlockFor, onLockCreated, burnLockedFor | nothing underflows, locked credit is not spendable, the list of chains is complete |
| LendingPool | the listed assets, the oracle's address | deposit, withdraw, borrow, repay, lockFor, unLockFor, liquidationCall | reserves are solvent, loans are covered, liquidations are fair and settle in full |
| DebtToken | debt per account | mint, burn | never negative |
| SimpleKeyValueOracle | price per symbol | setPrice | no price is zero when used |
| ChainsightAdapter | none | onLockCreated, unlockAssetOf | calls the token of the named asset |
| lock_indexer, unlock_indexer (canisters) | events by block, saved block, timer, subscribers | set_lend_pool, do_task, save_logs, save_logs_to, add_subscriber | every event is stored and published, once |
| publisher, subscriber, log_finder | subscribers | publish, find | every subscriber is called |
| lock_relayer, unlock_relayer | adapter addresses | on_update | one transaction for an event |
| oracle_manager | oracle addresses | set_value | no oracle is left at an old price |
| network table, event types | constants | from, get_network_info | an id names the same chain everywhere |
| manager, metrics, macros, scripts | - | - | not part of the protocol |

What is hard here: a canister gives way at every await, so executions of its
methods overlap; a trap undoes everything since the last await and nothing
before it; no message between the chains is acknowledged or repeated, and their
order is arbitrary; an account keeps acting on both chains while messages about
its locks are under way; and the arithmetic rounds. The list `hazards` in
PROJECT.json names the places.

## 2. Modules

| Module | Models | Extends |
|---|---|---|
| CreditToken | `contracts/token/CreditToken.sol`, its underlying token | |
| LendingPool | `contracts/pool/LendingPool.sol`, DebtToken, SimpleKeyValueOracle, ChainsightAdapter | CreditToken |
| LockLedger | abstract: what the demo promises of a lock | |
| CrossChainLending | several chains, the way of an event through indexer and relayer | LendingPool; refines LockLedger |
| Networks | `chainsight/src/network` | |
| LogIndexer | `lock_indexer`, `unlock_indexer`, `publisher`, `subscriber`, `log_finder` | Networks |
| LockRelay | `lock_relayer`, `unlock_relayer` behind their indexer | LogIndexer |
| OracleManager | `oracle_manager` | Networks |
| SumProofs | sums of functions over finite sets, and the loops that take amounts from a list | |
| CreditTokenProofs | type and list invariants of the token, what its locks hold back | CreditToken, SumProofs |
| LendingPoolProofs | type, list and solvency invariants of the pool, its loans, locks and liquidations | LendingPool, CreditTokenProofs |
| LockLedgerProofs | the ledger conserves what is locked | LockLedger |
| CrossChainProofs | the refinement, and what follows from it | CrossChainLending, LendingPoolProofs |
| LogIndexerProofs | the indexer misses no event, and publishes none twice | LogIndexer |
| LockRelayProofs | the relayer sends each event once, to the chain it names, and drops none silently | LockRelay, LogIndexerProofs |
| OracleManagerProofs | no oracle is left at a price from before a call | OracleManager |
| MC... | the instances TLC checks | the module of the name |

`CreditToken` has one operator for each function of the contract: its guards are
the `require`s, its primed variables the assignments. Each says what it changes
and the transaction that makes the call says what else does; `TokenNext` lets an
unknown pool and adapter make any calls in any order. All chains live in one
model: every variable is indexed by the reserve `<<chain, asset>>`.

In `LendingPool` an action is one transaction. A revert anywhere undoes all of
it, so that a reverting transaction is no step, and the order of checks and
transfers within one matters only where a transfer uses what an earlier one
paid: `LiquidationCall` keeps that order, since the liquidator can pay with what
the same call paid out. `receipt` holds the lock events of the last transaction.

`CrossChainLending` composes the chains. `transit` is a bag of events that were
emitted and not relayed; `RelayLockCreated` and `RelayLockReleased` take one and
make its transaction on the chain it names; `Reject` is a transaction that
reverts there (the relayer prints the error and goes on), `Lose` a message lost
by a failing call, both of which put the event into `dropped`. Nothing orders two
events: the two indexers are separate canisters, and the events of a query leave
in the order of a `HashMap`.

`LockLedger` is the promise behind it, with no contract or canister in it: for
each account, asset and pair of chains one entry, which says how much the first
chain keeps locked and where those units are: on their way to the second chain,
counted there as collateral, on their way back, or lost. A step is one move
between two places of one entry, or the release of what one chain counts for one
account. `CrossChainLending` gives the refinement mapping (`Entry`): two counters of
two contracts, and sums over the events in the two bags. `ImplementsLedger` says
that every step of every contract and relayer is at most one such move.

`LogIndexer` is one canister. A task is one execution of `save_logs` or
`save_logs_to`; its phase names the await it stands at and whether the answer is
there. Each action is the code from one await to the next. `initialized`,
`setup`, `start`, `saved`, `stored` are the canister's stores and the
`set_lend_pool` calls under way, `received` and `undelivered` observe the relayers.
An event whose `peer` is not among the ids of `Networks` panics its conversion.
`Restart` is the deployment script run again: it stops the canisters, which waits
for the calls under way, deletes them and installs them anew, with nothing kept.
`save_logs` before `set_lend_pool` writes to an uninitialised stable memory and
traps, so tasks wait for set-up.

`LockRelay` puts the relayer behind it. `call[t]` is the `on_update` call that
task `t` of the indexer waits for: one transaction for each event of the batch, each
with its await, then the answer; a missing adapter address traps in the middle of
the batch, and publish sees an error. `SendFails` covers a request that never
left, a transaction the node refused, and an answer that was lost after the
transaction was executed. `Networks` has the table of ids and keys, so that the
chain a transaction is signed for is derived and not assumed.

`OracleManager` has one action for `set_value` up to its first await and one for each
answer. A write that fails is tried once more, and the second answer is ignored,
as in the code. Calls may overlap, and `set_oracle_address` may replace an address
while a call has the old one in its copy.

## 3. What is abstracted

* Allowances are given. Amounts have no upper bound: overflow of 256 bits, which
  reverts, is not modelled, and never wraps in this version of Solidity.
* Every chain lists the same assets, each once, as the deployment does, and every
  symbol names the same asset.
* In the composition the adapter is called by the relayers only. The contract does
  not enforce it: `unlockAssetOf` and `onLockCreated` check no caller
  (ChainsightAdapter.sol:26 and :45). LockConservation, ReleaseWithinLock and
  ImplementsLedger, and the theorems CrossImplementsLedger, CrossConserves and
  CrossReleaseWithinLock, rest on this assumption: a report without a lock, or a
  release without a liquidation, makes the counters of two chains differ. Solvent,
  LocksListed, LiquidationSettles, OnlyOwnerUncoversLock and the types do not:
  `PoolSpec` lets any such call happen (`RelayedCalls`), and the theorems of
  LendingPoolProofs are about `PoolSpec`.
* The loops over `knownChainIds` are sums over the set of its elements: `LocksListed`,
  proved, says that it has no duplicates. The loop of a liquidation takes from
  the counters in the list's order, as the code does.
* No reorganisation of a chain. A block's events, once logged, stay.
* In the health factor, the difference of LendingPool.sol:141 is negative, and the
  call reverts, only for a release above the received amount, for which
  `unlockFor` reverts as well.
* `setPrice` is open to everyone; the prices of the runs are small sets.
* A second `set_lend_pool` could also change address and network: every script
  calls it once for a canister, with one network, and the model keeps both.
* In `LockRelay` a batch is a set: the order of a chunk's events is that of a
  `HashMap`. Signing and nonces belong to a library outside the repository; a
  transaction refused for its nonce is one case of `SendFails`.
* In `OracleManager` a price is known by the number of the call that brought it.
* Endpoints, names and candid types are left out; of a transaction the chain, the
  chain id it names and the signer are kept.

## 4. Runs

| Run | Module | Result | Bounds |
|---|---|---|---|
| CreditToken | MCCreditToken | TokenTypeOK, LocksListed, OnlyBurnsOrReportsUncover hold | one reserve, two accounts, own chain and a foreign one, two units |
| PoolHealth | MCLendingPool | PoolTypeOK, Solvent, BorrowKeepsHealthy, FairSeizure hold | two assets with unit 1 and 10, BASE 10, prices 3 and 60 of tusd, no locks |
| PoolLiquidation | MCLendingPool | LocksListed, LiquidationSettles hold | one account, 3 units here, up to 2 received from each of two chains |
| CrossLocks | MCCrossChain | LockConservation, ReleaseWithinLock, ImplementsLedger hold | two chains, locks for both of both, one lost event, no loans |
| CrossLoans | MCCrossChain | the same, Solvent and OnlyOwnerUncoversLock hold | dai on c1 as collateral of tusd on c2, one unit, a price that makes the loan liquidatable |
| Relay | MCLockRelay | RelayTypeOK, NoEventSkipped, PublishedAtMostOnce, NothingDroppedSilently, SentAtMostOnce, SentToNamedChain, SavedNeverFalls, SentOrReported hold | one task, one relayer, events for Arbitrum and for an unknown id, 3 blocks, window 2, chunks of 2, one failing call, one second deployment |
| IndexerOverlap | MCLogIndexer | IndexerTypeOK, NoEventSkipped hold | two tasks, two overlapping set_lend_pool calls, 3 blocks, one fault, one second deployment |
| Oracles | MCOracleManager | OracleTypeOK, NoStalePrice, EveryOracleTried hold | two networks with two addresses each, two calls of set_value |
| PoolUnlock | MCLendingPool | **violated**: UnlockKeepsHealthy | one asset, two accounts, two units, any relayed calls |
| CrossPayout | MCCrossChain | **violated**: LiquidationPaysOut | as CrossLoans |
| IndexerSkips | MCLogIndexer | **violated**: NoEventSkipped | two blocks between the two queries of a task |
| IndexerTwice | MCLogIndexer | **violated**: PublishedAtMostOnce | two tasks |

What the passing runs show beyond the contracts' own invariants:

* *CrossLocks, CrossLoans*: locks, unlocks, withdrawals, liquidations and relays may
  overtake each other in any order and an event may be lost, and still, with the
  relayers as the adapter's only callers, each locked unit is in one place, a release never asks for more than its lock holds,
  and only the owner of a lock can take away what backs it.
* *Relay*: one transaction at most for a lock, to the chain the lock names and from
  the funded account; a batch that the indexer takes for delivered was sent, event
  by event, or an error was printed; and a lock is in the end sent or reported,
  unless an event with an unknown id blocks the indexer or it is deployed anew.
  A second deployment starts with the node's latest block, which its predecessor
  may have read: the events of that one block can be sent twice, and the
  properties say so.
* *Oracles*: an oracle that a call has dealt with has the value of that call, of one
  that overlapped it, or of a later one, unless its write failed twice. So the chains
  agree on the price after a call that nothing overlapped; after calls that
  overlapped, each has the price of one of them, and these may differ.

Why the bounds are enough. The token's operations act on one account or two, one
chain id, and one amount: two accounts (payer and receiver, owner and
liquidator), two chain ids and two units make every guard pass and fail, and
let a lock be split, doubled and left half covered. `BASE = 10` with a unit of
1 and of 10 makes every division of the health factor and of a liquidation
inexact; prices below and above `BASE` round both ways. A liquidation with 3
units held and two counters of up to 2 ends before, inside and after each
counter. The prices of PoolUnlock and CrossLoans exist to make accounts
unhealthy. For the indexer, a window of 2 in a chain of 3 blocks is left behind,
hit and overshot, from each block the store can start with; two tasks reach every
overlap of two executions. In Relay a chunk of 2 is a batch that can trap after
its first event. Two calls of `set_value` are one that overlaps with a next one or
does not. Every bound is a constant with `bound` in its comment, and appears in a
guard only.

`MaxAdvance` is no bound but an assumption on time: how many blocks are mined
between the two RPC queries of one task. The passing runs have 1. The code does
not ensure it, and the chains of the demo have blocks every few seconds or
faster: IndexerSkips has 2 and loses an event. So NoEventSkipped holds under
the assumption and not without it.

PublishedAtMostOnce, SentAtMostOnce and SavedNeverFalls hold for one task at a
time, which a timer of one minute gives as long as an execution takes less than
that and nobody calls `save_logs`. The code does not ensure that either:
IndexerTwice is what happens otherwise.
SentOrReported is checked for one task too.

### Deadlock

Deadlock is checked in every run: the deposit, donation and price actions, new
set-up calls of the indexer, or new addresses of an oracle are always possible.

### Fairness

SentOrReported assumes `Fairness` of LockRelay: the deployment calls `set_lend_pool`
and `do_task`, whose timer starts `save_logs` again and again (weak fairness of
`SetLendPool`, `SetLendPoolAnswered` and of `SaveLogs` of each task), and the platform
answers every call it accepted, or fails it: weak fairness of the steps of each
task and of the relayer it waits for. Calls fail at most `MaxFaults` times. Nothing is
assumed of the chain (`Mine`), of subscriptions, of a caller of `save_logs_to`, of
`set_chainsight_adapter_address` or of a deployment.

EveryOracleTried assumes that the platform answers every write (weak fairness of
`Answer`), with success or with an error; nobody need call `set_value` again.

## 5. Findings

1. **unLockFor does not protect the loan** (PoolUnlock). The released collateral is
   taken off a sum of another scale (LendingPool.sol:141).
2. **A liquidator may pay and get nothing** (CrossPayout). `withdraw` ignores locks
   and the release on the first chain then reverts, unnoticed.
3. **An event can be skipped for good** (IndexerSkips, lock_indexer/src/lib.rs:177).
4. **An event can be relayed twice** (IndexerTwice, lock_indexer/src/lib.rs:123).

The runs of CrossChainLending assume that 4 does not happen: an event relayed twice
breaks what they check, which is the mutant `RelayLockCreatedTwice`.

One more limit of the code, which no document of it contradicts: a liquidation
asks for all of the seized collateral in cash on the chain of the loan, also for
the part that is released on another chain (LendingPool.sol:283). The demo's
script deposits that cash by hand first.

## 6. Proofs

All proofs are for arbitrary values of the constants under the assumptions the
modules name: `TokenAssumption` and `PoolAssumption` (finite sets of accounts, chain
ids and assets; amounts, prices and bounds natural; units and BASE positive),
`CrossAssumption` (a chain has an id), `IndexerAssumption`, `RelayAssumption`,
`OracleAssumption`. TLC evaluates them in the runs. A theorem that needs more says
so in its statement: `MaxAdvance <= 1` in IndexerSkipsNone and RelaySkipsNone, and
`Serial` in IndexerPublishesOnce, IndexerOnlyAdvances and the three theorems of the
relay that follow from them. The code ensures neither (IndexerSkips, IndexerTwice).
The theorems about CrossSpec that relate two chains have the relayers as the only
callers of the adapter (section 3). The proofs are in eight modules; every safety and every
action property of a passing run has its theorem.

**The token.**

* `TokenTypeCorrect`: `TokenSpec => []TokenTypeOK`. No require of the token leaves
  a balance or counter to underflow. The invariant is inductive by itself,
  given a lemma per call.
* `TokenLocksListed`: `TokenSpec => []LocksListed`. Inductive with the type
  invariant. The lemma `LocksStayListed` covers every call: a step may raise
  counters only of an id it lists, and lists an id only once.
* `TokenUncovers`: locked credit is not spent (OnlyBurnsOrReportsUncover). The
  contract computes what is locked in a loop over `knownChainIds`. `ViewsAreTotals`
  turns it into a sum over all chains, which needs `LocksListed`: an id listed twice
  would count double, one that is not listed not at all. Of that sum a lemma per
  call says how it changes, and `KeepsCovers` is the property in its terms.

**The pool.**

* `PoolInvariant`: `PoolInv`, the conjunction of the parts of the type invariant,
  `LocksListed` and `Solvent`, is inductive for the pool. `PoolTypeCorrect`,
  `PoolLocksListed` and `PoolSolvent` follow. Solvency alone is not inductive: that
  a payout does not drive the cash below zero needs the types, and that a
  liquidation burns no more than there is needs that free credit is a part of
  the balance (`UnlockedBalance`).
* `PoolOwnerUncovers`: only its owner takes the backing of a lock away. Not an
  invariant but a fact about the steps from states of `PoolInv`, one lemma for each
  transaction. A liquidation burns free credit alone, a payout no more than the
  lock it releases, and `withdraw`, which ignores locks, pays its caller.
* `PoolBorrowKeepsHealthy`: the account is short by less than one unit of account
  after a loan. The USD value of a sum is at most one more than the sum of the
  values (`DivOfSum`), a quotient of the health factor compares as the product
  (`DivBounds`), and the other debts and all collateral stay as they are.
* `PoolFairSeizure`: the two divisions of a liquidation round in favour of the
  account but for one unit of debt (`FairAmounts`), whichever of collateral, debt
  and the half of it is what limits the amount (`ActualDebtIsFair`).
* `PoolLiquidationSettles`: the loop over `knownChainIds` takes what it is asked for
  (`TakenTotal`). It is an induction over the list: what is taken from the
  first n chains is the amount or all they count, whichever is less (`RunningTake`).
  The events carry what each counter falls by (`AnnouncedIs`).

The heart of the invariant's proof is `LiquidationEffect`: whatever the prices and the
rounding, a liquidation changes the state as `LiquidationChange` says, by some
natural numbers, none larger than what it is taken from. Types, lists and
solvency are then shown of `LiquidationChange`, for one asset on both sides and
for two. Totals are `SumFunction` of the community modules; `SumProofs` derives
from its definition what a change of one value does to the sum, that summing over
a list without duplicates is summing over its set, and what a loop takes that
stops when it has enough. The induction schema of the library takes a predicate
as a parameter, which no installed prover instantiates; `SubsetInduction` and
`IntervalInduction` state it for a set of good values instead.

**The ledger and its implementation.**

* `LedgerConserves`, `LedgerBacks`: in LockLedger every unit is in one place, and no
  chain counts what the other does not hold. Each move takes from one place
  what it adds to another.
* `CrossImplementsLedger`: `CrossSpec => ImplementsLedger`, for any number of chains,
  assets and accounts and any number of lost events. The inductive invariant is
  `CrossInv`: the pool's invariant, and that both bags hold finitely many copies of
  well-formed events. It is needed twice: what a bag carries is then a natural
  number that changes by the amount of the event put in or taken out
  (`CarriedPlus`, `CarriedMinus`), and the entries *after* a step are natural too, so
  that an event that arrives takes from its place no more than was there. Each
  step that touches a lock is shown to change the entries in one way (`LockedOnce`,
  `ReleasedOnce`, `ReleasedFromEach`, `Arrived`, `Settled`, `Gone`), each way to be a
  move.
* `CrossConserves` is `LedgerConserves` through the refinement: conservation is not
  proved again for the contracts. `CrossReleaseWithinLock` follows from it: an event on
  its way back is part of what its lock holds. `CrossSolvent`, `CrossOwnerUncovers` and
  `CrossLiquidationSettles` carry what was shown of the pool over to the composition:
  a relay is one of the pool's calls, a refusal or a loss changes no contract.

**The canisters.**

* `IndexerTypeCorrect` holds without any assumption on time. `IndexerSkipsNone`:
  `MaxAdvance <= 1` implies NoEventSkipped, for any number of overlapping executions,
  any window, any faults and deployments. NoEventSkipped is not inductive:
  `IndexerInv` adds, for each phase of an execution, which blocks are in the store
  by then and which come with what it found. `AddEvents` replaces what the store
  had of a block; nothing is lost by it because an answer has a block with all its
  events or none (`Logged`). The assumption (`Timely`) is used for
  that part only, at `BlockAnsweredStep`: that the last block of the range exists
  must mean that all before it were there when the events were asked for.
* `IndexerPublishesOnce`, `IndexerOnlyAdvances`: if executions do not overlap
  (`Serial`), no event is published twice and the saved block only rises, however
  many blocks are mined in between. `OnceInv` adds what is still fresh: no relayer
  knows an event at or behind the saved block, one that is still to be published,
  or one behind the block a new store starts with. IndexerTwice shows that two
  overlapping executions are enough to break it.
* `RelayTypeCorrect`, `RelaySkipsNone`, `RelayPublishesOnce`, `RelayOnlyAdvances`: a step
  of indexer and relayer together is one of the indexer, a stutter, or a trap, which
  is a failed call to the indexer but for the count of faults. The indexer's lemmas
  are about its steps, so each of its invariants holds here too. `RelayInv` adds
  that every call has an execution that waits for it.
* `RelayDropsNothing`: with overlapping executions too, a batch taken for delivered
  was sent or reported event by event. `DroppedInv` follows an event of the chunk:
  in the rest of the batch, under way, sent, or printed.
* `RelaySendsOnce`: SentAtMostOnce, if executions do not overlap. `SentInv` needs
  more than `OnceInv`, since a call that traps has sent a part of its batch: what is
  unread, and what the call still owes, has no transaction of this deployment.
* `RelaySendsToNamed`: SentToNamedChain for every home network but the development
  chain, and adapters on the networks in `Agreed`. The table of networks is not
  consistent for the others: the development chain is known as 0 and 1337 and
  signed for as 31337, and transactions to the Ethereum networks are signed with
  another key than the one of the account the canisters show.
* `OracleTypeCorrect`, `NoOracleLeftStale`: each oracle of a call is still to be
  written, has a value that no earlier call brought, or was given up (`Fresh`). A call
  that writes has something to write, so it has not ended before any other
  started (`Ended`), and its value is stale for none.

**Only model-checked**: the liveness properties SentOrReported and EveryOracleTried,
as the prover does neither fairness nor ENABLED; and the four properties that a
run violates.

## 7. Not modelled, and why

* `initReserve`, `setOracle`, `setChainsight`, `initialize`: the owner's calls, made once by
  the deployment. A reserve initialised twice would be listed twice; the models
  start after the deployment with each asset listed once.
* A second `set_lend_pool` of a canister with another network or address: no script
  makes one.
* An upgrade that keeps a canister: the scripts delete and reinstall.
* Queries (`events_latest_n`, `events_from_to`, `get_sources`, `get_ethereum_address`
  and the like): they change nothing and no other part uses their results.
* `manager`, `rewards`, `metrics`, `config`, `indexing`: records of cycles and settings that
  no modelled state depends on. `chainsight-generate`: macros without behaviour of their
  own.
* Reorganisations, gas, signing and nonces, the candid interfaces, the scripts.
* That a liquidation is possible at all: the pool asks for the whole collateral in
  cash on the chain of the loan (LendingPool.sol:283), which the demo provides by
  hand.
