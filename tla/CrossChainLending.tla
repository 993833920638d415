-------------------------- MODULE CrossChainLending --------------------------
(***************************************************************************)
(* The chains together with the canisters between them.  For every event   *)
(* LendingPool emits, the indexer of the chain publishes it to a relayer,  *)
(* which sends one transaction to the chain the event names:               *)
(*                                                                         *)
(*   LockCreated   on c, peer d  ->  onLockCreated(.., src = c) on d       *)
(*   LockReleased  on c, peer s  ->  unlockAssetOf(.., dst = c) on s       *)
(*                                                                         *)
(* Here the way of an event is one bag it is taken from: the indexers of   *)
(* the two kinds run independently and publish the blocks of a query in    *)
(* the order of a HashMap, so nothing orders two events.  An event can be  *)
(* lost on the way (publish and the relayers print an error and go on; a   *)
(* relayer that traps drops the rest of its batch), and its transaction    *)
(* can revert.  That no event is relayed twice is what the indexers must   *)
(* guarantee: module LogIndexer says when they do.                         *)
(*                                                                         *)
(* The environment: onLockCreated and unlockAssetOf are called for events  *)
(* alone.  That is what the relayers do; the adapter does not check who    *)
(* calls it (ChainsightAdapter.sol:26 and :45).  What relates the counters *)
(* of two chains rests on this; what holds of each chain by itself does    *)
(* not, and PoolSpec, where any such call is made, has it.                 *)
(***************************************************************************)
EXTENDS LendingPool, Bags

CONSTANT MaxLost  \* bound: events lost on their way

ASSUME CrossAssumption == MaxLost \in Nat /\ Chains \subseteq ChainIds

VARIABLES
  transit,  \* events emitted and not relayed yet
  dropped,  \* events that were lost, or whose transaction reverted
  lost      \* how many were lost

crossVars == <<poolVars, transit, dropped, lost>>

CrossInit == PoolInit /\ transit = EmptyBag /\ dropped = EmptyBag /\ lost = 0

-----------------------------------------------------------------------------
\* A transaction of an account, and what it emits.
ChainStep ==
  /\ UserSteps \/ PriceSteps
  /\ transit' = transit (+) SetToBag(receipt')
  /\ UNCHANGED <<dropped, lost>>

\* Mutation: the event is not used up by its relay.
RelayLockCreatedTwice(e) ==
  /\ e.event = "LockCreated" /\ e.peer \in Chains
  /\ OnLockCreated(e.peer, e.asset, e.account, e.amount, e.emitter)
  /\ UNCHANGED <<transit, dropped, lost>>

\* lock_relayer.on_update: one onLockCreated transaction for an event.
RelayLockCreated(e) ==
  /\ e.event = "LockCreated" /\ e.peer \in Chains
  /\ OnLockCreated(e.peer, e.asset, e.account, e.amount, e.emitter)
  /\ transit' = transit (-) SetToBag({e})
  /\ UNCHANGED <<dropped, lost>>

\* unlock_relayer.on_update: one unlockAssetOf transaction for an event.
RelayLockReleased(e) ==
  /\ e.event = "LockReleased" /\ e.peer \in Chains
  /\ UnlockAssetOf(e.peer, e.asset, e.account, e.to, e.amount, e.emitter)
  /\ transit' = transit (-) SetToBag({e})
  /\ UNCHANGED <<dropped, lost>>

\* The transaction reverts: the relayer prints the error and forgets the event.
Reject(e) ==
  /\ e.event = "LockReleased" /\ e.peer \in Chains
  /\ ~CanBurnLockedFor(e.peer, e.asset, e.account, e.to, e.amount, e.emitter)
  /\ transit' = transit (-) SetToBag({e})
  /\ dropped' = dropped (+) SetToBag({e})
  /\ receipt' = {}
  /\ UNCHANGED <<tokenVars, debt, price, lost>>

Lose(e) ==
  /\ lost < MaxLost
  /\ lost' = lost + 1
  /\ transit' = transit (-) SetToBag({e})
  /\ dropped' = dropped (+) SetToBag({e})
  /\ receipt' = {}
  /\ UNCHANGED <<tokenVars, debt, price>>

RelayStep == \E e \in BagToSet(transit) :
               RelayLockCreated(e) \/ RelayLockReleased(e) \/ Reject(e) \/ Lose(e)

CrossNext == ChainStep \/ RelayStep

CrossSpec == CrossInit /\ [][CrossNext]_crossVars

-----------------------------------------------------------------------------
(* Properties. *)

\* The amount of asset a that the events of a bag carry for u, from c to d.
Carried(bag, event, a, u, c, d) ==
  SumFunction([e \in {x \in BagToSet(bag) : /\ x.event = event /\ x.asset = a
                        /\ x.account = u /\ x.emitter = c /\ x.peer = d}
                 |-> e.amount * bag[e]])

\* What became of the lock that chain s keeps for chain d.
Entry(s, d, a, u) ==
  [locked  |-> lockedFor[<<s, a>>][u][d],
   out     |-> Carried(transit, "LockCreated", a, u, s, d),
   counted |-> lockedFrom[<<d, a>>][u][s],
   back    |-> Carried(transit, "LockReleased", a, u, d, s),
   gone    |-> Carried(dropped, "LockCreated", a, u, s, d)
                 + Carried(dropped, "LockReleased", a, u, d, s)]

\* The chains and the canisters keep one ledger between them.
Ledger == INSTANCE LockLedger WITH
  Accounts   <- Users,
  Quantities <- UNION {LockAmounts[a] : a \in Assets},
  ledger     <- [p \in Chains \X Chains \X Assets \X Users |-> Entry(p[1], p[2], p[3], p[4])]

\* Every unit a chain keeps locked is in exactly one place, whatever the order
\* in which locks, unlocks, liquidations and their relays take place: on the
\* counter of the other chain, under way, or lost.
LockConservation == Ledger!Conserved

\* No step of a contract or a relayer does more than one move of the ledger: an
\* amount is never in two places, and what is free again has come back first.
ImplementsLedger == Ledger!LedgerSpec

\* A release never asks for more than the lock holds: when its transaction
\* reverts, it is for want of credit or cash, never of the lock.
ReleaseWithinLock ==
  [][\A e \in BagToSet(transit) :
       Reject(e) => lockedFor[<<e.peer, e.asset>>][e.account][e.emitter] >= e.amount]_crossVars

\* "If the collateral is liquidated on the second chain, the deposit assets are
\* released on the first chain to the liquidator" (README.md:8).  The code does
\* not ensure it: withdraw ignores locks, and the cash may be lent out.
LiquidationPaysOut ==
  [][\A e \in BagToSet(transit) : Reject(e) => e.to = e.account]_crossVars
=============================================================================
