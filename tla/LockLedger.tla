----------------------------- MODULE LockLedger -----------------------------
(***************************************************************************)
(* What the demo promises of a lock, without contracts and canisters: one  *)
(* ledger for all chains.  A position is what an account has locked of an  *)
(* asset on one chain for another.  Every unit of it is in one of four     *)
(* places: reported and not counted on the other chain yet, counted there, *)
(* on its way back, or lost; and it comes free only by coming back.        *)
(***************************************************************************)
EXTENDS Integers

CONSTANTS
  Chains, Assets, Accounts,
  Quantities  \* the amounts that can be locked at once

VARIABLE
  ledger  \* ledger[p]: the entry of position p

\* A position: locked on the first chain, for the second.
Positions == Chains \X Chains \X Assets \X Accounts

\* What the first chain holds, and the four places it can be in.
Entries == [locked : Nat, out : Nat, counted : Nat, back : Nat, gone : Nat]

Empty == [locked |-> 0, out |-> 0, counted |-> 0, back |-> 0, gone |-> 0]

-----------------------------------------------------------------------------
(* The entries one move after entry e. *)

Locks(e) == {[e EXCEPT !.locked = @ + n, !.out = @ + n] : n \in Quantities}

Arrivals(e) == {[e EXCEPT !.out = @ - n, !.counted = @ + n] : n \in 0..e.out}

Releases(e) == {[e EXCEPT !.counted = @ - n, !.back = @ + n] : n \in 0..e.counted}

Settlements(e) == {[e EXCEPT !.back = @ - n, !.locked = @ - n] : n \in 0..e.back}

Losses(e) ==
  {[e EXCEPT !.out = @ - n, !.gone = @ + n] : n \in 0..e.out}
    \cup {[e EXCEPT !.back = @ - n, !.gone = @ + n] : n \in 0..e.back}

Moves(e) == Locks(e) \cup Arrivals(e) \cup Settlements(e) \cup Losses(e)

\* An unlock or a liquidation takes from what one chain counts for one account of
\* one asset, wherever it is locked.
Backing(d, a, u) == {p \in Positions : p[2] = d /\ p[3] = a /\ p[4] = u}

LedgerInit == ledger = [p \in Positions |-> Empty]

LedgerNext ==
  \E moved \in {{p \in Positions : ledger'[p] # ledger[p]}} :
    /\ ledger' \in [Positions -> Entries]
    /\ \/ \E p \in Positions : moved = {p} /\ ledger'[p] \in Moves(ledger[p])
       \/ \E d \in Chains, a \in Assets, u \in Accounts :
            /\ moved \subseteq Backing(d, a, u)
            /\ \A p \in moved : ledger'[p] \in Releases(ledger[p])

LedgerSpec == LedgerInit /\ [][LedgerNext]_ledger
-----------------------------------------------------------------------------
\* Nothing is counted twice, and nothing vanishes.
Conserved ==
  \A p \in Positions :
    LET e == ledger[p] IN e.locked = e.out + e.counted + e.back + e.gone

\* So no chain counts as collateral what the other does not hold, and a release
\* that arrives finds all it asks for.
Backed == \A p \in Positions : ledger[p].counted + ledger[p].back <= ledger[p].locked
=============================================================================
