-------------------------- MODULE LockLedgerProofs --------------------------
(***************************************************************************)
(* The ledger conserves what is locked.  A move takes n from one place of  *)
(* one entry and adds it to another, so Conserved is inductive together    *)
(* with the type of the ledger.                                            *)
(***************************************************************************)
EXTENDS LockLedger, TLAPS

Balanced(e) == e.locked = e.out + e.counted + e.back + e.gone

LedgerInv == ledger \in [Positions -> Entries] /\ \A p \in Positions : Balanced(ledger[p])

\* One move keeps an entry balanced.
LEMMA MoveBalances ==
  ASSUME Quantities \subseteq Nat, NEW e \in Entries, Balanced(e),
         NEW f \in Moves(e) \cup Releases(e)
  PROVE  Balanced(f)
<1> USE DEF Entries, Balanced
<1>1. CASE f \in Locks(e)
  <2>1. PICK n \in Quantities : f = [e EXCEPT !.locked = @ + n, !.out = @ + n]
    BY <1>1 DEF Locks
  <2>2. n \in Nat
    OBVIOUS
  <2> QED BY <2>1, <2>2
<1>2. CASE f \in Arrivals(e)
  <2>1. PICK n \in 0..e.out : f = [e EXCEPT !.out = @ - n, !.counted = @ + n]
    BY <1>2 DEF Arrivals
  <2> QED BY <2>1
<1>3. CASE f \in Settlements(e)
  <2>1. PICK n \in 0..e.back : f = [e EXCEPT !.back = @ - n, !.locked = @ - n]
    BY <1>3 DEF Settlements
  <2> QED BY <2>1
<1>4. CASE f \in Losses(e)
  <2>1. CASE \E n \in 0..e.out : f = [e EXCEPT !.out = @ - n, !.gone = @ + n]
    BY <2>1
  <2>2. CASE \E n \in 0..e.back : f = [e EXCEPT !.back = @ - n, !.gone = @ + n]
    BY <2>2
  <2> QED BY <1>4, <2>1, <2>2 DEF Losses
<1>5. CASE f \in Releases(e)
  <2>1. PICK n \in 0..e.counted : f = [e EXCEPT !.counted = @ - n, !.back = @ + n]
    BY <1>5 DEF Releases
  <2> QED BY <2>1
<1> QED BY <1>1, <1>2, <1>3, <1>4, <1>5 DEF Moves

-----------------------------------------------------------------------------
(* How a detailed specification shows that a step of its own is one of the *)
(* ledger's: by what the step does to each entry.                          *)

\* One entry makes a move, the others stay.
LEMMA MoveIsStep ==
  ASSUME ledger \in [Positions -> Entries], ledger' \in [Positions -> Entries],
         NEW p \in Positions, ledger'[p] \in Moves(ledger[p]),
         \A q \in Positions : q # p => ledger'[q] = ledger[q]
  PROVE  [LedgerNext]_ledger
<1>1. CASE ledger'[p] = ledger[p]
  BY <1>1
<1>2. CASE ledger'[p] # ledger[p]
  <2>1. {q \in Positions : ledger'[q] # ledger[q]} = {p}
    BY <1>2
  <2> QED BY <2>1 DEF LedgerNext
<1> QED BY <1>1, <1>2

\* What one chain counts for an account falls, the other entries stay.
LEMMA ReleaseIsStep ==
  ASSUME ledger \in [Positions -> Entries], ledger' \in [Positions -> Entries],
         NEW d \in Chains, NEW a \in Assets, NEW u \in Accounts,
         \A p \in Backing(d, a, u) : ledger'[p] \in Releases(ledger[p]),
         \A p \in Positions : p \notin Backing(d, a, u) => ledger'[p] = ledger[p]
  PROVE  [LedgerNext]_ledger
<1> DEFINE changed == {p \in Positions : ledger'[p] # ledger[p]}
<1>1. changed \subseteq Backing(d, a, u)
  OBVIOUS
<1>2. \A p \in changed : ledger'[p] \in Releases(ledger[p])
  BY <1>1
<1> QED BY <1>1, <1>2 DEF LedgerNext

-----------------------------------------------------------------------------
LEMMA LedgerInvInit == LedgerInit => LedgerInv
BY DEF LedgerInit, LedgerInv, Empty, Entries, Balanced

LEMMA LedgerInvStep ==
  ASSUME Quantities \subseteq Nat, LedgerInv, [LedgerNext]_ledger
  PROVE  LedgerInv'
<1>1. CASE UNCHANGED ledger
  BY <1>1 DEF LedgerInv
<1>2. CASE LedgerNext
  <2>1. ledger' \in [Positions -> Entries]
    BY <1>2 DEF LedgerNext
  <2>2. ASSUME NEW p \in Positions
        PROVE  ledger'[p] = ledger[p] \/ ledger'[p] \in Moves(ledger[p]) \cup Releases(ledger[p])
    BY <1>2, <2>2 DEF LedgerNext
  <2>3. ASSUME NEW p \in Positions PROVE Balanced(ledger'[p])
    <3>1. ledger[p] \in Entries /\ Balanced(ledger[p])
      BY DEF LedgerInv
    <3> QED BY <2>2, <3>1, MoveBalances
  <2> QED BY <2>1, <2>3 DEF LedgerInv
<1> QED BY <1>1, <1>2

\* Every unit of every lock is in one place, however many chains, assets and
\* accounts there are.
THEOREM LedgerConserves == Quantities \subseteq Nat => (LedgerSpec => []Conserved)
<1> SUFFICES ASSUME Quantities \subseteq Nat PROVE LedgerSpec => []Conserved
  OBVIOUS
<1>1. LedgerInv => Conserved
  BY DEF LedgerInv, Conserved, Balanced
<1> QED BY <1>1, LedgerInvInit, LedgerInvStep, PTL DEF LedgerSpec

\* A chain never counts what the other chain does not hold.
THEOREM LedgerBacks == Quantities \subseteq Nat => (LedgerSpec => []Backed)
<1> SUFFICES ASSUME Quantities \subseteq Nat PROVE LedgerSpec => []Backed
  OBVIOUS
<1>1. LedgerInv => Backed
  BY DEF LedgerInv, Backed, Balanced, Entries
<1> QED BY <1>1, LedgerInvInit, LedgerInvStep, PTL DEF LedgerSpec
=============================================================================
