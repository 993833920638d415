-------------------------- MODULE CrossChainProofs --------------------------
(***************************************************************************)
(* The chains and the canisters implement the ledger of LockLedger.  The   *)
(* argument, from the bottom up:                                           *)
(*                                                                         *)
(*  - what a bag carries changes by the amount of an event when one copy   *)
(*    of it is added or taken away (CarriedPlus, CarriedMinus);            *)
(*  - so each step that touches a lock changes the entries of the ledger   *)
(*    in one way: LockedOnce, ReleasedOnce, ReleasedFromEach, Arrived,     *)
(*    Settled or Gone, and every other step leaves them alone;             *)
(*  - each of these is a move of the ledger, for an amount the place it    *)
(*    leaves does hold: the entries after the step are typed too, that is, *)
(*    not negative (CrossInv is kept);                                     *)
(*  - CrossInv is the pool's invariant with the type of the two bags.      *)
(***************************************************************************)
EXTENDS CrossChainLending, LendingPoolProofs

Events == [event : {"LockCreated", "LockReleased"}, account : Users, to : Users,
           asset : Assets, amount : Nat, emitter : Chains, peer : ChainIds]

\* What transit and dropped hold: finitely many events, each at least once.
IsBagOfEvents(bag) ==
  /\ DOMAIN bag \subseteq Events /\ IsFiniteSet(DOMAIN bag)
  /\ bag = [e \in DOMAIN bag |-> bag[e]]
  /\ \A e \in DOMAIN bag : bag[e] \in Nat \ {0}

Copies(e, bag) == IF e \in DOMAIN bag THEN bag[e] ELSE 0

\* What Carried sums.
Concerns(e, event, a, u, c, d) ==
  e.event = event /\ e.asset = a /\ e.account = u /\ e.emitter = c /\ e.peer = d

-----------------------------------------------------------------------------
(* Bags. *)

\* A bag has a positive number of copies of what it holds.
LEMMA CopiesOfEvents ==
  ASSUME NEW bag, IsBagOfEvents(bag)
  PROVE  \A e : Copies(e, bag) \in Nat /\ (Copies(e, bag) > 0 <=> e \in DOMAIN bag)
BY DEF IsBagOfEvents, Copies

\* What a transaction emits: one copy more of each event.
LEMMA BagPlus ==
  ASSUME NEW bag, IsBagOfEvents(bag), NEW R \in SUBSET Events, IsFiniteSet(R)
  PROVE  /\ IsBagOfEvents(bag (+) SetToBag(R))
         /\ \A e : Copies(e, bag (+) SetToBag(R)) = Copies(e, bag) + (IF e \in R THEN 1 ELSE 0)
<1> DEFINE more == bag (+) SetToBag(R)
<1>1. SetToBag(R) = [e \in R |-> 1]
  BY DEF SetToBag
<1>2. DOMAIN more = DOMAIN bag \cup R
  BY <1>1 DEF (+)
<1>3. \A e \in DOMAIN bag \cup R :
        more[e] = (IF e \in DOMAIN bag THEN bag[e] ELSE 0) + (IF e \in R THEN 1 ELSE 0)
  BY <1>1 DEF (+)
<1>4. more = [e \in DOMAIN more |-> more[e]]
  BY DEF (+)
<1>5. IsFiniteSet(DOMAIN bag \cup R)
  BY FS_Union DEF IsBagOfEvents
<1> HIDE DEF more
<1>6. IsBagOfEvents(more)
  BY <1>2, <1>3, <1>4, <1>5 DEF IsBagOfEvents
<1>7. \A e : Copies(e, more) = Copies(e, bag) + (IF e \in R THEN 1 ELSE 0)
  BY <1>2, <1>3 DEF Copies, IsBagOfEvents
<1> QED BY <1>6, <1>7 DEF more

\* What a relay takes: one copy less of one event.
LEMMA BagMinus ==
  ASSUME NEW bag, IsBagOfEvents(bag), NEW e \in DOMAIN bag
  PROVE  /\ IsBagOfEvents(bag (-) SetToBag({e}))
         /\ \A x : Copies(x, bag (-) SetToBag({e})) = Copies(x, bag) - (IF x = e THEN 1 ELSE 0)
<1> DEFINE less == bag (-) SetToBag({e})
           left(x) == bag[x] - (IF x = e THEN 1 ELSE 0)
<1>1. SetToBag({e}) = [x \in {e} |-> 1]
  BY DEF SetToBag
<1>2. /\ DOMAIN less = {x \in DOMAIN bag : left(x) > 0}
      /\ \A x \in DOMAIN less : less[x] = left(x)
      /\ less = [x \in DOMAIN less |-> less[x]]
  <2> DEFINE one == SetToBag({e})
             B == [x \in DOMAIN bag |-> IF x \in DOMAIN one THEN bag[x] - one[x] ELSE bag[x]]
  <2>1. less = [x \in {y \in DOMAIN B : B[y] > 0} |-> B[x]]
    BY DEF (-)
  <2>2. DOMAIN B = DOMAIN bag /\ \A x \in DOMAIN bag : B[x] = left(x)
    <3>1. DOMAIN one = {e} /\ one[e] = 1
      BY <1>1
    <3> HIDE DEF one
    <3>2. \A x \in DOMAIN bag : bag[x] \in Nat
      BY DEF IsBagOfEvents
    <3> QED BY <3>1, <3>2
  <2> HIDE DEF B, less, left
  <2>3. {y \in DOMAIN B : B[y] > 0} = {x \in DOMAIN bag : left(x) > 0}
    BY <2>2
  <2> QED BY <2>1, <2>2, <2>3
<1>3. \A x \in DOMAIN bag : bag[x] \in Nat \ {0}
  BY DEF IsBagOfEvents
<1>4. IsFiniteSet(DOMAIN less)
  BY <1>2, FS_Subset DEF IsBagOfEvents
<1> HIDE DEF less
<1>5. IsBagOfEvents(less)
  BY <1>2, <1>3, <1>4 DEF IsBagOfEvents
<1>6. \A x : Copies(x, less) = Copies(x, bag) - (IF x = e THEN 1 ELSE 0)
  BY <1>2, <1>3 DEF Copies
<1> QED BY <1>5, <1>6 DEF less

-----------------------------------------------------------------------------
(* What a bag carries. *)

\* The part of one event in what a bag carries, and the rest.
LEMMA CarriedSplit ==
  ASSUME NEW bag, IsBagOfEvents(bag), NEW event, NEW a, NEW u, NEW c, NEW d,
         NEW e \in Events, Concerns(e, event, a, u, c, d), NEW f,
         \A x \in DOMAIN bag : f[x] = x.amount * Copies(x, bag)
  PROVE  LET rest == {x \in DOMAIN bag : Concerns(x, event, a, u, c, d)} \ {e}
         IN  /\ IsFiniteSet(rest) /\ SumFunctionOnSet(f, rest) \in Nat
             /\ Carried(bag, event, a, u, c, d)
                  = e.amount * Copies(e, bag) + SumFunctionOnSet(f, rest)
<1> DEFINE S == {x \in DOMAIN bag : Concerns(x, event, a, u, c, d)}
           g == [x \in S |-> x.amount * bag[x]]
<1>1. IsFiniteSet(S) /\ IsFiniteSet(S \ {e})
  BY FS_Subset DEF IsBagOfEvents
<1>2. Carried(bag, event, a, u, c, d) = SumFunctionOnSet(g, S)
  <2>1. Carried(bag, event, a, u, c, d) = SumFunction(g)
    BY DEF Carried, BagToSet, Concerns
  <2>2. DOMAIN g = S
    OBVIOUS
  <2> HIDE DEF g, S
  <2> QED BY <2>1, <2>2 DEF SumFunction
<1>3. \A x \in S : x.amount \in Nat /\ bag[x] \in Nat /\ bag[x] = Copies(x, bag)
  BY DEF IsBagOfEvents, Events, Copies
<1>4. \A x \in S : g[x] = f[x] /\ f[x] \in Nat
  BY <1>3, ProductIsNat
<1>5. SumFunctionOnSet(g, S) = SumFunctionOnSet(f, S)
  BY <1>1, <1>4, SumCongruence
<1>6. SumFunctionOnSet(f, S \ {e}) \in Nat
  BY <1>1, <1>4, SumIsNat
<1>7. CASE e \in S
  <2>1. SumFunctionOnSet(f, S) = f[e] + SumFunctionOnSet(f, S \ {e})
    BY <1>1, <1>4, <1>7, SumRemove
  <2>2. f[e] = e.amount * Copies(e, bag)
    BY <1>7
  <2> HIDE DEF S, g
  <2> QED BY <1>1, <1>2, <1>5, <1>6, <2>1, <2>2 DEF S
<1>8. CASE e \notin S
  <2>1. S \ {e} = S
    BY <1>8
  <2>2. Copies(e, bag) = 0
    BY <1>8, CopiesOfEvents
  <2>3. e.amount * Copies(e, bag) = 0
    BY <2>2 DEF Events
  <2> HIDE DEF S, g
  <2> QED BY <1>1, <1>2, <1>5, <1>6, <2>1, <2>3 DEF S
<1> QED BY <1>7, <1>8

\* What a bag carries is an amount.
LEMMA CarriedIsNat ==
  ASSUME NEW bag, IsBagOfEvents(bag), NEW event, NEW a, NEW u, NEW c, NEW d
  PROVE  Carried(bag, event, a, u, c, d) \in Nat
<1> DEFINE S == {x \in DOMAIN bag : Concerns(x, event, a, u, c, d)}
           g == [x \in S |-> x.amount * bag[x]]
<1>1. IsFiniteSet(S)
  BY FS_Subset DEF IsBagOfEvents
<1>2. Carried(bag, event, a, u, c, d) = SumFunctionOnSet(g, S)
  <2>1. Carried(bag, event, a, u, c, d) = SumFunction(g)
    BY DEF Carried, BagToSet, Concerns
  <2>2. DOMAIN g = S
    OBVIOUS
  <2> HIDE DEF g, S
  <2> QED BY <2>1, <2>2 DEF SumFunction
<1>3. \A x \in S : x.amount \in Nat /\ bag[x] \in Nat
  BY DEF IsBagOfEvents, Events
<1>4. \A x \in S : g[x] \in Nat
  BY <1>3, ProductIsNat
<1> HIDE DEF g, S
<1> QED BY <1>1, <1>2, <1>4, SumIsNat

\* Bags with the same copies of the events concerned carry the same.
LEMMA CarriedSame ==
  ASSUME NEW bag, IsBagOfEvents(bag), NEW new, IsBagOfEvents(new),
         NEW event, NEW a, NEW u, NEW c, NEW d,
         \A x \in Events : Concerns(x, event, a, u, c, d) => Copies(x, new) = Copies(x, bag)
  PROVE  Carried(new, event, a, u, c, d) = Carried(bag, event, a, u, c, d)
<1> DEFINE S(b) == {x \in DOMAIN b : Concerns(x, event, a, u, c, d)}
           g(b) == [x \in S(b) |-> x.amount * b[x]]
<1>1. \A x : Concerns(x, event, a, u, c, d) => (x \in DOMAIN new <=> x \in DOMAIN bag)
  BY CopiesOfEvents DEF IsBagOfEvents
<1>2. S(new) = S(bag)
  BY <1>1
<1>3. \A x \in S(bag) : new[x] = bag[x]
  BY <1>1 DEF Copies, IsBagOfEvents
<1>4. g(new) = g(bag)
  BY <1>2, <1>3
<1>5. /\ Carried(new, event, a, u, c, d) = SumFunction(g(new))
      /\ Carried(bag, event, a, u, c, d) = SumFunction(g(bag))
  BY DEF Carried, BagToSet, Concerns
<1> HIDE DEF g
<1> QED BY <1>4, <1>5

\* Bags that differ in one of the events concerned differ by its copies.
LEMMA CarriedChange ==
  ASSUME NEW bag, IsBagOfEvents(bag), NEW new, IsBagOfEvents(new),
         NEW event, NEW a, NEW u, NEW c, NEW d,
         NEW e \in Events, Concerns(e, event, a, u, c, d),
         \A x \in Events : Concerns(x, event, a, u, c, d) /\ x # e => Copies(x, new) = Copies(x, bag)
  PROVE  Carried(new, event, a, u, c, d)
           = Carried(bag, event, a, u, c, d) + e.amount * (Copies(e, new) - Copies(e, bag))
<1> DEFINE rest(b) == {x \in DOMAIN b : Concerns(x, event, a, u, c, d)} \ {e}
           f == [x \in DOMAIN bag |-> x.amount * Copies(x, bag)]
           h == [x \in DOMAIN new |-> x.amount * Copies(x, new)]
<1>1. \A x : Concerns(x, event, a, u, c, d) /\ x # e => (x \in DOMAIN new <=> x \in DOMAIN bag)
  BY CopiesOfEvents DEF IsBagOfEvents
<1>2. rest(new) = rest(bag)
  BY <1>1
<1>3. \A x \in rest(bag) : f[x] = h[x]
  BY <1>1 DEF IsBagOfEvents
<1>4. /\ IsFiniteSet(rest(bag)) /\ SumFunctionOnSet(f, rest(bag)) \in Nat
      /\ Carried(bag, event, a, u, c, d)
           = e.amount * Copies(e, bag) + SumFunctionOnSet(f, rest(bag))
  BY CarriedSplit
<1>5. /\ SumFunctionOnSet(h, rest(new)) \in Nat
      /\ Carried(new, event, a, u, c, d)
           = e.amount * Copies(e, new) + SumFunctionOnSet(h, rest(new))
  BY CarriedSplit
<1> HIDE DEF rest, f, h
<1>6. SumFunctionOnSet(f, rest(bag)) = SumFunctionOnSet(h, rest(bag))
  BY <1>3, <1>4, SumCongruence
<1>7. e.amount \in Nat /\ Copies(e, bag) \in Nat /\ Copies(e, new) \in Nat
  BY CopiesOfEvents DEF Events
<1>8. e.amount * (Copies(e, new) - Copies(e, bag))
        = e.amount * Copies(e, new) - e.amount * Copies(e, bag)
  BY <1>7
<1>9. e.amount * Copies(e, new) \in Nat /\ e.amount * Copies(e, bag) \in Nat
  BY <1>7, ProductIsNat
<1> QED BY <1>2, <1>4, <1>5, <1>6, <1>8, <1>9

\* Emitting adds the amount of the event concerned, of which there is one at most.
LEMMA CarriedPlus ==
  ASSUME NEW bag, IsBagOfEvents(bag), NEW R \in SUBSET Events, IsFiniteSet(R),
         NEW event, NEW a, NEW u, NEW c, NEW d
  PROVE  LET new == Carried(bag (+) SetToBag(R), event, a, u, c, d)
             old == Carried(bag, event, a, u, c, d)
         IN  /\ (\A x \in R : ~ Concerns(x, event, a, u, c, d)) => new = old
             /\ \A e \in R : /\ Concerns(e, event, a, u, c, d)
                             /\ \A x \in R : Concerns(x, event, a, u, c, d) => x = e
                             => new = old + e.amount
<1> DEFINE more == bag (+) SetToBag(R)
<1>1. /\ IsBagOfEvents(more)
      /\ \A x : Copies(x, more) = Copies(x, bag) + (IF x \in R THEN 1 ELSE 0)
  BY BagPlus
<1>2. \A x : Copies(x, bag) \in Nat
  BY CopiesOfEvents
<1> HIDE DEF more
<1>3. ASSUME \A x \in R : ~ Concerns(x, event, a, u, c, d)
      PROVE  Carried(more, event, a, u, c, d) = Carried(bag, event, a, u, c, d)
  <2>1. \A x \in Events : Concerns(x, event, a, u, c, d) => Copies(x, more) = Copies(x, bag)
    BY <1>1, <1>2, <1>3
  <2> QED BY <1>1, <2>1, CarriedSame
<1>4. ASSUME NEW e \in R, Concerns(e, event, a, u, c, d),
             \A x \in R : Concerns(x, event, a, u, c, d) => x = e
      PROVE  Carried(more, event, a, u, c, d) = Carried(bag, event, a, u, c, d) + e.amount
  <2>1. \A x \in Events : Concerns(x, event, a, u, c, d) /\ x # e => Copies(x, more) = Copies(x, bag)
    BY <1>1, <1>2, <1>4
  <2>2. Carried(more, event, a, u, c, d)
          = Carried(bag, event, a, u, c, d) + e.amount * (Copies(e, more) - Copies(e, bag))
    BY <1>1, <1>4, <2>1, CarriedChange
  <2>3. Copies(e, more) - Copies(e, bag) = 1
    BY <1>1, <1>2
  <2>4. e.amount \in Nat /\ e.amount * 1 = e.amount
    BY DEF Events
  <2> QED BY <2>2, <2>3, <2>4
<1> QED BY <1>3, <1>4 DEF more

\* Taking an event away takes its amount, if it is concerned.
LEMMA CarriedMinus ==
  ASSUME NEW bag, IsBagOfEvents(bag), NEW e \in DOMAIN bag,
         NEW event, NEW a, NEW u, NEW c, NEW d
  PROVE  Carried(bag (-) SetToBag({e}), event, a, u, c, d)
           = Carried(bag, event, a, u, c, d)
               - (IF Concerns(e, event, a, u, c, d) THEN e.amount ELSE 0)
<1> DEFINE less == bag (-) SetToBag({e})
<1>1. /\ IsBagOfEvents(less)
      /\ \A x : Copies(x, less) = Copies(x, bag) - (IF x = e THEN 1 ELSE 0)
  BY BagMinus
<1>2. /\ \A x : Copies(x, bag) \in Nat
      /\ e \in Events
      /\ Carried(bag, event, a, u, c, d) \in Nat
  BY CopiesOfEvents, CarriedIsNat DEF IsBagOfEvents
<1> HIDE DEF less
<1>3. CASE ~ Concerns(e, event, a, u, c, d)
  <2>1. \A x \in Events : Concerns(x, event, a, u, c, d) => Copies(x, less) = Copies(x, bag)
    BY <1>1, <1>2, <1>3
  <2>2. Carried(less, event, a, u, c, d) = Carried(bag, event, a, u, c, d)
    BY <1>1, <2>1, CarriedSame
  <2> QED BY <1>2, <1>3, <2>2 DEF less
<1>4. CASE Concerns(e, event, a, u, c, d)
  <2>1. \A x \in Events : Concerns(x, event, a, u, c, d) /\ x # e => Copies(x, less) = Copies(x, bag)
    BY <1>1, <1>2
  <2>2. Carried(less, event, a, u, c, d)
          = Carried(bag, event, a, u, c, d) + e.amount * (Copies(e, less) - Copies(e, bag))
    BY <1>1, <1>2, <1>4, <2>1, CarriedChange
  <2>3. Copies(e, less) - Copies(e, bag) = -1
    BY <1>1, <1>2
  <2>4. e.amount \in Nat /\ e.amount * (-1) = - e.amount
    BY <1>2 DEF Events
  <2> QED BY <1>2, <1>4, <2>2, <2>3, <2>4 DEF less
<1> QED BY <1>3, <1>4

\* An empty bag carries nothing.
LEMMA CarriedByEmpty ==
  ASSUME NEW event, NEW a, NEW u, NEW c, NEW d
  PROVE  Carried(EmptyBag, event, a, u, c, d) = 0
<1> DEFINE g == [x \in {} |-> 0]
<1>1. EmptyBag = <<>> /\ DOMAIN EmptyBag = {}
  BY DEF EmptyBag, SetToBag
<1>2. Carried(EmptyBag, event, a, u, c, d) = SumFunction([x \in {} |-> x.amount * EmptyBag[x]])
  BY <1>1 DEF Carried, BagToSet
<1>3. SumFunctionOnSet([x \in {} |-> x.amount * EmptyBag[x]], {}) = 0
  BY FS_EmptySet, SumUnfold
<1> QED BY <1>2, <1>3 DEF SumFunction

-----------------------------------------------------------------------------
(* The ledger of the composition. *)

ledgerNow == [p \in Chains \X Chains \X Assets \X Users |-> Entry(p[1], p[2], p[3], p[4])]

L == INSTANCE LockLedgerProofs WITH
  Accounts   <- Users,
  Quantities <- UNION {LockAmounts[a] : a \in Assets},
  ledger     <- ledgerNow

CrossInv == PoolInv /\ IsBagOfEvents(transit) /\ IsBagOfEvents(dropped)

\* No place of an entry is negative.
LEMMA EntryIsTyped ==
  ASSUME CrossInv, NEW s \in Chains, NEW d \in Chains, NEW a \in Assets, NEW u \in Users
  PROVE  Entry(s, d, a, u) \in L!Entries
<1>1. lockedFor[<<s, a>>][u][d] \in Nat /\ lockedFrom[<<d, a>>][u][s] \in Nat
  BY CountersAreNat, CrossAssumption DEF CrossInv, PoolInv
<1>2. /\ Carried(transit, "LockCreated", a, u, s, d) \in Nat
      /\ Carried(transit, "LockReleased", a, u, d, s) \in Nat
      /\ Carried(dropped, "LockCreated", a, u, s, d) \in Nat
      /\ Carried(dropped, "LockReleased", a, u, d, s) \in Nat
  BY CarriedIsNat DEF CrossInv
<1> QED BY <1>1, <1>2 DEF Entry, L!Entries

\* The ledger at a position is its entry, before and after a step.
LEMMA LedgerAt ==
  ASSUME NEW s \in Chains, NEW d \in Chains, NEW a \in Assets, NEW u \in Users
  PROVE  /\ ledgerNow[<<s, d, a, u>>] = Entry(s, d, a, u)
         /\ ledgerNow'[<<s, d, a, u>>] = Entry(s, d, a, u)'
BY DEF ledgerNow

\* The ledger is typed, before a step and after it.
LEMMA LedgerIsTyped == CrossInv => ledgerNow \in [L!Positions -> L!Entries]
BY EntryIsTyped DEF ledgerNow, L!Positions

LEMMA LedgerIsTypedNext == CrossInv' => ledgerNow' \in [L!Positions -> L!Entries]
<1>1. (CrossInv => ledgerNow \in [L!Positions -> L!Entries])'
  BY LedgerIsTyped, PTL
<1> QED BY <1>1 DEF L!Positions, L!Entries

\* One entry makes a move: a step of the ledger.
LEMMA CrossMoveIsStep ==
  ASSUME CrossInv, CrossInv',
         NEW s \in Chains, NEW d \in Chains, NEW a \in Assets, NEW u \in Users,
         Entry(s, d, a, u)' \in L!Moves(Entry(s, d, a, u)),
         \A s2, d2 \in Chains, a2 \in Assets, u2 \in Users :
           <<s2, d2, a2, u2>> # <<s, d, a, u>> => Entry(s2, d2, a2, u2)' = Entry(s2, d2, a2, u2)
  PROVE  [L!LedgerNext]_ledgerNow
<1> DEFINE p == <<s, d, a, u>>
<1>1. ledgerNow \in [L!Positions -> L!Entries] /\ ledgerNow' \in [L!Positions -> L!Entries]
  BY LedgerIsTyped, LedgerIsTypedNext
<1>2. p \in L!Positions
  BY DEF L!Positions
<1>3. ledgerNow'[p] \in L!Moves(ledgerNow[p])
  BY LedgerAt
<1>4. \A q \in L!Positions : q # p => ledgerNow'[q] = ledgerNow[q]
  BY LedgerAt DEF L!Positions
<1> HIDE DEF p
<1> QED BY <1>1, <1>2, <1>3, <1>4, L!MoveIsStep

\* Entries counted by one chain for one account release: a step of the ledger.
LEMMA CrossReleaseIsStep ==
  ASSUME CrossInv, CrossInv',
         NEW d \in Chains, NEW a \in Assets, NEW u \in Users,
         \A s \in Chains : Entry(s, d, a, u)' \in L!Releases(Entry(s, d, a, u)),
         \A s2, d2 \in Chains, a2 \in Assets, u2 \in Users :
           <<d2, a2, u2>> # <<d, a, u>> => Entry(s2, d2, a2, u2)' = Entry(s2, d2, a2, u2)
  PROVE  [L!LedgerNext]_ledgerNow
<1>1. ledgerNow \in [L!Positions -> L!Entries] /\ ledgerNow' \in [L!Positions -> L!Entries]
  BY LedgerIsTyped, LedgerIsTypedNext
<1>2. \A p \in L!Backing(d, a, u) : ledgerNow'[p] \in L!Releases(ledgerNow[p])
  <2> TAKE p \in L!Backing(d, a, u)
  <2>1. PICK s \in Chains : p = <<s, d, a, u>>
    BY DEF L!Backing, L!Positions
  <2> QED BY <2>1, LedgerAt
<1>3. \A p \in L!Positions : p \notin L!Backing(d, a, u) => ledgerNow'[p] = ledgerNow[p]
  <2> SUFFICES ASSUME NEW s2 \in Chains, NEW d2 \in Chains, NEW a2 \in Assets, NEW u2 \in Users,
                      <<s2, d2, a2, u2>> \notin L!Backing(d, a, u)
               PROVE  ledgerNow'[<<s2, d2, a2, u2>>] = ledgerNow[<<s2, d2, a2, u2>>]
    BY DEF L!Positions
  <2>1. <<d2, a2, u2>> # <<d, a, u>>
    BY DEF L!Backing, L!Positions
  <2> QED BY <2>1, LedgerAt
<1> QED BY <1>1, <1>2, <1>3, L!ReleaseIsStep

\* No entry changes: a stuttering step of the ledger.
LEMMA CrossQuietIsStep ==
  ASSUME CrossInv, CrossInv',
         \A s \in Chains, d \in Chains, a \in Assets, u \in Users : Entry(s, d, a, u)' = Entry(s, d, a, u)
  PROVE  [L!LedgerNext]_ledgerNow
<1>1. ledgerNow \in [L!Positions -> L!Entries] /\ ledgerNow' \in [L!Positions -> L!Entries]
  BY LedgerIsTyped, LedgerIsTypedNext
<1>2. \A p \in L!Positions : ledgerNow'[p] = ledgerNow[p]
  BY LedgerAt DEF L!Positions
<1> QED BY <1>1, <1>2

-----------------------------------------------------------------------------
(* What the steps that touch a lock do to the entries. *)

LockedOnce(c, x, a, u, n) ==
  \A s \in Chains, d \in Chains, b \in Assets, w \in Users :
    Entry(s, d, b, w)' =
      IF <<s, d, b, w>> = <<c, x, a, u>>
      THEN [Entry(s, d, b, w) EXCEPT !.locked = @ + n, !.out = @ + n]
      ELSE Entry(s, d, b, w)

ReleasedOnce(c, x, a, u, n) ==
  \A s \in Chains, d \in Chains, b \in Assets, w \in Users :
    Entry(s, d, b, w)' =
      IF <<s, d, b, w>> = <<x, c, a, u>>
      THEN [Entry(s, d, b, w) EXCEPT !.counted = @ - n, !.back = @ + n]
      ELSE Entry(s, d, b, w)

ReleasedFromEach(c, a, u, taken) ==
  \A s \in Chains, d \in Chains, b \in Assets, w \in Users :
    Entry(s, d, b, w)' =
      IF <<d, b, w>> = <<c, a, u>>
      THEN [Entry(s, d, b, w) EXCEPT !.counted = @ - taken[s], !.back = @ + taken[s]]
      ELSE Entry(s, d, b, w)

Arrived(e) ==
  \A s \in Chains, d \in Chains, b \in Assets, w \in Users :
    Entry(s, d, b, w)' =
      IF <<s, d, b, w>> = <<e.emitter, e.peer, e.asset, e.account>>
      THEN [Entry(s, d, b, w) EXCEPT !.out = @ - e.amount, !.counted = @ + e.amount]
      ELSE Entry(s, d, b, w)

Settled(e) ==
  \A s \in Chains, d \in Chains, b \in Assets, w \in Users :
    Entry(s, d, b, w)' =
      IF <<s, d, b, w>> = <<e.peer, e.emitter, e.asset, e.account>>
      THEN [Entry(s, d, b, w) EXCEPT !.back = @ - e.amount, !.locked = @ - e.amount]
      ELSE Entry(s, d, b, w)

Gone(e) ==
  \A s \in Chains, d \in Chains, b \in Assets, w \in Users :
    Entry(s, d, b, w)' =
      IF Concerns(e, "LockCreated", b, w, s, d)
      THEN [Entry(s, d, b, w) EXCEPT !.out = @ - e.amount, !.gone = @ + e.amount]
      ELSE IF Concerns(e, "LockReleased", b, w, d, s)
      THEN [Entry(s, d, b, w) EXCEPT !.back = @ - e.amount, !.gone = @ + e.amount]
      ELSE Entry(s, d, b, w)

\* A step of a chain that touches no lock and emits nothing.
LEMMA SilentEntries ==
  ASSUME CrossInv, receipt' = {}, transit' = transit (+) SetToBag(receipt'),
         UNCHANGED <<lockedFor, lockedFrom, dropped>>
  PROVE  \A s \in Chains, d \in Chains, a \in Assets, u \in Users : Entry(s, d, a, u)' = Entry(s, d, a, u)
<1> TAKE s \in Chains, d \in Chains, a \in Assets, u \in Users
<1>1. \A event : Carried(transit', event, a, u, s, d) = Carried(transit, event, a, u, s, d)
  BY CarriedPlus, FS_EmptySet DEF CrossInv
<1>2. \A event : Carried(transit', event, a, u, d, s) = Carried(transit, event, a, u, d, s)
  BY CarriedPlus, FS_EmptySet DEF CrossInv
<1> QED BY <1>1, <1>2 DEF Entry

\* lockFor raises the lock and, with the event it emits, what is on its way.
LEMMA LockForEntries ==
  ASSUME CrossInv, NEW c \in Chains, NEW a \in Assets, NEW u \in Users, NEW n \in Nat,
         NEW x \in ChainIds, LockFor(c, a, u, n, x),
         transit' = transit (+) SetToBag(receipt'), UNCHANGED dropped
  PROVE  LockedOnce(c, x, a, u, n)
<1> USE DEF LockedOnce
<1> DEFINE e == LockCreated(c, a, u, n, x)
<1>1. /\ receipt' = {e} /\ lockedFrom' = lockedFrom
      /\ lockedFor' = [lockedFor EXCEPT ![<<c, a>>][u][x] = @ + n]
  BY DEF LockFor, lockFor
<1>2. e \in Events /\ {e} \in SUBSET Events /\ e.amount = n
  BY DEF LockCreated, Events
<1>0. IsFiniteSet({e})
  BY FS_Singleton
<1> TAKE s \in Chains, d \in Chains, b \in Assets, w \in Users
<1>3. Concerns(e, "LockCreated", b, w, s, d) <=> <<s, d, b, w>> = <<c, x, a, u>>
  BY DEF Concerns, LockCreated
<1>4. ~ Concerns(e, "LockReleased", b, w, d, s)
  BY DEF Concerns, LockCreated
<1> HIDE DEF e
<1>5. Carried(transit', "LockCreated", b, w, s, d)
        = IF <<s, d, b, w>> = <<c, x, a, u>> THEN Carried(transit, "LockCreated", b, w, s, d) + n
                                             ELSE Carried(transit, "LockCreated", b, w, s, d)
  BY <1>0, <1>1, <1>2, <1>3, CarriedPlus DEF CrossInv
<1>6. Carried(transit', "LockReleased", b, w, d, s) = Carried(transit, "LockReleased", b, w, d, s)
  BY <1>0, <1>1, <1>2, <1>4, CarriedPlus DEF CrossInv
<1>7. lockedFor'[<<s, b>>][w][d]
        = IF <<s, d, b, w>> = <<c, x, a, u>> THEN lockedFor[<<s, b>>][w][d] + n
                                             ELSE lockedFor[<<s, b>>][w][d]
  <2> DEFINE m == lockedFor[<<c, a>>][u][x] + n
  <2>1. lockedFor' = [lockedFor EXCEPT ![<<c, a>>][u][x] = m]
    BY <1>1
  <2>2. lockedFor \in [Reserves -> [Users -> [ChainIds -> Nat]]] /\ d \in ChainIds
    BY CrossAssumption DEF CrossInv, PoolInv, LocksType
  <2> HIDE DEF m
  <2>3. lockedFor'[<<s, b>>][w][d]
          = IF s = c /\ b = a /\ w = u /\ d = x THEN m ELSE lockedFor[<<s, b>>][w][d]
    BY <2>1, <2>2, ReserveOf
  <2> QED BY <2>3 DEF m
<1> QED BY <1>1, <1>5, <1>6, <1>7 DEF Entry

\* An unlock takes from the counter and announces as much.
LEMMA UnLockForEntries ==
  ASSUME CrossInv, NEW c \in Chains, NEW a \in Assets, NEW u \in Users, NEW n \in Nat,
         NEW x \in ChainIds, UnLockFor(c, a, u, n, x),
         transit' = transit (+) SetToBag(receipt'), UNCHANGED dropped
  PROVE  /\ lockedFrom[<<c, a>>][u][x] >= n
         /\ ReleasedOnce(c, x, a, u, n)
<1> USE DEF ReleasedOnce
<1> DEFINE e == LockReleased(c, a, u, n, x, u)
<1>1. /\ receipt' = {e} /\ lockedFor' = lockedFor
      /\ lockedFrom' = [lockedFrom EXCEPT ![<<c, a>>][u][x] = @ - n]
      /\ lockedFrom[<<c, a>>][u][x] >= n
  BY DEF UnLockFor, unlockFor
<1>2. e \in Events /\ {e} \in SUBSET Events /\ e.amount = n
  BY DEF LockReleased, Events
<1>0. IsFiniteSet({e})
  BY FS_Singleton
<1> SUFFICES ASSUME NEW s \in Chains, NEW d \in Chains, NEW b \in Assets, NEW w \in Users
             PROVE  Entry(s, d, b, w)' =
                      IF <<s, d, b, w>> = <<x, c, a, u>>
                      THEN [Entry(s, d, b, w) EXCEPT !.counted = @ - n, !.back = @ + n]
                      ELSE Entry(s, d, b, w)
  BY <1>1
<1>3. Concerns(e, "LockReleased", b, w, d, s) <=> <<s, d, b, w>> = <<x, c, a, u>>
  BY DEF Concerns, LockReleased
<1>4. ~ Concerns(e, "LockCreated", b, w, s, d)
  BY DEF Concerns, LockReleased
<1> HIDE DEF e
<1>5. Carried(transit', "LockReleased", b, w, d, s)
        = IF <<s, d, b, w>> = <<x, c, a, u>> THEN Carried(transit, "LockReleased", b, w, d, s) + n
                                             ELSE Carried(transit, "LockReleased", b, w, d, s)
  BY <1>0, <1>1, <1>2, <1>3, CarriedPlus DEF CrossInv
<1>6. Carried(transit', "LockCreated", b, w, s, d) = Carried(transit, "LockCreated", b, w, s, d)
  BY <1>0, <1>1, <1>2, <1>4, CarriedPlus DEF CrossInv
<1>7. lockedFrom'[<<d, b>>][w][s]
        = IF <<s, d, b, w>> = <<x, c, a, u>> THEN lockedFrom[<<d, b>>][w][s] - n
                                             ELSE lockedFrom[<<d, b>>][w][s]
  <2> DEFINE m == lockedFrom[<<c, a>>][u][x] - n
  <2>1. lockedFrom' = [lockedFrom EXCEPT ![<<c, a>>][u][x] = m]
    BY <1>1
  <2>2. lockedFrom \in [Reserves -> [Users -> [ChainIds -> Nat]]] /\ s \in ChainIds
    BY CrossAssumption DEF CrossInv, PoolInv, LocksType
  <2> HIDE DEF m
  <2>3. lockedFrom'[<<d, b>>][w][s]
          = IF d = c /\ b = a /\ w = u /\ s = x THEN m ELSE lockedFrom[<<d, b>>][w][s]
    BY <2>1, <2>2, ReserveOf
  <2> QED BY <2>3 DEF m
<1> QED BY <1>1, <1>5, <1>6, <1>7 DEF Entry

\* What a liquidation does to the locks: taken[id] is what it asks chain id for.
TakesFromCounters(c, coll, u, v, taken) ==
  /\ \A id \in ChainIds : taken[id] <= lockedFrom[<<c, coll>>][u][id]
  /\ lockedFor' = lockedFor
  /\ lockedFrom' = [lockedFrom EXCEPT ![<<c, coll>>][u] = [id \in ChainIds |-> @[id] - taken[id]]]
  /\ receipt' = {LockReleased(c, coll, u, taken[id], id, v) : id \in {d \in ChainIds : taken[d] > 0}}

\* It announces what it takes from the counters, chain by chain.
LEMMA LiquidationReleases ==
  ASSUME NEW c \in Chains, NEW coll \in Assets, NEW dbt \in Assets, NEW u \in Users,
         NEW toCover \in Nat, NEW v \in Users,
         FundsType, LocksType, DebtType, PriceType,
         LiquidationCall(c, coll, dbt, u, toCover, v)
  PROVE  \E taken \in [ChainIds -> Nat] : TakesFromCounters(c, coll, u, v, taken)
<1> DEFINE act == ActualDebtToLiquidate(c, coll, dbt, u, toCover)
           burnt == Min({unlockedBalanceOf(c, coll, u), act.collateral})
           taken == TakenFromOtherChains(c, coll, u, act.collateral - burnt)
<1>1. act.collateral \in Nat
  BY ActualDebtBound
<1>2. unlockedBalanceOf(c, coll, u) \in Nat
  <2>1. unlockedBalanceOf(c, coll, u) \in 0..credit[<<c, coll>>][u]
    BY UnlockedBalance
  <2> QED BY <2>1, BalancesAreNat
<1>3. act.collateral - burnt \in Nat
  BY <1>1, <1>2, MinOf
<1>4. \A id \in ChainIds : taken[id] \in 0..lockedFrom[<<c, coll>>][u][id]
  BY <1>3, TakenBound DEF TakenFromOtherChains
<1>5. taken = [id \in ChainIds |-> taken[id]]
  BY DEF TakenFromOtherChains
<1>6. /\ lockedFor' = lockedFor
      /\ lockedFrom' = [lockedFrom EXCEPT ![<<c, coll>>][u] =
                          [id \in ChainIds |-> @[id] - taken[id]]]
      /\ receipt' = {LockReleased(c, coll, u, taken[id], id, v) :
                       id \in {d \in ChainIds : taken[d] > 0}}
  BY DEF LiquidationCall
<1> HIDE DEF taken
<1>7. \A id \in ChainIds : taken[id] \in Nat /\ taken[id] <= lockedFrom[<<c, coll>>][u][id]
  BY <1>4, CountersAreNat
<1>8. taken \in [ChainIds -> Nat]
  BY <1>5, <1>7
<1>9. TakesFromCounters(c, coll, u, v, taken)
  BY <1>6, <1>7 DEF TakesFromCounters
<1> QED BY <1>8, <1>9

\* A liquidation releases on each chain what it takes from that chain's counter.
LEMMA LiquidationEntries ==
  ASSUME CrossInv, NEW c \in Chains, NEW coll \in Assets, NEW dbt \in Assets, NEW u \in Users,
         NEW toCover \in Nat, NEW v \in Users, LiquidationCall(c, coll, dbt, u, toCover, v),
         transit' = transit (+) SetToBag(receipt'), UNCHANGED dropped
  PROVE  /\ receipt' \in SUBSET Events /\ IsFiniteSet(receipt')
         /\ \E taken \in [ChainIds -> Nat] :
              /\ \A s \in Chains : taken[s] <= lockedFrom[<<c, coll>>][u][s]
              /\ ReleasedFromEach(c, coll, u, taken)
<1>0. FundsType /\ LocksType /\ DebtType /\ PriceType
  BY DEF CrossInv, PoolInv
<1>1. PICK taken \in [ChainIds -> Nat] : TakesFromCounters(c, coll, u, v, taken)
  BY <1>0, LiquidationReleases
<1> USE DEF TakesFromCounters
<1> DEFINE from == {d \in ChainIds : taken[d] > 0}
           e(id) == LockReleased(c, coll, u, taken[id], id, v)
<1>2. \A id \in ChainIds : e(id) \in Events
  BY DEF LockReleased, Events
<1>3. receipt' \in SUBSET Events
  BY <1>1, <1>2
<1>4. IsFiniteSet(receipt')
  <2> DEFINE f == [id \in from |-> e(id)]
  <2>1. IsFiniteSet(from)
    BY TokenAssumption, FS_Subset
  <2>2. f \in Surjection(from, receipt')
    BY <1>1 DEF Surjection
  <2> HIDE DEF f, from
  <2> QED BY <2>1, <2>2, FS_Surjection
<1>5. \A s \in Chains, d \in Chains, b \in Assets, w \in Users :
        /\ Carried(transit', "LockCreated", b, w, s, d) = Carried(transit, "LockCreated", b, w, s, d)
        /\ Carried(transit', "LockReleased", b, w, d, s)
             = IF <<d, b, w>> = <<c, coll, u>> THEN Carried(transit, "LockReleased", b, w, d, s) + taken[s]
                                               ELSE Carried(transit, "LockReleased", b, w, d, s)
  <2> TAKE s \in Chains, d \in Chains, b \in Assets, w \in Users
  <2>1. \A x \in receipt' : ~ Concerns(x, "LockCreated", b, w, s, d)
    BY <1>1 DEF Concerns, LockReleased
  <2>2. Carried(transit', "LockCreated", b, w, s, d) = Carried(transit, "LockCreated", b, w, s, d)
    BY <1>3, <1>4, <2>1, CarriedPlus DEF CrossInv
  <2>3. \A x \in receipt' : Concerns(x, "LockReleased", b, w, d, s)
          => <<d, b, w>> = <<c, coll, u>> /\ x = e(s) /\ taken[s] > 0
    BY <1>1 DEF Concerns, LockReleased
  <2>4. s \in ChainIds /\ taken[s] \in Nat
    BY CrossAssumption
  <2>5. Carried(transit, "LockReleased", b, w, d, s) \in Nat
    BY CarriedIsNat DEF CrossInv
  <2>6. CASE <<d, b, w>> = <<c, coll, u>> /\ taken[s] > 0
    <3>1. e(s) \in receipt' /\ Concerns(e(s), "LockReleased", b, w, d, s) /\ e(s).amount = taken[s]
      BY <1>1, <2>4, <2>6 DEF Concerns, LockReleased
    <3> HIDE DEF e
    <3> QED BY <1>3, <1>4, <2>2, <2>3, <2>6, <3>1, CarriedPlus DEF CrossInv
  <2>7. CASE ~ (<<d, b, w>> = <<c, coll, u>> /\ taken[s] > 0)
    <3>1. \A x \in receipt' : ~ Concerns(x, "LockReleased", b, w, d, s)
      BY <2>3, <2>7
    <3>2. Carried(transit', "LockReleased", b, w, d, s) = Carried(transit, "LockReleased", b, w, d, s)
      BY <1>3, <1>4, <3>1, CarriedPlus DEF CrossInv
    <3> QED BY <2>2, <2>4, <2>5, <2>7, <3>2
  <2> QED BY <2>6, <2>7
<1>6. \A s \in Chains, d \in Chains, b \in Assets, w \in Users :
        lockedFrom'[<<d, b>>][w][s]
          = IF <<d, b, w>> = <<c, coll, u>> THEN lockedFrom[<<d, b>>][w][s] - taken[s]
                                            ELSE lockedFrom[<<d, b>>][w][s]
  <2> DEFINE counters == [id \in ChainIds |-> lockedFrom[<<c, coll>>][u][id] - taken[id]]
  <2> TAKE s \in Chains, d \in Chains, b \in Assets, w \in Users
  <2>1. lockedFrom' = [lockedFrom EXCEPT ![<<c, coll>>][u] = counters]
    BY <1>1
  <2>2. lockedFrom \in [Reserves -> [Users -> [ChainIds -> Nat]]] /\ s \in ChainIds
    BY <1>0, CrossAssumption DEF LocksType
  <2>3. counters[s] = lockedFrom[<<c, coll>>][u][s] - taken[s]
    BY <2>2
  <2> HIDE DEF counters
  <2>4. lockedFrom'[<<d, b>>][w]
          = IF d = c /\ b = coll /\ w = u THEN counters ELSE lockedFrom[<<d, b>>][w]
    BY <2>1, <2>2, ReserveOf
  <2>5. lockedFrom[<<d, b>>][w][s] \in Nat
    BY <2>2, ReserveOf
  <2> QED BY <2>3, <2>4, <2>5
<1>7. ASSUME NEW s \in Chains, NEW d \in Chains, NEW b \in Assets, NEW w \in Users
      PROVE  Entry(s, d, b, w)' =
               IF <<d, b, w>> = <<c, coll, u>>
               THEN [Entry(s, d, b, w) EXCEPT !.counted = @ - taken[s], !.back = @ + taken[s]]
               ELSE Entry(s, d, b, w)
  <2>1. lockedFor' = lockedFor /\ taken[s] \in Nat
    BY <1>1, CrossAssumption
  <2> HIDE DEF TakesFromCounters
  <2>2. Carried(transit', "LockCreated", b, w, s, d) = Carried(transit, "LockCreated", b, w, s, d)
    BY <1>5
  <2>3. Carried(transit', "LockReleased", b, w, d, s)
          = IF <<d, b, w>> = <<c, coll, u>> THEN Carried(transit, "LockReleased", b, w, d, s) + taken[s]
                                            ELSE Carried(transit, "LockReleased", b, w, d, s)
    BY <1>5
  <2>4. lockedFrom'[<<d, b>>][w][s]
          = IF <<d, b, w>> = <<c, coll, u>> THEN lockedFrom[<<d, b>>][w][s] - taken[s]
                                            ELSE lockedFrom[<<d, b>>][w][s]
    BY <1>6
  <2> QED BY <2>1, <2>2, <2>3, <2>4 DEF Entry
<1>8. \A s \in Chains : taken[s] <= lockedFrom[<<c, coll>>][u][s]
  BY <1>1, CrossAssumption
<1>9. ReleasedFromEach(c, coll, u, taken)
  BY <1>7 DEF ReleasedFromEach
<1> QED BY <1>3, <1>4, <1>8, <1>9

\* onLockCreated raises one counter.
LEMMA OnLockCreatedCounters ==
  ASSUME LocksType, NEW c \in Chains, NEW a \in Assets, NEW u \in Users, NEW n, NEW x \in ChainIds,
         onLockCreated(c, a, u, n, x)
  PROVE  \A s \in Chains, d \in Chains, b \in Assets, w \in Users :
           lockedFrom'[<<d, b>>][w][s]
             = IF <<s, d, b, w>> = <<x, c, a, u>> THEN lockedFrom[<<d, b>>][w][s] + n
                                                  ELSE lockedFrom[<<d, b>>][w][s]
<1> DEFINE m == lockedFrom[<<c, a>>][u][x] + n
<1>1. lockedFrom' = [lockedFrom EXCEPT ![<<c, a>>][u][x] = m]
  BY DEF onLockCreated
<1>2. lockedFrom \in [Reserves -> [Users -> [ChainIds -> Nat]]] /\ Chains \subseteq ChainIds
  BY CrossAssumption DEF LocksType
<1> TAKE s \in Chains, d \in Chains, b \in Assets, w \in Users
<1> HIDE DEF m
<1>3. lockedFrom'[<<d, b>>][w][s]
        = IF d = c /\ b = a /\ w = u /\ s = x THEN m ELSE lockedFrom[<<d, b>>][w][s]
  BY <1>1, <1>2, ReserveOf
<1> QED BY <1>3 DEF m

\* burnLockedFor lowers one lock.
LEMMA BurnLockedForCounters ==
  ASSUME LocksType, NEW c \in Chains, NEW a \in Assets, NEW u \in Users, NEW v, NEW n,
         NEW x \in ChainIds, burnLockedFor(c, a, u, v, n, x)
  PROVE  \A s \in Chains, d \in Chains, b \in Assets, w \in Users :
           lockedFor'[<<s, b>>][w][d]
             = IF <<s, d, b, w>> = <<c, x, a, u>> THEN lockedFor[<<s, b>>][w][d] - n
                                                  ELSE lockedFor[<<s, b>>][w][d]
<1> DEFINE m == lockedFor[<<c, a>>][u][x] - n
<1>1. lockedFor' = [lockedFor EXCEPT ![<<c, a>>][u][x] = m]
  BY DEF burnLockedFor
<1>2. lockedFor \in [Reserves -> [Users -> [ChainIds -> Nat]]] /\ Chains \subseteq ChainIds
  BY CrossAssumption DEF LocksType
<1> TAKE s \in Chains, d \in Chains, b \in Assets, w \in Users
<1> HIDE DEF m
<1>3. lockedFor'[<<s, b>>][w][d]
        = IF s = c /\ b = a /\ w = u /\ d = x THEN m ELSE lockedFor[<<s, b>>][w][d]
  BY <1>1, <1>2, ReserveOf
<1> QED BY <1>3 DEF m

\* A relayed lock moves what is on its way to the counter.
LEMMA RelayLockCreatedEntries ==
  ASSUME CrossInv, NEW e \in BagToSet(transit), RelayLockCreated(e)
  PROVE  Arrived(e)
<1> USE DEF Arrived
<1>1. /\ e.event = "LockCreated" /\ e.peer \in Chains
      /\ transit' = transit (-) SetToBag({e}) /\ dropped' = dropped
      /\ lockedFor' = lockedFor
  BY DEF RelayLockCreated, OnLockCreated, onLockCreated
<1>2. e \in DOMAIN transit /\ e \in Events
  BY DEF CrossInv, IsBagOfEvents, BagToSet
<1>3. e.asset \in Assets /\ e.account \in Users /\ e.emitter \in Chains /\ e.amount \in Nat
  BY <1>2 DEF Events
<1> TAKE s \in Chains, d \in Chains, b \in Assets, w \in Users
<1>4. Concerns(e, "LockCreated", b, w, s, d) <=> <<s, d, b, w>> = <<e.emitter, e.peer, e.asset, e.account>>
  BY <1>1 DEF Concerns
<1>5. ~ Concerns(e, "LockReleased", b, w, d, s)
  BY <1>1 DEF Concerns
<1>6. /\ Carried(transit, "LockCreated", b, w, s, d) \in Nat
      /\ Carried(transit, "LockReleased", b, w, d, s) \in Nat
  BY CarriedIsNat DEF CrossInv
<1>7. Carried(transit', "LockCreated", b, w, s, d)
        = IF <<s, d, b, w>> = <<e.emitter, e.peer, e.asset, e.account>>
          THEN Carried(transit, "LockCreated", b, w, s, d) - e.amount
          ELSE Carried(transit, "LockCreated", b, w, s, d)
  BY <1>1, <1>2, <1>4, <1>6, CarriedMinus DEF CrossInv
<1>8. Carried(transit', "LockReleased", b, w, d, s) = Carried(transit, "LockReleased", b, w, d, s)
  BY <1>1, <1>2, <1>5, <1>6, CarriedMinus DEF CrossInv
<1>9. lockedFrom'[<<d, b>>][w][s]
        = IF <<s, d, b, w>> = <<e.emitter, e.peer, e.asset, e.account>>
          THEN lockedFrom[<<d, b>>][w][s] + e.amount
          ELSE lockedFrom[<<d, b>>][w][s]
  <2>1. onLockCreated(e.peer, e.asset, e.account, e.amount, e.emitter)
    BY DEF RelayLockCreated, OnLockCreated
  <2>2. LocksType /\ e.emitter \in ChainIds
    BY <1>3, CrossAssumption DEF CrossInv, PoolInv
  <2> QED BY <1>1, <1>3, <2>1, <2>2, OnLockCreatedCounters
<1> QED BY <1>1, <1>3, <1>7, <1>8, <1>9 DEF Entry

\* A relayed release takes what is on its way back off the lock.
LEMMA RelayLockReleasedEntries ==
  ASSUME CrossInv, NEW e \in BagToSet(transit), RelayLockReleased(e)
  PROVE  Settled(e)
<1> USE DEF Settled
<1>1. /\ e.event = "LockReleased" /\ e.peer \in Chains
      /\ transit' = transit (-) SetToBag({e}) /\ dropped' = dropped
      /\ lockedFrom' = lockedFrom
  BY DEF RelayLockReleased, UnlockAssetOf, burnLockedFor
<1>2. e \in DOMAIN transit /\ e \in Events
  BY DEF CrossInv, IsBagOfEvents, BagToSet
<1>3. e.asset \in Assets /\ e.account \in Users /\ e.emitter \in Chains /\ e.amount \in Nat
  BY <1>2 DEF Events
<1> TAKE s \in Chains, d \in Chains, b \in Assets, w \in Users
<1>4. Concerns(e, "LockReleased", b, w, d, s) <=> <<s, d, b, w>> = <<e.peer, e.emitter, e.asset, e.account>>
  BY <1>1 DEF Concerns
<1>5. ~ Concerns(e, "LockCreated", b, w, s, d)
  BY <1>1 DEF Concerns
<1>6. /\ Carried(transit, "LockCreated", b, w, s, d) \in Nat
      /\ Carried(transit, "LockReleased", b, w, d, s) \in Nat
  BY CarriedIsNat DEF CrossInv
<1>7. Carried(transit', "LockReleased", b, w, d, s)
        = IF <<s, d, b, w>> = <<e.peer, e.emitter, e.asset, e.account>>
          THEN Carried(transit, "LockReleased", b, w, d, s) - e.amount
          ELSE Carried(transit, "LockReleased", b, w, d, s)
  BY <1>1, <1>2, <1>4, <1>6, CarriedMinus DEF CrossInv
<1>8. Carried(transit', "LockCreated", b, w, s, d) = Carried(transit, "LockCreated", b, w, s, d)
  BY <1>1, <1>2, <1>5, <1>6, CarriedMinus DEF CrossInv
<1>9. lockedFor'[<<s, b>>][w][d]
        = IF <<s, d, b, w>> = <<e.peer, e.emitter, e.asset, e.account>>
          THEN lockedFor[<<s, b>>][w][d] - e.amount
          ELSE lockedFor[<<s, b>>][w][d]
  <2>1. burnLockedFor(e.peer, e.asset, e.account, e.to, e.amount, e.emitter)
    BY DEF RelayLockReleased, UnlockAssetOf
  <2>2. LocksType /\ e.emitter \in ChainIds
    BY <1>3, CrossAssumption DEF CrossInv, PoolInv
  <2> QED BY <1>1, <1>3, <2>1, <2>2, BurnLockedForCounters
<1> QED BY <1>1, <1>3, <1>7, <1>8, <1>9 DEF Entry

\* Two fields of an entry change.
LEMMA GoneUpdate ==
  ASSUME NEW x \in L!Entries, NEW n \in Nat,
         NEW y \in [locked : Int, out : Int, counted : Int, back : Int, gone : Int],
         y.locked = x.locked, y.counted = x.counted, y.gone = x.gone + n
  PROVE  /\ y.out = x.out - n /\ y.back = x.back => y = [x EXCEPT !.out = @ - n, !.gone = @ + n]
         /\ y.back = x.back - n /\ y.out = x.out => y = [x EXCEPT !.back = @ - n, !.gone = @ + n]
BY DEF L!Entries

\* An event that is lost or rejected leaves one place of one entry for gone.
LEMMA DropEntries ==
  ASSUME CrossInv, NEW e \in BagToSet(transit),
         transit' = transit (-) SetToBag({e}), dropped' = dropped (+) SetToBag({e}),
         UNCHANGED <<lockedFor, lockedFrom>>
  PROVE  Gone(e)
<1> USE DEF Gone
<1>1. e \in DOMAIN transit /\ e \in Events /\ {e} \in SUBSET Events
  BY DEF CrossInv, IsBagOfEvents, BagToSet
<1>2. IsFiniteSet({e})
  BY FS_Singleton
<1>3. e.amount \in Nat
  BY <1>1 DEF Events
<1> TAKE s \in Chains, d \in Chains, b \in Assets, w \in Users
<1> DEFINE Out(bag) == Carried(bag, "LockCreated", b, w, s, d)
           Back(bag) == Carried(bag, "LockReleased", b, w, d, s)
           isOut == Concerns(e, "LockCreated", b, w, s, d)
           isBack == Concerns(e, "LockReleased", b, w, d, s)
<1>4. ~ (isOut /\ isBack)
  BY DEF Concerns
<1>5. Out(transit) \in Nat /\ Back(transit) \in Nat /\ Out(dropped) \in Nat /\ Back(dropped) \in Nat
  BY CarriedIsNat DEF CrossInv
<1>6. /\ Out(transit') = Out(transit) - (IF isOut THEN e.amount ELSE 0)
      /\ Back(transit') = Back(transit) - (IF isBack THEN e.amount ELSE 0)
  BY <1>1, CarriedMinus DEF CrossInv
<1>7. Out(dropped') = IF isOut THEN Out(dropped) + e.amount ELSE Out(dropped)
  BY <1>1, <1>2, CarriedPlus DEF CrossInv
<1>8. Back(dropped') = IF isBack THEN Back(dropped) + e.amount ELSE Back(dropped)
  BY <1>1, <1>2, CarriedPlus DEF CrossInv
<1>9. /\ Entry(s, d, b, w) = [locked |-> lockedFor[<<s, b>>][w][d], out |-> Out(transit),
                              counted |-> lockedFrom[<<d, b>>][w][s], back |-> Back(transit),
                              gone |-> Out(dropped) + Back(dropped)]
      /\ Entry(s, d, b, w)' = [locked |-> lockedFor[<<s, b>>][w][d], out |-> Out(transit'),
                               counted |-> lockedFrom[<<d, b>>][w][s], back |-> Back(transit'),
                               gone |-> Out(dropped') + Back(dropped')]
  BY DEF Entry
<1> HIDE DEF Out, Back, isOut, isBack
<1>10. /\ Out(transit') = IF isOut THEN Out(transit) - e.amount ELSE Out(transit)
       /\ Back(transit') = IF isBack THEN Back(transit) - e.amount ELSE Back(transit)
       /\ Out(dropped') + Back(dropped') = IF isOut \/ isBack THEN (Out(dropped) + Back(dropped)) + e.amount
                                                              ELSE Out(dropped) + Back(dropped)
  BY <1>3, <1>4, <1>5, <1>6, <1>7, <1>8
<1>11. Entry(s, d, b, w) \in L!Entries
  BY EntryIsTyped
<1>12. Entry(s, d, b, w)' \in [locked : Int, out : Int, counted : Int, back : Int, gone : Int]
  BY <1>3, <1>5, <1>9, <1>10, <1>11 DEF L!Entries
<1> DEFINE x == Entry(s, d, b, w)
           y == Entry(s, d, b, w)'
<1>13. /\ y.locked = x.locked /\ y.counted = x.counted
       /\ isOut => y.out = x.out - e.amount /\ y.back = x.back /\ y.gone = x.gone + e.amount
       /\ isBack => y.out = x.out /\ y.back = x.back - e.amount /\ y.gone = x.gone + e.amount
       /\ ~ isOut /\ ~ isBack => y = x
  BY <1>4, <1>9, <1>10
<1> HIDE DEF x, y
<1>14. /\ isOut => y = [x EXCEPT !.out = @ - e.amount, !.gone = @ + e.amount]
       /\ isBack => y = [x EXCEPT !.back = @ - e.amount, !.gone = @ + e.amount]
  BY <1>3, <1>11, <1>12, <1>13, GoneUpdate DEF x, y
<1> QED BY <1>4, <1>13, <1>14 DEF isOut, isBack, x, y

-----------------------------------------------------------------------------
(* The invariant. *)

SilentStep == receipt' = {} /\ UNCHANGED <<lockedFor, lockedFrom>>

SomeLockFor ==
  \E c \in Chains, a \in Assets, u \in Users : \E amount \in LockAmounts[a], x \in ChainIds :
    LockFor(c, a, u, amount, x)

SomeUnLockFor ==
  \E c \in Chains, a \in Assets, u \in Users : \E amount \in LockAmounts[a], x \in ChainIds :
    UnLockFor(c, a, u, amount, x)

SomeLiquidationCall ==
  \E c \in Chains, a \in Assets, u \in Users, dbt \in Assets, v \in Users :
  \E toCover \in Amounts[dbt] : LiquidationCall(c, a, dbt, u, toCover, v)

\* Three transactions touch the locks, each with what it emits.
LEMMA ChainStepCases ==
  ASSUME ChainStep
  PROVE  SilentStep \/ SomeLockFor \/ SomeUnLockFor \/ SomeLiquidationCall
<1>1. CASE PriceSteps
  BY <1>1 DEF PriceSteps, SetPrice, SilentStep, tokenVars
<1>2. CASE UserSteps
  <2>1. PICK c \in Chains, a \in Assets, u \in Users :
          \/ \E amount \in Amounts[a] : UserStep(c, a, u, amount)
          \/ \E amount \in LockAmounts[a], id \in ChainIds :
               \/ <<c, id>> \in Routes /\ LockFor(c, a, u, amount, id)
               \/ UnLockFor(c, a, u, amount, id)
          \/ \E dbt \in Assets, v \in Users : \E toCover \in Amounts[dbt] :
               LiquidationCall(c, a, dbt, u, toCover, v)
    BY <1>2 DEF UserSteps
  <2>2. CASE \E amount \in Amounts[a] : UserStep(c, a, u, amount)
    <3>1. PICK amount \in Amounts[a] : UserStep(c, a, u, amount)
      BY <2>2
    <3>2. SilentStep
      BY <3>1 DEF UserStep, Mint, Donate, Deposit, Withdraw, Borrow, Repay, Transfer, SilentStep, locks
    <3> QED BY <3>2
  <2>3. CASE \E amount \in LockAmounts[a], id \in ChainIds :
               \/ <<c, id>> \in Routes /\ LockFor(c, a, u, amount, id)
               \/ UnLockFor(c, a, u, amount, id)
    BY <2>3 DEF SomeLockFor, SomeUnLockFor
  <2>4. CASE \E dbt \in Assets, v \in Users : \E toCover \in Amounts[dbt] :
               LiquidationCall(c, a, dbt, u, toCover, v)
    BY <2>4 DEF SomeLiquidationCall
  <2> QED BY <2>1, <2>2, <2>3, <2>4
<1> QED BY <1>1, <1>2 DEF ChainStep

\* Every event a transaction emits is one transit can hold.
LEMMA ReceiptIsEvents ==
  ASSUME CrossInv, ChainStep
  PROVE  receipt' \in SUBSET Events /\ IsFiniteSet(receipt')
<1>1. CASE SilentStep
  BY <1>1, FS_EmptySet DEF SilentStep
<1>2. CASE SomeLockFor
  <2>1. PICK c \in Chains, a \in Assets, u \in Users : \E amount \in LockAmounts[a], x \in ChainIds :
          LockFor(c, a, u, amount, x)
    BY <1>2 DEF SomeLockFor
  <2>2. PICK amount \in LockAmounts[a], x \in ChainIds : LockFor(c, a, u, amount, x)
    BY <2>1
  <2>3. receipt' = {LockCreated(c, a, u, amount, x)}
    BY <2>2 DEF LockFor
  <2>4. LockCreated(c, a, u, amount, x) \in Events
    BY AmountsAreNat DEF LockCreated, Events
  <2> QED BY <2>3, <2>4, FS_Singleton
<1>3. CASE SomeUnLockFor
  <2>1. PICK c \in Chains, a \in Assets, u \in Users : \E amount \in LockAmounts[a], x \in ChainIds :
          UnLockFor(c, a, u, amount, x)
    BY <1>3 DEF SomeUnLockFor
  <2>2. PICK amount \in LockAmounts[a], x \in ChainIds : UnLockFor(c, a, u, amount, x)
    BY <2>1
  <2>3. receipt' = {LockReleased(c, a, u, amount, x, u)}
    BY <2>2 DEF UnLockFor
  <2>4. LockReleased(c, a, u, amount, x, u) \in Events
    BY AmountsAreNat DEF LockReleased, Events
  <2> QED BY <2>3, <2>4, FS_Singleton
<1>4. CASE SomeLiquidationCall
  <2>1. transit' = transit (+) SetToBag(receipt') /\ UNCHANGED dropped
    BY DEF ChainStep
  <2> QED BY <1>4, <2>1, LiquidationEntries, AmountsAreNat DEF SomeLiquidationCall
<1> QED BY <1>1, <1>2, <1>3, <1>4, ChainStepCases

\* The relayers' own steps keep the pool's invariant.
LEMMA PoolInvUnchanged ==
  ASSUME PoolInv, UNCHANGED <<tokenVars, debt, price>>
  PROVE  PoolInv'
<1>1. UNCHANGED <<wallet, cash, credit, debt>> /\ UNCHANGED locks /\ UNCHANGED price
  BY DEF tokenVars, locks
<1>2. LocksType' /\ LocksListed' /\ PriceType'
  BY <1>1, UnchangedListed DEF PoolInv, LocksType, PriceType, locks
<1> QED BY <1>1, <1>2, FundsUnchangedSolvent DEF PoolInv

\* Nothing is under way at first.
LEMMA CrossInvInit == CrossInit => CrossInv
<1> SUFFICES ASSUME CrossInit PROVE CrossInv
  OBVIOUS
<1>1. PoolInv
  BY PoolInvInit DEF CrossInit
<1>2. IsBagOfEvents(EmptyBag)
  <2>1. EmptyBag = [e \in {} |-> 1]
    BY DEF EmptyBag, SetToBag
  <2> QED BY <2>1, FS_EmptySet DEF IsBagOfEvents
<1> QED BY <1>1, <1>2 DEF CrossInit, CrossInv

\* What a relay or a loss leaves of the bags.
LEMMA BagsKeepType ==
  ASSUME CrossInv, NEW e \in BagToSet(transit)
  PROVE  IsBagOfEvents(transit (-) SetToBag({e})) /\ IsBagOfEvents(dropped (+) SetToBag({e}))
<1>1. e \in DOMAIN transit /\ {e} \in SUBSET Events
  BY DEF CrossInv, IsBagOfEvents, BagToSet
<1>2. IsFiniteSet({e})
  BY FS_Singleton
<1>3. IsBagOfEvents(transit (-) SetToBag({e}))
  BY <1>1, BagMinus DEF CrossInv
<1>4. IsBagOfEvents(dropped (+) SetToBag({e}))
  BY <1>1, <1>2, BagPlus DEF CrossInv
<1> QED BY <1>3, <1>4

\* A relay, a refusal and a loss keep the invariant.
LEMMA RelayKeepsInv ==
  ASSUME CrossInv, NEW e \in BagToSet(transit),
         RelayLockCreated(e) \/ RelayLockReleased(e) \/ Reject(e) \/ Lose(e)
  PROVE  CrossInv'
<1>1. IsBagOfEvents(transit (-) SetToBag({e})) /\ IsBagOfEvents(dropped (+) SetToBag({e}))
  BY BagsKeepType
<1>2. /\ e.asset \in Assets /\ e.account \in Users /\ e.to \in Users /\ e.amount \in Nat
      /\ e.emitter \in ChainIds
  BY CrossAssumption DEF CrossInv, IsBagOfEvents, BagToSet, Events
<1>3. CASE RelayLockCreated(e)
  <2>1. PoolInv'
    BY <1>2, <1>3, OnLockCreatedStep DEF RelayLockCreated, CrossInv
  <2> QED BY <1>1, <1>3, <2>1 DEF RelayLockCreated, CrossInv
<1>4. CASE RelayLockReleased(e)
  <2>1. PoolInv'
    BY <1>2, <1>4, UnlockAssetOfStep DEF RelayLockReleased, CrossInv
  <2> QED BY <1>1, <1>4, <2>1 DEF RelayLockReleased, CrossInv
<1>5. CASE Reject(e) \/ Lose(e)
  <2>1. /\ transit' = transit (-) SetToBag({e}) /\ dropped' = dropped (+) SetToBag({e})
        /\ UNCHANGED <<tokenVars, debt, price>>
    BY <1>5 DEF Reject, Lose
  <2>2. PoolInv'
    BY <2>1, PoolInvUnchanged DEF CrossInv
  <2> QED BY <1>1, <2>1, <2>2 DEF CrossInv
<1> QED BY <1>3, <1>4, <1>5

\* Every step keeps the invariant.
LEMMA CrossInvStep == CrossInv /\ [CrossNext]_crossVars => CrossInv'
<1> SUFFICES ASSUME CrossInv, [CrossNext]_crossVars PROVE CrossInv'
  OBVIOUS
<1>1. CASE ChainStep
  <2>1. transit' = transit (+) SetToBag(receipt') /\ dropped' = dropped
    BY <1>1 DEF ChainStep
  <2>2. IsBagOfEvents(transit')
    BY <1>1, <2>1, ReceiptIsEvents, BagPlus DEF CrossInv
  <2>3. PoolInv'
    BY <1>1, UserStepsKeepInv, PriceStepsKeepInv DEF ChainStep, CrossInv
  <2> QED BY <2>1, <2>2, <2>3 DEF CrossInv
<1>2. CASE RelayStep
  BY <1>2, RelayKeepsInv DEF RelayStep
<1>3. CASE UNCHANGED crossVars
  <2>1. UNCHANGED <<tokenVars, debt, price>> /\ transit' = transit /\ dropped' = dropped
    BY <1>3 DEF crossVars, poolVars
  <2> QED BY <2>1, PoolInvUnchanged DEF CrossInv
<1> QED BY <1>1, <1>2, <1>3 DEF CrossNext

-----------------------------------------------------------------------------
(* Every step is one of the ledger's. *)

\* An entry may release nothing.
LEMMA StayIsRelease ==
  ASSUME NEW x \in L!Entries
  PROVE  x \in L!Releases(x)
<1>1. x.counted - 0 = x.counted /\ x.back + 0 = x.back /\ 0 \in 0..x.counted
  BY DEF L!Entries
<1>2. x = [x EXCEPT !.counted = x.counted - 0, !.back = x.back + 0]
  BY <1>1 DEF L!Entries
<1> QED BY <1>1, <1>2 DEF L!Releases

\* A lock towards a chain that is served is a move, any other is none.
LEMMA LockedIsStep ==
  ASSUME CrossInv, CrossInv', NEW c \in Chains, NEW x, NEW a \in Assets, NEW u \in Users,
         NEW n \in LockAmounts[a], LockedOnce(c, x, a, u, n)
  PROVE  [L!LedgerNext]_ledgerNow
<1>1. CASE x \in Chains
  <2>1. Entry(c, x, a, u)' = [Entry(c, x, a, u) EXCEPT !.locked = @ + n, !.out = @ + n]
    BY <1>1 DEF LockedOnce
  <2>2. Entry(c, x, a, u)' \in L!Moves(Entry(c, x, a, u))
    BY <2>1 DEF L!Moves, L!Locks
  <2>3. \A s \in Chains, d \in Chains, b \in Assets, w \in Users :
          <<s, d, b, w>> # <<c, x, a, u>> => Entry(s, d, b, w)' = Entry(s, d, b, w)
    BY DEF LockedOnce
  <2> QED BY <1>1, <2>2, <2>3, CrossMoveIsStep
<1>2. CASE x \notin Chains
  <2>1. \A s \in Chains, d \in Chains, b \in Assets, w \in Users : Entry(s, d, b, w)' = Entry(s, d, b, w)
    BY <1>2 DEF LockedOnce
  <2> QED BY <2>1, CrossQuietIsStep
<1> QED BY <1>1, <1>2

\* An unlock releases from one chain.
LEMMA ReleasedIsStep ==
  ASSUME CrossInv, CrossInv', NEW c \in Chains, NEW x, NEW a \in Assets, NEW u \in Users,
         NEW n \in Nat, lockedFrom[<<c, a>>][u][x] >= n, ReleasedOnce(c, x, a, u, n)
  PROVE  [L!LedgerNext]_ledgerNow
<1>1. \A s \in Chains : Entry(s, c, a, u)' \in L!Releases(Entry(s, c, a, u))
  <2> TAKE s \in Chains
  <2>1. Entry(s, c, a, u) \in L!Entries
    BY EntryIsTyped
  <2>2. CASE s = x
    <3>1. Entry(s, c, a, u)' = [Entry(s, c, a, u) EXCEPT !.counted = @ - n, !.back = @ + n]
      BY <2>2 DEF ReleasedOnce
    <3>2. Entry(s, c, a, u).counted = lockedFrom[<<c, a>>][u][x]
      BY <2>2 DEF Entry
    <3>3. Entry(s, c, a, u).counted \in Nat
      BY <2>1 DEF L!Entries
    <3>4. n \in 0..Entry(s, c, a, u).counted
      BY <3>2, <3>3
    <3> QED BY <3>1, <3>4 DEF L!Releases
  <2>3. CASE s # x
    <3>1. Entry(s, c, a, u)' = Entry(s, c, a, u)
      BY <2>3 DEF ReleasedOnce
    <3> QED BY <2>1, <3>1, StayIsRelease
  <2> QED BY <2>2, <2>3
<1>2. \A s \in Chains, d \in Chains, b \in Assets, w \in Users :
        <<d, b, w>> # <<c, a, u>> => Entry(s, d, b, w)' = Entry(s, d, b, w)
  BY DEF ReleasedOnce
<1> QED BY <1>1, <1>2, CrossReleaseIsStep

\* A liquidation releases from several chains at once.
LEMMA ReleasedFromEachIsStep ==
  ASSUME CrossInv, CrossInv', NEW c \in Chains, NEW a \in Assets, NEW u \in Users,
         NEW taken \in [ChainIds -> Nat],
         \A s \in Chains : taken[s] <= lockedFrom[<<c, a>>][u][s],
         ReleasedFromEach(c, a, u, taken)
  PROVE  [L!LedgerNext]_ledgerNow
<1>1. \A s \in Chains : Entry(s, c, a, u)' \in L!Releases(Entry(s, c, a, u))
  <2> TAKE s \in Chains
  <2>1. Entry(s, c, a, u) \in L!Entries
    BY EntryIsTyped
  <2>2. Entry(s, c, a, u)' =
          [Entry(s, c, a, u) EXCEPT !.counted = @ - taken[s], !.back = @ + taken[s]]
    BY DEF ReleasedFromEach
  <2>3. Entry(s, c, a, u).counted = lockedFrom[<<c, a>>][u][s]
    BY DEF Entry
  <2>4. Entry(s, c, a, u).counted \in Nat /\ taken[s] \in Nat
    BY <2>1, CrossAssumption DEF L!Entries
  <2>5. taken[s] \in 0..Entry(s, c, a, u).counted
    BY <2>3, <2>4
  <2> QED BY <2>2, <2>5 DEF L!Releases
<1>2. \A s \in Chains, d \in Chains, b \in Assets, w \in Users :
        <<d, b, w>> # <<c, a, u>> => Entry(s, d, b, w)' = Entry(s, d, b, w)
  BY DEF ReleasedFromEach
<1> QED BY <1>1, <1>2, CrossReleaseIsStep

\* Every transaction of an account is a step of the ledger, or none.
LEMMA ChainStepIsStep ==
  ASSUME CrossInv, CrossInv', ChainStep
  PROVE  [L!LedgerNext]_ledgerNow
<1>1. transit' = transit (+) SetToBag(receipt') /\ UNCHANGED dropped
  BY DEF ChainStep
<1>2. CASE SilentStep
  BY <1>1, <1>2, SilentEntries, CrossQuietIsStep DEF SilentStep
<1>3. CASE SomeLockFor
  <2>1. PICK c \in Chains, a \in Assets, u \in Users : \E n \in LockAmounts[a], x \in ChainIds :
          LockFor(c, a, u, n, x)
    BY <1>3 DEF SomeLockFor
  <2>2. PICK n \in LockAmounts[a], x \in ChainIds : LockFor(c, a, u, n, x)
    BY <2>1
  <2>3. LockedOnce(c, x, a, u, n)
    BY <1>1, <2>2, AmountsAreNat, LockForEntries
  <2> QED BY <2>3, LockedIsStep
<1>4. CASE SomeUnLockFor
  <2>1. PICK c \in Chains, a \in Assets, u \in Users : \E n \in LockAmounts[a], x \in ChainIds :
          UnLockFor(c, a, u, n, x)
    BY <1>4 DEF SomeUnLockFor
  <2>2. PICK n \in LockAmounts[a], x \in ChainIds : UnLockFor(c, a, u, n, x)
    BY <2>1
  <2>3. n \in Nat /\ lockedFrom[<<c, a>>][u][x] >= n /\ ReleasedOnce(c, x, a, u, n)
    BY <1>1, <2>2, AmountsAreNat, UnLockForEntries
  <2> QED BY <2>3, ReleasedIsStep
<1>5. CASE SomeLiquidationCall
  <2>1. PICK c \in Chains, a \in Assets, u \in Users, dbt \in Assets, v \in Users :
          \E toCover \in Amounts[dbt] : LiquidationCall(c, a, dbt, u, toCover, v)
    BY <1>5 DEF SomeLiquidationCall
  <2>2. PICK toCover \in Amounts[dbt] : LiquidationCall(c, a, dbt, u, toCover, v)
    BY <2>1
  <2>3. PICK taken \in [ChainIds -> Nat] :
          /\ \A s \in Chains : taken[s] <= lockedFrom[<<c, a>>][u][s]
          /\ ReleasedFromEach(c, a, u, taken)
    BY <1>1, <2>2, AmountsAreNat, LiquidationEntries
  <2> QED BY <2>3, ReleasedFromEachIsStep
<1> QED BY <1>2, <1>3, <1>4, <1>5, ChainStepCases

\* The entries after a step are typed, so a place that lost n held at least n.
LEMMA EntryIsTypedNext ==
  ASSUME CrossInv', NEW s \in Chains, NEW d \in Chains, NEW a \in Assets, NEW u \in Users
  PROVE  Entry(s, d, a, u)' \in L!Entries
<1>1. ledgerNow' \in [L!Positions -> L!Entries]
  BY LedgerIsTypedNext
<1>2. <<s, d, a, u>> \in L!Positions
  BY DEF L!Positions
<1> QED BY <1>1, <1>2, LedgerAt

\* An amount taken from a place was there.
LEMMA PlacesCover ==
  ASSUME NEW x \in L!Entries, NEW y \in L!Entries, NEW n \in Nat
  PROVE  /\ y = [x EXCEPT !.out = @ - n, !.counted = @ + n] => n \in 0..x.out
         /\ y = [x EXCEPT !.back = @ - n, !.locked = @ - n] => n \in 0..x.back
         /\ y = [x EXCEPT !.out = @ - n, !.gone = @ + n] => n \in 0..x.out
         /\ y = [x EXCEPT !.back = @ - n, !.gone = @ + n] => n \in 0..x.back
<1>1. y = [x EXCEPT !.out = @ - n, !.counted = @ + n] => y.out = x.out - n
  BY DEF L!Entries
<1>2. y = [x EXCEPT !.back = @ - n, !.locked = @ - n] => y.back = x.back - n
  BY DEF L!Entries
<1>3. y = [x EXCEPT !.out = @ - n, !.gone = @ + n] => y.out = x.out - n
  BY DEF L!Entries
<1>4. y = [x EXCEPT !.back = @ - n, !.gone = @ + n] => y.back = x.back - n
  BY DEF L!Entries
<1>5. x.out \in Nat /\ y.out \in Nat /\ x.back \in Nat /\ y.back \in Nat
  BY DEF L!Entries
<1> QED BY <1>1, <1>2, <1>3, <1>4, <1>5

\* The relay of a lock is an arrival.
LEMMA ArrivedIsStep ==
  ASSUME CrossInv, CrossInv', NEW e \in Events, e.peer \in Chains, Arrived(e)
  PROVE  [L!LedgerNext]_ledgerNow
<1> DEFINE s == e.emitter
           d == e.peer
           a == e.asset
           u == e.account
<1>1. s \in Chains /\ d \in Chains /\ a \in Assets /\ u \in Users /\ e.amount \in Nat
  BY DEF Events
<1>2. Entry(s, d, a, u)' =
        [Entry(s, d, a, u) EXCEPT !.out = @ - e.amount, !.counted = @ + e.amount]
  BY <1>1 DEF Arrived
<1>3. \A s2, d2 \in Chains, a2 \in Assets, u2 \in Users :
        <<s2, d2, a2, u2>> # <<s, d, a, u>> => Entry(s2, d2, a2, u2)' = Entry(s2, d2, a2, u2)
  BY DEF Arrived
<1> HIDE DEF s, d, a, u
<1>4. Entry(s, d, a, u) \in L!Entries /\ Entry(s, d, a, u)' \in L!Entries
  BY <1>1, EntryIsTyped, EntryIsTypedNext
<1>5. e.amount \in 0..Entry(s, d, a, u).out
  BY <1>1, <1>2, <1>4, PlacesCover
<1>6. Entry(s, d, a, u)' \in L!Moves(Entry(s, d, a, u))
  BY <1>2, <1>5 DEF L!Moves, L!Arrivals
<1> QED BY <1>1, <1>3, <1>6, CrossMoveIsStep

\* The relay of a release is a settlement.
LEMMA SettledIsStep ==
  ASSUME CrossInv, CrossInv', NEW e \in Events, e.peer \in Chains, Settled(e)
  PROVE  [L!LedgerNext]_ledgerNow
<1> DEFINE s == e.peer
           d == e.emitter
           a == e.asset
           u == e.account
<1>1. s \in Chains /\ d \in Chains /\ a \in Assets /\ u \in Users /\ e.amount \in Nat
  BY DEF Events
<1>2. Entry(s, d, a, u)' =
        [Entry(s, d, a, u) EXCEPT !.back = @ - e.amount, !.locked = @ - e.amount]
  BY <1>1 DEF Settled
<1>3. \A s2, d2 \in Chains, a2 \in Assets, u2 \in Users :
        <<s2, d2, a2, u2>> # <<s, d, a, u>> => Entry(s2, d2, a2, u2)' = Entry(s2, d2, a2, u2)
  BY DEF Settled
<1> HIDE DEF s, d, a, u
<1>4. Entry(s, d, a, u) \in L!Entries /\ Entry(s, d, a, u)' \in L!Entries
  BY <1>1, EntryIsTyped, EntryIsTypedNext
<1>5. e.amount \in 0..Entry(s, d, a, u).back
  BY <1>1, <1>2, <1>4, PlacesCover
<1>6. Entry(s, d, a, u)' \in L!Moves(Entry(s, d, a, u))
  BY <1>2, <1>5 DEF L!Moves, L!Settlements
<1> QED BY <1>1, <1>3, <1>6, CrossMoveIsStep

\* An event that is dropped is a loss, wherever it was going.
LEMMA GoneIsStep ==
  ASSUME CrossInv, CrossInv', NEW e \in Events, Gone(e)
  PROVE  [L!LedgerNext]_ledgerNow
<1> DEFINE c == e.emitter
           x == e.peer
           a == e.asset
           u == e.account
<1>1. c \in Chains /\ a \in Assets /\ u \in Users /\ e.amount \in Nat
  BY DEF Events
<1>2. CASE e.event = "LockCreated" /\ x \in Chains
  <2>1. Entry(c, x, a, u)' =
          [Entry(c, x, a, u) EXCEPT !.out = @ - e.amount, !.gone = @ + e.amount]
    BY <1>1, <1>2 DEF Gone, Concerns
  <2>2. \A s2, d2 \in Chains, a2 \in Assets, u2 \in Users :
          <<s2, d2, a2, u2>> # <<c, x, a, u>> => Entry(s2, d2, a2, u2)' = Entry(s2, d2, a2, u2)
    BY <1>2 DEF Gone, Concerns
  <2> HIDE DEF c, x, a, u
  <2>3. Entry(c, x, a, u) \in L!Entries /\ Entry(c, x, a, u)' \in L!Entries
    BY <1>1, <1>2, EntryIsTyped, EntryIsTypedNext
  <2>4. e.amount \in 0..Entry(c, x, a, u).out
    BY <1>1, <2>1, <2>3, PlacesCover
  <2>5. Entry(c, x, a, u)' \in L!Moves(Entry(c, x, a, u))
    BY <2>1, <2>4 DEF L!Moves, L!Losses
  <2> QED BY <1>1, <1>2, <2>2, <2>5, CrossMoveIsStep
<1>3. CASE e.event = "LockReleased" /\ x \in Chains
  <2>1. Entry(x, c, a, u)' =
          [Entry(x, c, a, u) EXCEPT !.back = @ - e.amount, !.gone = @ + e.amount]
    BY <1>1, <1>3 DEF Gone, Concerns
  <2>2. \A s2, d2 \in Chains, a2 \in Assets, u2 \in Users :
          <<s2, d2, a2, u2>> # <<x, c, a, u>> => Entry(s2, d2, a2, u2)' = Entry(s2, d2, a2, u2)
    BY <1>3 DEF Gone, Concerns
  <2> HIDE DEF c, x, a, u
  <2>3. Entry(x, c, a, u) \in L!Entries /\ Entry(x, c, a, u)' \in L!Entries
    BY <1>1, <1>3, EntryIsTyped, EntryIsTypedNext
  <2>4. e.amount \in 0..Entry(x, c, a, u).back
    BY <1>1, <2>1, <2>3, PlacesCover
  <2>5. Entry(x, c, a, u)' \in L!Moves(Entry(x, c, a, u))
    BY <2>1, <2>4 DEF L!Moves, L!Losses
  <2> QED BY <1>1, <1>3, <2>2, <2>5, CrossMoveIsStep
<1>4. CASE x \notin Chains
  <2>1. \A s \in Chains, d \in Chains, b \in Assets, w \in Users : Entry(s, d, b, w)' = Entry(s, d, b, w)
    BY <1>4 DEF Gone, Concerns
  <2> QED BY <2>1, CrossQuietIsStep
<1> QED BY <1>2, <1>3, <1>4 DEF Events

\* Every step of the relayers is a step of the ledger, or none.
LEMMA RelayStepIsStep ==
  ASSUME CrossInv, CrossInv', RelayStep
  PROVE  [L!LedgerNext]_ledgerNow
<1>1. PICK e \in BagToSet(transit) :
        RelayLockCreated(e) \/ RelayLockReleased(e) \/ Reject(e) \/ Lose(e)
  BY DEF RelayStep
<1>2. e \in Events
  BY DEF CrossInv, IsBagOfEvents, BagToSet
<1>3. CASE RelayLockCreated(e)
  <2>1. e.peer \in Chains
    BY <1>3 DEF RelayLockCreated
  <2> QED BY <1>2, <1>3, <2>1, RelayLockCreatedEntries, ArrivedIsStep
<1>4. CASE RelayLockReleased(e)
  <2>1. e.peer \in Chains
    BY <1>4 DEF RelayLockReleased
  <2> QED BY <1>2, <1>4, <2>1, RelayLockReleasedEntries, SettledIsStep
<1>5. CASE Reject(e) \/ Lose(e)
  <2>1. /\ transit' = transit (-) SetToBag({e}) /\ dropped' = dropped (+) SetToBag({e})
        /\ UNCHANGED <<lockedFor, lockedFrom>>
    BY <1>5 DEF Reject, Lose, tokenVars, locks
  <2>2. Gone(e)
    BY <2>1, DropEntries
  <2> QED BY <1>2, <2>2, GoneIsStep
<1> QED BY <1>1, <1>3, <1>4, <1>5

\* Every step of the composition is.
LEMMA CrossStepIsStep == CrossInv /\ CrossInv' /\ [CrossNext]_crossVars => [L!LedgerNext]_ledgerNow
<1> SUFFICES ASSUME CrossInv, CrossInv', [CrossNext]_crossVars PROVE [L!LedgerNext]_ledgerNow
  OBVIOUS
<1>1. CASE UNCHANGED crossVars
  <2>1. UNCHANGED <<lockedFor, lockedFrom, transit, dropped>>
    BY <1>1 DEF crossVars, poolVars, tokenVars, locks
  <2>2. \A s \in Chains, d \in Chains, a \in Assets, u \in Users : Entry(s, d, a, u)' = Entry(s, d, a, u)
    BY <2>1 DEF Entry, Carried
  <2> QED BY <2>2, CrossQuietIsStep
<1> QED BY <1>1, ChainStepIsStep, RelayStepIsStep DEF CrossNext

\* The ledger starts empty.
LEMMA CrossStartIsStart == CrossInit => L!LedgerInit
<1> SUFFICES ASSUME CrossInit PROVE L!LedgerInit
  OBVIOUS
<1>1. ASSUME NEW s \in Chains, NEW d \in Chains, NEW a \in Assets, NEW u \in Users
      PROVE  Entry(s, d, a, u) = L!Empty
  <2>1. lockedFor[<<s, a>>][u][d] = 0 /\ lockedFrom[<<d, a>>][u][s] = 0
    BY CrossAssumption DEF CrossInit, PoolInit, TokenInit, Reserves
  <2>2. transit = EmptyBag /\ dropped = EmptyBag
    BY DEF CrossInit
  <2> QED BY <2>1, <2>2, CarriedByEmpty DEF Entry, L!Empty
<1>2. ledgerNow = [p \in Chains \X Chains \X Assets \X Users |-> L!Empty]
  BY <1>1 DEF ledgerNow
<1> QED BY <1>2 DEF L!LedgerInit, L!Positions

-----------------------------------------------------------------------------
\* The invariant holds in every state of the composition.
THEOREM CrossInvariant == CrossSpec => []CrossInv
BY CrossInvInit, CrossInvStep, PTL DEF CrossSpec

\* The chains and the canisters keep the ledger: whatever the accounts do and in
\* whatever order the events are relayed or lost, every step does at most one of
\* its moves, for any number of chains, assets, accounts and lost events.
THEOREM CrossImplementsLedger == CrossSpec => ImplementsLedger
<1>1. L!LedgerInit => Ledger!LedgerInit
  BY DEF L!LedgerInit, Ledger!LedgerInit, ledgerNow, L!Positions, Ledger!Positions, L!Empty, Ledger!Empty
<1>2. [L!LedgerNext]_ledgerNow => [Ledger!LedgerNext]_ledgerNow
  BY DEF L!LedgerNext, Ledger!LedgerNext, ledgerNow, L!Positions, Ledger!Positions,
         L!Entries, Ledger!Entries, L!Moves, Ledger!Moves, L!Locks, Ledger!Locks, L!Arrivals, Ledger!Arrivals,
         L!Settlements, Ledger!Settlements, L!Losses, Ledger!Losses, L!Releases, Ledger!Releases,
         L!Backing, Ledger!Backing
<1>3. CrossSpec => L!LedgerInit /\ [][L!LedgerNext]_ledgerNow
  BY CrossStartIsStart, CrossStepIsStep, CrossInvariant, PTL DEF CrossSpec
<1>4. CrossSpec => Ledger!LedgerInit /\ [][Ledger!LedgerNext]_ledgerNow
  BY <1>1, <1>2, <1>3, PTL
<1> QED BY <1>4, PTL DEF ImplementsLedger, Ledger!LedgerSpec, ledgerNow

\* So every unit that is locked is in one place: counted on the other chain,
\* under way, or lost.
THEOREM CrossConserves == CrossSpec => []LockConservation
<1>1. UNION {LockAmounts[a] : a \in Assets} \subseteq Nat
  BY AmountsAreNat
<1>2. L!LedgerSpec => []L!Conserved
  BY <1>1, L!LedgerConserves
<1>3. L!Conserved => LockConservation
  BY DEF L!Conserved, LockConservation, Ledger!Conserved, L!Positions, Ledger!Positions, ledgerNow
<1>4. CrossSpec => L!LedgerSpec
  BY CrossStartIsStart, CrossStepIsStep, CrossInvariant, PTL DEF CrossSpec, L!LedgerSpec
<1> QED BY <1>2, <1>3, <1>4, PTL

\* The deposits of every chain stay covered under the calls the relayers make.
THEOREM CrossSolvent == CrossSpec => []Solvent
<1>1. CrossInv => Solvent
  BY DEF CrossInv, PoolInv
<1> QED BY <1>1, CrossInvariant, PTL

\* What is on its way back is part of what the ledger has locked.
LEMMA ReleaseIsCovered ==
  ASSUME CrossInv, LockConservation, NEW e \in BagToSet(transit),
         e.event = "LockReleased", e.peer \in Chains
  PROVE  lockedFor[<<e.peer, e.asset>>][e.account][e.emitter] >= e.amount
<1> DEFINE s == e.peer
           d == e.emitter
           a == e.asset
           u == e.account
           x == Entry(s, d, a, u)
<1>1. e \in DOMAIN transit /\ e \in Events
  BY DEF CrossInv, IsBagOfEvents, BagToSet
<1>2. s \in Chains /\ d \in Chains /\ a \in Assets /\ u \in Users /\ e.amount \in Nat
  BY <1>1 DEF Events
<1>3. Carried(transit, "LockReleased", a, u, d, s) >= e.amount
  <2>1. Concerns(e, "LockReleased", a, u, d, s)
    BY DEF Concerns
  <2>2. Carried(transit (-) SetToBag({e}), "LockReleased", a, u, d, s)
          = Carried(transit, "LockReleased", a, u, d, s) - e.amount
    BY <1>1, <2>1, CarriedMinus DEF CrossInv
  <2>3. Carried(transit (-) SetToBag({e}), "LockReleased", a, u, d, s) \in Nat
    BY BagsKeepType, CarriedIsNat
  <2>4. Carried(transit, "LockReleased", a, u, d, s) \in Nat
    BY CarriedIsNat DEF CrossInv
  <2> QED BY <1>2, <2>2, <2>3, <2>4
<1>4. x.back >= e.amount /\ x.locked = lockedFor[<<s, a>>][u][d]
  BY <1>3 DEF Entry
<1>5. x \in L!Entries
  BY <1>2, EntryIsTyped
<1>6. x.locked = x.out + x.counted + x.back + x.gone
  <2>1. ledgerNow[<<s, d, a, u>>] = x /\ <<s, d, a, u>> \in L!Positions
    BY <1>2, LedgerAt DEF L!Positions
  <2>2. \A p \in L!Positions :
          ledgerNow[p].locked = ledgerNow[p].out + ledgerNow[p].counted + ledgerNow[p].back + ledgerNow[p].gone
    BY DEF LockConservation, Ledger!Conserved, L!Positions, Ledger!Positions, ledgerNow
  <2> HIDE DEF x
  <2> QED BY <2>1, <2>2
<1> HIDE DEF x
<1>7. x.locked >= e.amount
  BY <1>2, <1>4, <1>5, <1>6 DEF L!Entries
<1> QED BY <1>4, <1>7

\* No release is ever refused for want of the lock it releases.
THEOREM CrossReleaseWithinLock == CrossSpec => ReleaseWithinLock
<1>1. ASSUME CrossInv, LockConservation, [CrossNext]_crossVars
      PROVE  [\A e \in BagToSet(transit) :
                Reject(e) => lockedFor[<<e.peer, e.asset>>][e.account][e.emitter] >= e.amount]_crossVars
  BY <1>1, ReleaseIsCovered DEF Reject
<1> QED BY <1>1, CrossInvariant, CrossConserves, PTL DEF CrossSpec, ReleaseWithinLock

\* A relay or a loss takes no more credit than the lock it releases.
LEMMA RelayStepHolds ==
  ASSUME CrossInv, NEW e \in BagToSet(transit),
         RelayLockCreated(e) \/ RelayLockReleased(e) \/ Reject(e) \/ Lose(e)
  PROVE  KeepsHolds
<1>1. /\ e.asset \in Assets /\ e.account \in Users /\ e.to \in Users /\ e.amount \in Nat
      /\ e.emitter \in ChainIds
  BY CrossAssumption DEF CrossInv, IsBagOfEvents, BagToSet, Events
<1>2. CASE RelayLockCreated(e)
  <2>1. UNCHANGED <<credit, lockedFor>>
    BY <1>2 DEF RelayLockCreated, OnLockCreated, onLockCreated, funds
  <2> QED BY <2>1, UnchangedHolds
<1>3. CASE RelayLockReleased(e)
  BY <1>1, <1>3, UnlockAssetOfHolds DEF RelayLockReleased, CrossInv
<1>4. CASE Reject(e) \/ Lose(e)
  <2>1. UNCHANGED <<credit, lockedFor>>
    BY <1>4 DEF Reject, Lose, tokenVars
  <2> QED BY <2>1, UnchangedHolds
<1> QED BY <1>2, <1>3, <1>4

\* With the relays of the canisters between the chains as well, only the owner of
\* a lock takes its backing away.
THEOREM CrossOwnerUncovers == CrossSpec => OnlyOwnerUncoversLock
<1> DEFINE Step == \A c \in Chains, a \in Assets, u \in Users :
                     LockHeld(c, a, u) /\ ~ LockHeld(c, a, u)' =>
                       /\ credit'[<<c, a>>][u] < credit[<<c, a>>][u]
                       /\ wallet'[<<c, a>>][u] - wallet[<<c, a>>][u]
                            = credit[<<c, a>>][u] - credit'[<<c, a>>][u]
<1>1. ASSUME CrossInv, [CrossNext]_crossVars
      PROVE  KeepsHolds
  <2>1. CASE UserSteps
    BY <1>1, <2>1, UserStepsHold DEF CrossInv
  <2>2. CASE PriceSteps
    BY <2>2, UnchangedHolds DEF PriceSteps, SetPrice, tokenVars
  <2>3. CASE RelayStep
    BY <1>1, <2>3, RelayStepHolds DEF RelayStep
  <2>4. CASE UNCHANGED crossVars
    BY <2>4, UnchangedHolds DEF crossVars, poolVars, tokenVars
  <2> QED BY <1>1, <2>1, <2>2, <2>3, <2>4 DEF CrossNext, ChainStep
<1>2. CrossInv /\ CrossInv' /\ [CrossNext]_crossVars => [Step]_poolVars
  BY <1>1, HoldsOfViews DEF CrossInv
<1> QED BY <1>2, CrossInvariant, PTL DEF CrossSpec, OnlyOwnerUncoversLock

\* With the relays interleaved as well, what a liquidation charges for is paid out
\* on its chain or under way to the chain that holds it.
THEOREM CrossLiquidationSettles == CrossSpec => LiquidationSettles
<1>1. CrossInv => [\A c \in Chains, u \in Users : GivesUp(c, u) /\ Liquidatable(c, u) =>
        \A coll, dbt \in Assets, v \in Users : \A toCover \in Amounts[dbt] :
          LiquidationCall(c, coll, dbt, u, toCover, v) =>
            /\ Seized(c, coll, u) = ActualDebtToLiquidate(c, coll, dbt, u, toCover).collateral
            /\ \A d \in ChainIds :
                 lockedFrom[<<c, coll>>][u][d] - lockedFrom'[<<c, coll>>][u][d]
                   = Announced(c, coll, u, d)']_poolVars
  BY LiquidationIsSettled DEF CrossInv
<1> QED BY <1>1, CrossInvariant, PTL DEF LiquidationSettles
=============================================================================
