------------------------------ MODULE SumProofs ------------------------------
(***************************************************************************)
(* Facts about SumFunctionOnSet of the community module Functions, the sum *)
(* behind every total the contracts compute in a loop.  The operator folds *)
(* over a set in the order of CHOOSE; the lemmas below make it usable: a   *)
(* sum of naturals is a natural, any element can be taken out of it first, *)
(* it depends only on the summed values, and changing one value changes    *)
(* the sum by the difference.  They are proved by induction over the       *)
(* strict-subset order of a finite set, applied to a set of "good" subsets.*)
(***************************************************************************)
EXTENDS Integers, Functions, FiniteSetTheorems, TLAPS

\* g is the recursive function by which a fold over S sums f.
IsIteration(g, f, S) ==
  g = [s \in SUBSET S |-> IF s = {} THEN 0
        ELSE f[CHOOSE x \in s : TRUE] + g[s \ {CHOOSE x \in s : TRUE}]]

-----------------------------------------------------------------------------
(* Induction over the subsets of a finite set: a set Q that holds a subset *)
(* whenever it holds all of its strict subsets holds every subset.         *)
LEMMA SubsetInduction ==
  ASSUME NEW S, IsFiniteSet(S), NEW Q,
         \A T \in SUBSET S : (\A U \in SUBSET T : U # T => U \in Q) => T \in Q
  PROVE  SUBSET S \subseteq Q
<1> DEFINE Bad == (SUBSET S) \ Q
<1>1. SUFFICES ASSUME Bad # {} PROVE FALSE
  OBVIOUS
<1>2. PICK T \in Bad : \A U \in Bad : ~ (<<U, T>> \in StrictSubsetOrdering(S))
  <2>1. IsWellFoundedOn(StrictSubsetOrdering(S), SUBSET S)
    BY FS_FiniteSubsetsOfFinite, FS_StrictSubsetOrderingWellFounded
  <2>2. Bad \subseteq SUBSET S
    OBVIOUS
  <2> HIDE DEF Bad
  <2> QED BY <1>1, <2>1, <2>2, WFMin
<1>3. \A U \in SUBSET T : U # T => U \in Q
  BY <1>2 DEF StrictSubsetOrdering
<1> QED BY <1>3

(* What the community operator is: the value at S of some function that    *)
(* satisfies the recursion.                                                *)
LEMMA SumIsIteration ==
  ASSUME NEW f, NEW S
  PROVE  SumFunctionOnSet(f, S) = (CHOOSE g : IsIteration(g, f, S))[S]
BY DEF SumFunctionOnSet, FoldFunctionOnSet, MapThenFoldSet, IsIteration

(* Two functions that satisfy the recursion agree where both are defined.  *)
LEMMA IterationsAgree ==
  ASSUME NEW S, IsFiniteSet(S), NEW T, S \subseteq T, NEW f, NEW g, NEW h,
         IsIteration(g, f, S), IsIteration(h, f, T)
  PROVE  \A U \in SUBSET S : g[U] = h[U]
<1> DEFINE Q == {U \in SUBSET S : g[U] = h[U]}
<1>1. ASSUME NEW U \in SUBSET S, \A V \in SUBSET U : V # U => V \in Q
      PROVE  U \in Q
  <2> DEFINE x == CHOOSE y \in U : TRUE
  <2>1. CASE U = {}
    BY <2>1 DEF IsIteration
  <2>2. CASE U # {}
    <3>1. x \in U
      BY <2>2
    <3>2. g[U \ {x}] = h[U \ {x}]
      BY <3>1, <1>1
    <3>3. g[U] = f[x] + g[U \ {x}]
      BY <2>2 DEF IsIteration
    <3>4. h[U] = f[x] + h[U \ {x}]
      BY <2>2 DEF IsIteration
    <3> QED BY <3>2, <3>3, <3>4
  <2> QED BY <2>1, <2>2
<1>2. SUBSET S \subseteq Q
  <2> HIDE DEF Q
  <2> QED BY <1>1, SubsetInduction
<1> QED BY <1>2

(* The sum over a finite set satisfies the recursion it is defined by.     *)
LEMMA SumUnfold ==
  ASSUME NEW S, IsFiniteSet(S), NEW f
  PROVE  SumFunctionOnSet(f, S) =
           IF S = {} THEN 0
           ELSE f[CHOOSE x \in S : TRUE]
                  + SumFunctionOnSet(f, S \ {CHOOSE x \in S : TRUE})
<1> DEFINE c(T) == CHOOSE x \in T : TRUE
           sum(T) == SumFunctionOnSet(f, T)
           step(T) == IF T = {} THEN 0 ELSE f[c(T)] + sum(T \ {c(T)})
           Q == {T \in SUBSET S : sum(T) = step(T)}
<1>1. ASSUME NEW T \in SUBSET S, \A U \in SUBSET T : U # T => U \in Q
      PROVE  T \in Q
  <2> DEFINE g == [s \in SUBSET T |-> step(s)]
             h == CHOOSE k : IsIteration(k, f, T)
  <2>0. \A U \in SUBSET T : U # {} => c(U) \in U
    OBVIOUS
  <2>1. \A U \in SUBSET T : U # T => sum(U) = step(U)
    BY <1>1
  <2>2. IsIteration(g, f, T)
    <3>1. \A U \in SUBSET T : g[U] = IF U = {} THEN 0 ELSE f[c(U)] + g[U \ {c(U)}]
      <4> SUFFICES ASSUME NEW U \in SUBSET T, U # {}
                   PROVE  g[U] = f[c(U)] + g[U \ {c(U)}]
        OBVIOUS
      <4>1. c(U) \in U /\ U \ {c(U)} \in SUBSET T /\ U \ {c(U)} # T
        BY <2>0
      <4>2. g[U \ {c(U)}] = sum(U \ {c(U)})
        <5> HIDE DEF sum, step, c
        <5> QED BY <4>1, <2>1
      <4>3. g[U] = f[c(U)] + sum(U \ {c(U)})
        <5> HIDE DEF sum, c
        <5> QED OBVIOUS
      <4> HIDE DEF g, sum
      <4> QED BY <4>2, <4>3
    <3>2. g = [s \in SUBSET T |-> g[s]]
      OBVIOUS
    <3> HIDE DEF g
    <3>3. g = [s \in SUBSET T |-> IF s = {} THEN 0 ELSE f[c(s)] + g[s \ {c(s)}]]
      BY <3>1, <3>2
    <3> QED BY <3>3 DEF IsIteration
  <2>3. IsIteration(h, f, T)
    <3> HIDE DEF g
    <3> QED BY <2>2
  <2>4. IsFiniteSet(T)
    BY FS_Subset
  <2>5. g[T] = h[T]
    <3> HIDE DEF g, h
    <3> QED BY <2>2, <2>3, <2>4, IterationsAgree
  <2>6. sum(T) = h[T]
    BY SumIsIteration
  <2> HIDE DEF sum, h
  <2> QED BY <2>5, <2>6
<1>2. SUBSET S \subseteq Q
  <2> HIDE DEF Q
  <2> QED BY <1>1, SubsetInduction
<1> QED BY <1>2

-----------------------------------------------------------------------------
(* A sum depends only on the values it sums.                               *)
LEMMA SumCongruence ==
  ASSUME NEW S, IsFiniteSet(S), NEW f, NEW g, \A x \in S : f[x] = g[x]
  PROVE  SumFunctionOnSet(f, S) = SumFunctionOnSet(g, S)
<1> DEFINE Q == {T \in SUBSET S : SumFunctionOnSet(f, T) = SumFunctionOnSet(g, T)}
<1>1. ASSUME NEW T \in SUBSET S, \A U \in SUBSET T : U # T => U \in Q
      PROVE  T \in Q
  <2> DEFINE x == CHOOSE y \in T : TRUE
  <2>1. IsFiniteSet(T)
    BY FS_Subset
  <2>2. CASE T = {}
    BY <2>1, <2>2, SumUnfold
  <2>3. CASE T # {}
    <3>1. x \in T
      BY <2>3
    <3>2. SumFunctionOnSet(f, T \ {x}) = SumFunctionOnSet(g, T \ {x})
      BY <3>1, <1>1
    <3>3. SumFunctionOnSet(f, T) = f[x] + SumFunctionOnSet(f, T \ {x})
      BY <2>1, <2>3, SumUnfold
    <3>4. SumFunctionOnSet(g, T) = g[x] + SumFunctionOnSet(g, T \ {x})
      BY <2>1, <2>3, SumUnfold
    <3> HIDE DEF x
    <3> QED BY <3>1, <3>2, <3>3, <3>4
  <2> QED BY <2>2, <2>3
<1>2. SUBSET S \subseteq Q
  <2> HIDE DEF Q
  <2> QED BY <1>1, SubsetInduction
<1> QED BY <1>2

(* A sum of naturals is a natural.                                         *)
LEMMA SumIsNat ==
  ASSUME NEW S, IsFiniteSet(S), NEW f, \A x \in S : f[x] \in Nat
  PROVE  SumFunctionOnSet(f, S) \in Nat
<1> DEFINE Q == {T \in SUBSET S : SumFunctionOnSet(f, T) \in Nat}
<1>1. ASSUME NEW T \in SUBSET S, \A U \in SUBSET T : U # T => U \in Q
      PROVE  T \in Q
  <2> DEFINE x == CHOOSE y \in T : TRUE
  <2>1. IsFiniteSet(T)
    BY FS_Subset
  <2>2. CASE T = {}
    BY <2>1, <2>2, SumUnfold
  <2>3. CASE T # {}
    <3>1. x \in T
      BY <2>3
    <3>2. SumFunctionOnSet(f, T \ {x}) \in Nat
      BY <3>1, <1>1
    <3>3. SumFunctionOnSet(f, T) = f[x] + SumFunctionOnSet(f, T \ {x})
      BY <2>1, <2>3, SumUnfold
    <3> HIDE DEF x
    <3> QED BY <3>1, <3>2, <3>3
  <2> QED BY <2>2, <2>3
<1>2. SUBSET S \subseteq Q
  <2> HIDE DEF Q
  <2> QED BY <1>1, SubsetInduction
<1> QED BY <1>2

(* Any element, not only the one CHOOSE takes, can be summed first.        *)
LEMMA SumRemove ==
  ASSUME NEW S, IsFiniteSet(S), NEW f, \A x \in S : f[x] \in Nat, NEW e \in S
  PROVE  SumFunctionOnSet(f, S) = f[e] + SumFunctionOnSet(f, S \ {e})
<1> DEFINE sum(T) == SumFunctionOnSet(f, T)
           Q == {T \in SUBSET S : \A y \in T : sum(T) = f[y] + sum(T \ {y})}
<1>0. \A T \in SUBSET S : IsFiniteSet(T) /\ sum(T) \in Nat
  BY FS_Subset, SumIsNat
<1>1. ASSUME NEW T \in SUBSET S, \A U \in SUBSET T : U # T => U \in Q
      PROVE  T \in Q
  <2> SUFFICES ASSUME NEW y \in T PROVE sum(T) = f[y] + sum(T \ {y})
    OBVIOUS
  <2> DEFINE x == CHOOSE z \in T : TRUE
             R == T \ {x, y}
  <2>1. x \in T /\ f[x] \in Nat /\ f[y] \in Nat /\ sum(R) \in Nat
    BY <1>0
  <2>2. sum(T) = f[x] + sum(T \ {x})
    BY <1>0, SumUnfold
  <2>3. CASE x = y
    BY <2>2, <2>3
  <2>4. CASE x # y
    <3>1. sum(T \ {x}) = f[y] + sum(R)
      <4>1. T \ {x} \in Q /\ y \in T \ {x} /\ (T \ {x}) \ {y} = R
        BY <2>1, <2>4, <1>1
      <4> HIDE DEF x, R, sum
      <4> QED BY <4>1
    <3>2. sum(T \ {y}) = f[x] + sum(R)
      <4>1. T \ {y} \in Q /\ x \in T \ {y} /\ (T \ {y}) \ {x} = R
        BY <2>1, <2>4, <1>1
      <4> HIDE DEF x, R, sum
      <4> QED BY <4>1
    <3> HIDE DEF x, R, sum
    <3> QED BY <2>1, <2>2, <3>1, <3>2
  <2> QED BY <2>3, <2>4
<1>2. SUBSET S \subseteq Q
  <2> HIDE DEF Q
  <2> QED BY <1>1, SubsetInduction
<1> QED BY <1>2

(* Changing one summed value changes the sum by the difference.            *)
LEMMA SumUpdate ==
  ASSUME NEW S, IsFiniteSet(S), NEW f \in [S -> Nat], NEW e \in S, NEW v \in Nat
  PROVE  SumFunction([f EXCEPT ![e] = v]) = SumFunction(f) - f[e] + v
<1> DEFINE g == [f EXCEPT ![e] = v]
           rest == SumFunctionOnSet(f, S \ {e})
<1>1. IsFiniteSet(S \ {e})
  BY FS_Subset
<1>2. SumFunctionOnSet(g, S \ {e}) = rest
  BY <1>1, SumCongruence
<1>3. SumFunctionOnSet(g, S) = v + rest
  BY <1>2, SumRemove
<1>4. SumFunctionOnSet(f, S) = f[e] + rest
  BY SumRemove
<1>5. rest \in Nat
  BY <1>1, SumIsNat
<1> HIDE DEF rest
<1> QED BY <1>3, <1>4, <1>5 DEF SumFunction

(* A summed value is at most the sum.                                      *)
LEMMA SumBoundsElement ==
  ASSUME NEW S, IsFiniteSet(S), NEW f \in [S -> Nat], NEW e \in S
  PROVE  f[e] <= SumFunction(f)
<1>1. IsFiniteSet(S \ {e})
  BY FS_Subset
<1>2. SumFunctionOnSet(f, S \ {e}) \in Nat
  BY <1>1, SumIsNat
<1>3. SumFunctionOnSet(f, S) = f[e] + SumFunctionOnSet(f, S \ {e})
  BY SumRemove
<1> QED BY <1>2, <1>3 DEF SumFunction

-----------------------------------------------------------------------------
(* Elements with nothing to add can be left out.                           *)
LEMMA SumOfNonzero ==
  ASSUME NEW S, IsFiniteSet(S), NEW f, \A x \in S : f[x] \in Nat,
         NEW U \in SUBSET S, \A x \in S \ U : f[x] = 0
  PROVE  SumFunctionOnSet(f, U) = SumFunctionOnSet(f, S)
<1> DEFINE sum(T) == SumFunctionOnSet(f, T)
           Q == {T \in SUBSET S : sum(T) = sum(T \cap U)}
<1>0. \A T \in SUBSET S : IsFiniteSet(T) /\ sum(T) \in Nat /\ \A x \in T : f[x] \in Nat
  BY FS_Subset, SumIsNat
<1>1. ASSUME NEW T \in SUBSET S, \A V \in SUBSET T : V # T => V \in Q
      PROVE  T \in Q
  <2>1. CASE T \subseteq U
    <3>1. T \cap U = T
      BY <2>1
    <3> QED BY <3>1
  <2>2. CASE ~ (T \subseteq U)
    <3>1. PICK x \in T : x \notin U
      BY <2>2
    <3>2. sum(T) = f[x] + sum(T \ {x})
      BY <1>0, SumRemove
    <3>3. f[x] = 0 /\ sum(T \ {x}) \in Nat
      BY <1>0, <3>1
    <3>4. sum(T \ {x}) = sum(T \cap U)
      <4>1. T \ {x} \in Q /\ (T \ {x}) \cap U = T \cap U
        BY <1>1, <3>1
      <4>2. sum(T \ {x}) = sum((T \ {x}) \cap U)
        BY <4>1
      <4> HIDE DEF sum
      <4> QED BY <4>1, <4>2
    <3>5. sum(T) = sum(T \cap U)
      <4> HIDE DEF sum, Q
      <4> QED BY <3>2, <3>3, <3>4
    <3> QED BY <3>5
  <2> QED BY <2>1, <2>2
<1>2. SUBSET S \subseteq Q
  <2> HIDE DEF Q
  <2> QED BY <1>1, SubsetInduction
<1>3. S \cap U = U
  OBVIOUS
<1> QED BY <1>2, <1>3

(* A sum of sums.                                                          *)
LEMMA SumPlus ==
  ASSUME NEW S, IsFiniteSet(S), NEW f, NEW g, NEW h,
         \A x \in S : f[x] \in Nat /\ g[x] \in Nat /\ h[x] = f[x] + g[x]
  PROVE  SumFunctionOnSet(h, S) = SumFunctionOnSet(f, S) + SumFunctionOnSet(g, S)
<1> DEFINE F(T) == SumFunctionOnSet(f, T)
           G(T) == SumFunctionOnSet(g, T)
           H(T) == SumFunctionOnSet(h, T)
           Q == {T \in SUBSET S : H(T) = F(T) + G(T)}
<1>0. \A T \in SUBSET S : IsFiniteSet(T) /\ F(T) \in Nat /\ G(T) \in Nat
  BY FS_Subset, SumIsNat
<1>1. ASSUME NEW T \in SUBSET S, \A U \in SUBSET T : U # T => U \in Q
      PROVE  T \in Q
  <2> DEFINE x == CHOOSE y \in T : TRUE
  <2>1. CASE T = {}
    BY <1>0, <2>1, SumUnfold
  <2>2. CASE T # {}
    <3>1. x \in T /\ T \ {x} \in SUBSET S /\ T \ {x} \in Q
      BY <1>1, <2>2
    <3>2. F(T) = f[x] + F(T \ {x}) /\ G(T) = g[x] + G(T \ {x}) /\ H(T) = h[x] + H(T \ {x})
      BY <1>0, <2>2, SumUnfold
    <3>3. f[x] \in Nat /\ g[x] \in Nat /\ h[x] = f[x] + g[x] /\ F(T \ {x}) \in Nat /\ G(T \ {x}) \in Nat
      BY <1>0, <3>1
    <3> HIDE DEF x, F, G, H
    <3> QED BY <3>1, <3>2, <3>3
  <2> QED BY <2>1, <2>2
<1>2. SUBSET S \subseteq Q
  <2> HIDE DEF Q
  <2> QED BY <1>1, SubsetInduction
<1> QED BY <1>2

(* A sum of larger values is larger.                                       *)
LEMMA SumMonotone ==
  ASSUME NEW S, IsFiniteSet(S), NEW f, NEW g,
         \A x \in S : f[x] \in Nat /\ g[x] \in Nat /\ f[x] <= g[x]
  PROVE  SumFunctionOnSet(f, S) <= SumFunctionOnSet(g, S)
<1> DEFINE d == [x \in S |-> g[x] - f[x]]
<1>1. \A x \in S : f[x] \in Nat /\ d[x] \in Nat /\ g[x] = f[x] + d[x]
  OBVIOUS
<1> HIDE DEF d
<1>2. SumFunctionOnSet(g, S) = SumFunctionOnSet(f, S) + SumFunctionOnSet(d, S)
  BY <1>1, SumPlus
<1>3. SumFunctionOnSet(f, S) \in Nat /\ SumFunctionOnSet(d, S) \in Nat
  BY <1>1, SumIsNat
<1> QED BY <1>2, <1>3

(* The sum over one element, and over none.                                *)
LEMMA SumOfOne ==
  ASSUME NEW f, NEW e, f[e] \in Nat
  PROVE  SumFunctionOnSet(f, {e}) = f[e] /\ SumFunctionOnSet(f, {}) = 0
<1>1. IsFiniteSet({e}) /\ IsFiniteSet({}) /\ {e} \ {e} = {}
  BY FS_Singleton, FS_EmptySet
<1>2. SumFunctionOnSet(f, {}) = 0
  BY <1>1, SumUnfold
<1>3. SumFunctionOnSet(f, {e}) = f[e] + SumFunctionOnSet(f, {e} \ {e})
  BY <1>1, SumRemove
<1> QED BY <1>1, <1>2, <1>3

(* What is summed can be named otherwise: m gives every index its element  *)
(* of V, each to one index.                                                *)
LEMMA SumRenamed ==
  ASSUME NEW S, IsFiniteSet(S), NEW f, NEW g, NEW m, NEW V, IsFiniteSet(V),
         \A i \in S : m[i] \in V, \A x \in V : \E i \in S : m[i] = x,
         \A i \in S : g[i] = f[m[i]] /\ g[i] \in Nat,
         \A i, j \in S : m[i] = m[j] => i = j
  PROVE  SumFunctionOnSet(g, S) = SumFunctionOnSet(f, V)
<1> DEFINE image(T) == {m[i] : i \in T}
           Q == {T \in SUBSET S : SumFunctionOnSet(g, T) = SumFunctionOnSet(f, image(T))}
<1>0. \A T \in SUBSET S : IsFiniteSet(T) /\ IsFiniteSet(image(T)) /\ \A x \in image(T) : f[x] \in Nat
  <2> TAKE T \in SUBSET S
  <2>1. image(T) \subseteq V
    OBVIOUS
  <2> QED BY <2>1, FS_Subset
<1>1. ASSUME NEW T \in SUBSET S, \A U \in SUBSET T : U # T => U \in Q
      PROVE  T \in Q
  <2>1. CASE T = {}
    BY <1>0, <2>1, SumUnfold
  <2>2. CASE T # {}
    <3>1. PICK i \in T : TRUE
      BY <2>2
    <3>2. m[i] \in image(T) /\ image(T) \ {m[i]} = image(T \ {i}) /\ g[i] = f[m[i]]
      OBVIOUS
    <3>3. SumFunctionOnSet(g, T) = g[i] + SumFunctionOnSet(g, T \ {i})
      BY <1>0, SumRemove
    <3>4. SumFunctionOnSet(f, image(T)) = f[m[i]] + SumFunctionOnSet(f, image(T) \ {m[i]})
      <4> HIDE DEF image
      <4> QED BY <1>0, <3>2, SumRemove
    <3>5. SumFunctionOnSet(g, T \ {i}) = SumFunctionOnSet(f, image(T \ {i}))
      BY <1>1
    <3> HIDE DEF image
    <3> QED BY <3>2, <3>3, <3>4, <3>5
  <2> QED BY <2>1, <2>2
<1>2. SUBSET S \subseteq Q
  <2> HIDE DEF Q
  <2> QED BY <1>1, SubsetInduction
<1>3. image(S) = V
  OBVIOUS
<1> QED BY <1>2, <1>3

-----------------------------------------------------------------------------
(* Sums over a list, in its order.                                         *)

(* Induction over the numbers up to n.                                     *)
LEMMA IntervalInduction ==
  ASSUME NEW n \in Nat, NEW Q, 0 \in Q, \A i \in 0..(n - 1) : i \in Q => i + 1 \in Q
  PROVE  \A i \in 0..n : i \in Q
<1> DEFINE S == 0..n
           Good == {T \in SUBSET S : \A i \in S : T = 0..i => i \in Q}
<1>1. IsFiniteSet(S)
  BY FS_Interval
<1>2. ASSUME NEW T \in SUBSET S, \A U \in SUBSET T : U # T => U \in Good
      PROVE  T \in Good
  <2> SUFFICES ASSUME NEW i \in S, T = 0..i PROVE i \in Q
    OBVIOUS
  <2>1. CASE i = 0
    BY <2>1
  <2>2. CASE i # 0
    <3>1. 0..(i - 1) \in SUBSET T /\ 0..(i - 1) # T /\ i - 1 \in 0..(n - 1) /\ i - 1 \in S
      <4>1. i \in 1..n /\ i \in T /\ i \notin 0..(i - 1)
        BY <2>2
      <4> QED BY <4>1
    <3>2. 0..(i - 1) \in Good
      BY <1>2, <3>1
    <3>3. i - 1 \in Q
      BY <3>1, <3>2
    <3>4. (i - 1) + 1 \in Q /\ (i - 1) + 1 = i
      BY <3>1, <3>3
    <3> QED BY <3>4
  <2> QED BY <2>1, <2>2
<1>3. SUBSET S \subseteq Good
  <2>1. \A T \in SUBSET S : (\A U \in SUBSET T : U # T => U \in Good) => T \in Good
    BY <1>2, Zenon
  <2> HIDE DEF Good, S
  <2> QED BY <1>1, <2>1, SubsetInduction
<1> HIDE DEF Good
<1>4. \A i \in S : 0..i \in Good
  <2> TAKE i \in S
  <2>1. 0..i \in SUBSET S
    OBVIOUS
  <2> QED BY <1>3, <2>1
<1> QED BY <1>4 DEF Good

(* A loop that takes of each element what is left to take, in turn, takes  *)
(* the amount if there is as much, and else all there is.                  *)
LEMMA RunningTake ==
  ASSUME NEW n \in Nat, NEW amount \in Nat, NEW f, NEW t, \A i \in 1..n : f[i] \in Nat,
         \A i \in 1..n : LET before == SumFunctionOnSet(f, 1..(i - 1)) IN
           t[i] = IF amount <= before THEN 0
                  ELSE IF f[i] <= amount - before THEN f[i] ELSE amount - before
  PROVE  SumFunctionOnSet(t, 1..n) = IF amount <= SumFunctionOnSet(f, 1..n)
                                     THEN amount ELSE SumFunctionOnSet(f, 1..n)
<1> DEFINE F(i) == SumFunctionOnSet(f, 1..i)
           T(i) == SumFunctionOnSet(t, 1..i)
           Q == {i \in 0..n : T(i) = IF amount <= F(i) THEN amount ELSE F(i)}
<1>1. \A i \in 0..n : IsFiniteSet(1..i) /\ F(i) \in Nat
  <2> TAKE i \in 0..n
  <2>1. IsFiniteSet(1..i)
    BY FS_Interval
  <2>2. \A j \in 1..i : f[j] \in Nat
    OBVIOUS
  <2> QED BY <2>1, <2>2, SumIsNat
<1>2. \A i \in 1..n : t[i] = IF amount <= F(i - 1) THEN 0
                             ELSE IF f[i] <= amount - F(i - 1) THEN f[i] ELSE amount - F(i - 1)
  OBVIOUS
<1>3. \A i \in 1..n : t[i] \in Nat
  <2> TAKE i \in 1..n
  <2>1. F(i - 1) \in Nat
    BY <1>1
  <2> HIDE DEF F
  <2> QED BY <1>2, <2>1
<1>4. F(0) = 0 /\ T(0) = 0
  <2>1. 1..0 = {} /\ IsFiniteSet({})
    BY FS_EmptySet
  <2> QED BY <2>1, SumUnfold
<1>5. \A i \in 0..(n - 1) : F(i + 1) = f[i + 1] + F(i) /\ T(i + 1) = t[i + 1] + T(i)
  <2> TAKE i \in 0..(n - 1)
  <2>1. /\ i + 1 \in 1..n /\ i + 1 \in 0..n /\ i + 1 \in 1..(i + 1)
        /\ (1..(i + 1)) \ {i + 1} = 1..i
    OBVIOUS
  <2>2. IsFiniteSet(1..(i + 1))
    BY <1>1, <2>1
  <2>3. \A j \in 1..(i + 1) : f[j] \in Nat /\ t[j] \in Nat
    BY <1>3
  <2>4. F(i + 1) = f[i + 1] + SumFunctionOnSet(f, (1..(i + 1)) \ {i + 1})
    BY <2>1, <2>2, <2>3, SumRemove
  <2>5. T(i + 1) = t[i + 1] + SumFunctionOnSet(t, (1..(i + 1)) \ {i + 1})
    BY <2>1, <2>2, <2>3, SumRemove
  <2> QED BY <2>1, <2>4, <2>5
<1> HIDE DEF F, T
<1>6. 0 \in Q
  BY <1>4
<1>7. ASSUME NEW i \in 0..(n - 1), i \in Q
      PROVE  i + 1 \in Q
  <2>1. T(i) = IF amount <= F(i) THEN amount ELSE F(i)
    BY <1>7
  <2>2. /\ i + 1 \in 1..n /\ i + 1 \in 0..n /\ (i + 1) - 1 = i
        /\ F(i) \in Nat /\ F(i + 1) \in Nat /\ f[i + 1] \in Nat
    BY <1>1
  <2>3. t[i + 1] = IF amount <= F(i) THEN 0
                   ELSE IF f[i + 1] <= amount - F(i) THEN f[i + 1] ELSE amount - F(i)
    BY <1>2, <2>2
  <2>4. T(i + 1) = IF amount <= F(i + 1) THEN amount ELSE F(i + 1)
    BY <1>5, <2>1, <2>2, <2>3
  <2> QED BY <2>2, <2>4
<1> HIDE DEF Q
<1>8. n \in Q
  <2>1. \A i \in 0..(n - 1) : i \in Q => i + 1 \in Q
    BY <1>7
  <2>2. \A i \in 0..n : i \in Q
    BY <1>6, <2>1, IntervalInduction, Zenon
  <2> QED BY <2>2
<1> QED BY <1>8 DEF Q, T, F
=============================================================================
