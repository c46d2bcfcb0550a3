------------------------------ MODULE SumFacts ------------------------------
(***************************************************************************)
(* What the proofs need to know of sums.  SumOver is a fold, defined by    *)
(* recursion over subsets, and the induction that gives it its meaning is  *)
(* made with a minimal counterexample: were the fold wrong for some        *)
(* subset, it would be wrong for one with no smaller such subset, which    *)
(* exists because the proper subsets of a finite set are well-founded.     *)
(* The value it is compared with is a number of units: f[x] pairs for each *)
(* x of the set, for which the library's theorems on cardinalities hold.   *)
(***************************************************************************)
EXTENDS Sums, FiniteSetTheorems, TLAPS

\* For each x of S, f[x] units marked x.
Units(f, S) == UNION {{x} \X (1 .. f[x]) : x \in S}

\* The units of a finite set are finitely many.
LEMMA UnitsFinite ==
  ASSUME NEW S, IsFiniteSet(S), NEW f, \A x \in S : f[x] \in Nat
  PROVE  IsFiniteSet(Units(f, S))
<1> DEFINE part == [x \in S |-> {x} \X (1 .. f[x])]
           parts == {{x} \X (1 .. f[x]) : x \in S}
<1>1. part \in Surjection(S, parts)
  BY DEF Surjection
<1>2. IsFiniteSet(parts)
  BY <1>1, FS_Surjection
<1>3. \A x \in S : IsFiniteSet({x} \X (1 .. f[x]))
  <2> SUFFICES ASSUME NEW x \in S
               PROVE  IsFiniteSet({x} \X (1 .. f[x]))
    OBVIOUS
  <2>1. 1 \in Int /\ f[x] \in Int
    OBVIOUS
  <2>2. IsFiniteSet({x}) /\ IsFiniteSet(1 .. f[x])
    BY <2>1, FS_Singleton, FS_Interval
  <2>3. QED
    BY <2>2, FS_Product
<1>4. QED
  BY <1>2, <1>3, FS_UNION DEF Units

\* The units of a set are those of one member and those of the others.
LEMMA UnitsStep ==
  ASSUME NEW S, IsFiniteSet(S), NEW f, \A x \in S : f[x] \in Nat, NEW x \in S
  PROVE  Cardinality(Units(f, S)) = f[x] + Cardinality(Units(f, S \ {x}))
<1> DEFINE one == {x} \X (1 .. f[x])
           rest == Units(f, S \ {x})
<1>1. IsFiniteSet(one) /\ Cardinality(one) = f[x]
  <2>1. IsFiniteSet({x}) /\ Cardinality({x}) = 1
    BY FS_Singleton
  <2>2. IsFiniteSet(1 .. f[x]) /\ Cardinality(1 .. f[x]) = f[x]
    BY FS_Interval
  <2>3. QED
    BY <2>1, <2>2, FS_Product
<1>2. IsFiniteSet(S \ {x})
  BY FS_RemoveElement
<1>3. IsFiniteSet(rest) /\ Cardinality(rest) \in Nat
  BY <1>2, UnitsFinite, FS_CardinalityType
<1>4. one \cap rest = {}
  BY DEF Units
<1>5. Units(f, S) = one \cup rest
  BY DEF Units
<1>6. Cardinality(Units(f, S)) = Cardinality(one) + Cardinality(rest) - Cardinality({})
  <2> HIDE DEF one, rest
  <2>1. QED
    BY <1>1, <1>3, <1>4, <1>5, FS_Union
<1>7. QED
  BY <1>1, <1>3, <1>6, FS_EmptySet

\* What is 0 for the empty set and grows by f[x] with every x is the sum of f, by
\* the definition of the fold.
LEMMA SumUnique ==
  ASSUME NEW S, IsFiniteSet(S), NEW f
  PROVE  \A value :
           /\ value[{}] = 0
           /\ \A s \in SUBSET S : \A x \in s : value[s] = f[x] + value[s \ {x}]
           => SumOver(f, S) = value[S]
<1> SUFFICES ASSUME NEW value, value[{}] = 0,
                    \A s \in SUBSET S : \A x \in s : value[s] = f[x] + value[s \ {x}]
             PROVE  SumOver(f, S) = value[S]
  OBVIOUS
<1> DEFINE pick(s) == CHOOSE x \in s : TRUE
           Fold(g) == [s \in SUBSET S |->
                         IF s = {} THEN 0 ELSE f[pick(s)] + g[s \ {pick(s)}]]
           iter == CHOOSE g : g = Fold(g)
           count == [s \in SUBSET S |-> value[s]]
<1>1. SumOver(f, S) = iter[S]
  BY Zenon DEF SumOver, MapThenSumSet, MapThenFoldSet
<1>2. \A s \in SUBSET S : s # {} => pick(s) \in s
  OBVIOUS
<1>3. count[{}] = 0
  OBVIOUS
<1>4. \A s \in SUBSET S : s # {} =>
        count[s] = f[pick(s)] + count[s \ {pick(s)}]
  <2> HIDE DEF pick
  <2>1. QED
    BY <1>2
<1>5. count = [s \in SUBSET S |-> count[s]] /\ count[S] = value[S]
  OBVIOUS
<1>6. count = Fold(count)
  <2> HIDE DEF pick
  <2>1. \A s \in SUBSET S : count[s] = Fold(count)[s]
    BY <1>3, <1>4
  <2>2. QED
    BY <1>5, <2>1
<1>7. iter = Fold(iter)
  <2> HIDE DEF Fold, count
  <2>1. \E g : g = Fold(g)
    BY <1>6
  <2>2. QED
    BY <2>1, Zenon
<1>8. \A s \in SUBSET S : iter[s] = count[s]
  <2> DEFINE wrong == {s \in SUBSET S : iter[s] # count[s]}
  <2> HIDE DEF iter, count
  <2>1. SUFFICES ASSUME wrong # {}
                 PROVE  FALSE
    OBVIOUS
  <2>2. IsWellFoundedOn(StrictSubsetOrdering(S), SUBSET S)
    BY FS_StrictSubsetOrderingWellFounded, FS_FiniteSubsetsOfFinite
  <2>3. PICK s \in wrong : \A r \in wrong : <<r, s>> \notin StrictSubsetOrdering(S)
    <3> HIDE DEF wrong
    <3>1. wrong \subseteq SUBSET S
      BY DEF wrong
    <3>2. QED
      BY <2>1, <2>2, <3>1, WFMin
  <2>4. s # {}
    BY <1>3, <1>7
  <2>5. pick(s) \in s
    BY <1>2, <2>4
  <2> HIDE DEF pick
  <2>6. <<s \ {pick(s)}, s>> \in StrictSubsetOrdering(S)
    BY <2>5 DEF StrictSubsetOrdering
  <2>7. iter[s \ {pick(s)}] = count[s \ {pick(s)}]
    BY <2>3, <2>6
  <2>8. iter[s] = f[pick(s)] + iter[s \ {pick(s)}]
    BY <1>7, <2>3, <2>4
  <2>9. QED
    BY <1>4, <2>3, <2>4, <2>7, <2>8
<1>9. QED
  BY <1>1, <1>5, <1>8

\* A sum of natural numbers is the number of units in it.
LEMMA SumIsUnits ==
  ASSUME NEW S, IsFiniteSet(S), NEW f, \A x \in S : f[x] \in Nat
  PROVE  SumOver(f, S) = Cardinality(Units(f, S))
<1> DEFINE count == [s \in SUBSET S |-> Cardinality(Units(f, s))]
<1>1. \A s \in SUBSET S : \A x \in s : count[s] = f[x] + count[s \ {x}]
  BY UnitsStep, FS_Subset
<1>2. Units(f, {}) = {}
  BY DEF Units
<1>3. count[{}] = 0
  BY <1>2, FS_EmptySet
<1>4. count[S] = Cardinality(Units(f, S))
  OBVIOUS
<1> HIDE DEF count
<1>5. \A v : /\ v[{}] = 0
             /\ \A s \in SUBSET S : \A x \in s : v[s] = f[x] + v[s \ {x}]
             => SumOver(f, S) = v[S]
  BY SumUnique
<1>6. SumOver(f, S) = count[S]
  BY <1>1, <1>3, <1>5
<1>7. QED
  BY <1>4, <1>6

-----------------------------------------------------------------------------
(* Sums of integers: what is won less what is lost. *)

Gains(f, S) == [x \in S |-> IF f[x] >= 0 THEN f[x] ELSE 0]
Lacks(f, S) == [x \in S |-> IF f[x] >= 0 THEN 0 ELSE -f[x]]

\* A sum of integers is the units won less the units lost.
LEMMA SumIsBalance ==
  ASSUME NEW S, IsFiniteSet(S), NEW f, \A x \in S : f[x] \in Int
  PROVE  SumOver(f, S) = Cardinality(Units(Gains(f, S), S))
                           - Cardinality(Units(Lacks(f, S), S))
<1> DEFINE w == Gains(f, S)
           l == Lacks(f, S)
           count == [s \in SUBSET S |-> Cardinality(Units(w, s)) - Cardinality(Units(l, s))]
<1>1. \A x \in S : w[x] \in Nat /\ l[x] \in Nat /\ w[x] - l[x] = f[x]
  BY DEF Gains, Lacks
<1>2. count[S] = Cardinality(Units(w, S)) - Cardinality(Units(l, S))
  OBVIOUS
<1>3. \A s \in SUBSET S : \A x \in s : count[s] = f[x] + count[s \ {x}]
  <2> SUFFICES ASSUME NEW s \in SUBSET S, NEW x \in s
               PROVE  count[s] = f[x] + count[s \ {x}]
    OBVIOUS
  <2> HIDE DEF w, l
  <2>1. IsFiniteSet(s) /\ IsFiniteSet(s \ {x})
    BY FS_Subset
  <2>2. /\ Cardinality(Units(w, s)) = w[x] + Cardinality(Units(w, s \ {x}))
        /\ Cardinality(Units(l, s)) = l[x] + Cardinality(Units(l, s \ {x}))
    BY <1>1, <2>1, UnitsStep
  <2>3. Cardinality(Units(w, s \ {x})) \in Nat /\ Cardinality(Units(l, s \ {x})) \in Nat
    BY <1>1, <2>1, UnitsFinite, FS_CardinalityType
  <2>4. w[x] \in Nat /\ l[x] \in Nat /\ w[x] - l[x] = f[x] /\ f[x] \in Int
    BY <1>1
  <2>5. QED
    BY <2>2, <2>3, <2>4
<1>4. Units(w, {}) = {} /\ Units(l, {}) = {}
  BY DEF Units
<1>5. count[{}] = 0
  <2> HIDE DEF w, l
  <2>1. QED
    BY <1>4, FS_EmptySet
<1> HIDE DEF count
<1>6. \A v : /\ v[{}] = 0
             /\ \A s \in SUBSET S : \A x \in s : v[s] = f[x] + v[s \ {x}]
             => SumOver(f, S) = v[S]
  BY SumUnique
<1>7. SumOver(f, S) = count[S]
  BY <1>3, <1>5, <1>6
<1>8. QED
  BY <1>2, <1>7

\* Equal integers have equal sums.
LEMMA IntSumSame ==
  ASSUME NEW S, IsFiniteSet(S), NEW f, \A x \in S : f[x] \in Int,
         NEW g, \A x \in S : g[x] = f[x]
  PROVE  SumOver(g, S) = SumOver(f, S)
<1>1. Gains(g, S) = Gains(f, S) /\ Lacks(g, S) = Lacks(f, S)
  BY DEF Gains, Lacks
<1>2. SumOver(g, S) = Cardinality(Units(Gains(g, S), S)) - Cardinality(Units(Lacks(g, S), S))
  BY SumIsBalance
<1>3. QED
  BY <1>1, <1>2, SumIsBalance

\* A sum of integers is one, and it grows by what is added to the set.
LEMMA IntSumAdd ==
  ASSUME NEW S, IsFiniteSet(S), NEW x, x \notin S, NEW f, \A y \in S \cup {x} : f[y] \in Int
  PROVE  /\ SumOver(f, S \cup {x}) = SumOver(f, S) + f[x]
         /\ SumOver(f, S) \in Int
<1> DEFINE T == S \cup {x}
           w == Gains(f, T)
           l == Lacks(f, T)
<1>1. \A y \in T : w[y] \in Nat /\ l[y] \in Nat /\ w[y] - l[y] = f[y]
  BY DEF Gains, Lacks
<1>2. IsFiniteSet(T) /\ x \in T /\ T \ {x} = S
  BY FS_AddElement
<1>3. SumOver(f, T) = Cardinality(Units(w, T)) - Cardinality(Units(l, T))
  BY <1>2, SumIsBalance
<1>4. SumOver(f, S) = Cardinality(Units(w, S)) - Cardinality(Units(l, S))
  <2>1. \A y \in S : Gains(f, S)[y] = w[y] /\ Lacks(f, S)[y] = l[y]
    BY DEF Gains, Lacks
  <2>2. Units(Gains(f, S), S) = Units(w, S) /\ Units(Lacks(f, S), S) = Units(l, S)
    <3> HIDE DEF w, l
    <3>1. QED
      BY <2>1 DEF Units
  <2>3. QED
    BY <2>2, SumIsBalance
<1> HIDE DEF w, l
<1>5. /\ Cardinality(Units(w, T)) = w[x] + Cardinality(Units(w, S))
      /\ Cardinality(Units(l, T)) = l[x] + Cardinality(Units(l, S))
  <2> HIDE DEF T
  <2>1. QED
    BY <1>1, <1>2, UnitsStep
<1>6. Cardinality(Units(w, S)) \in Nat /\ Cardinality(Units(l, S)) \in Nat
  BY <1>1, UnitsFinite, FS_CardinalityType
<1>7. w[x] \in Nat /\ l[x] \in Nat /\ w[x] - l[x] = f[x] /\ f[x] \in Int
  BY <1>1
<1>8. QED
  BY <1>3, <1>4, <1>5, <1>6, <1>7

\* A sum of integers is an integer.
LEMMA IntSumType ==
  ASSUME NEW S, IsFiniteSet(S), NEW f, \A x \in S : f[x] \in Int
  PROVE  SumOver(f, S) \in Int
<1> DEFINE w == Gains(f, S)
           l == Lacks(f, S)
<1>1. \A x \in S : w[x] \in Nat /\ l[x] \in Nat
  BY DEF Gains, Lacks
<1>2. SumOver(f, S) = Cardinality(Units(w, S)) - Cardinality(Units(l, S))
  BY SumIsBalance
<1> HIDE DEF w, l
<1>3. Cardinality(Units(w, S)) \in Nat /\ Cardinality(Units(l, S)) \in Nat
  BY <1>1, UnitsFinite, FS_CardinalityType
<1>4. QED
  BY <1>2, <1>3

\* With the terms it has and one more of value v, a sum is greater by v.
LEMMA IntSumGrows ==
  ASSUME NEW S, IsFiniteSet(S), NEW x, x \notin S, NEW f, \A y \in S : f[y] \in Int,
         NEW g, \A y \in S : g[y] = f[y], NEW v \in Int, g[x] = v
  PROVE  SumOver(g, S \cup {x}) = SumOver(f, S) + v
<1>1. SumOver(g, S) = SumOver(f, S)
  BY IntSumSame
<1>2. SumOver(g, S \cup {x}) = SumOver(g, S) + v
  BY IntSumAdd
<1>3. QED
  BY <1>1, <1>2

-----------------------------------------------------------------------------

\* A sum of natural numbers is one.
LEMMA SumType ==
  ASSUME NEW S, IsFiniteSet(S), NEW f, \A x \in S : f[x] \in Nat
  PROVE  SumOver(f, S) \in Nat
BY SumIsUnits, UnitsFinite, FS_CardinalityType

\* A sum is one term and the sum of the others.
LEMMA SumStep ==
  ASSUME NEW S, IsFiniteSet(S), NEW f, \A x \in S : f[x] \in Nat, NEW x \in S
  PROVE  /\ SumOver(f, S) = f[x] + SumOver(f, S \ {x})
         /\ SumOver(f, S \ {x}) \in Nat
<1>1. IsFiniteSet(S \ {x})
  BY FS_RemoveElement
<1>2. QED
  BY <1>1, SumIsUnits, UnitsStep, SumType

\* Equal terms have equal sums.
LEMMA SumSame ==
  ASSUME NEW S, IsFiniteSet(S), NEW f, \A x \in S : f[x] \in Nat,
         NEW g, \A x \in S : g[x] = f[x]
  PROVE  SumOver(g, S) = SumOver(f, S)
<1>1. Units(g, S) = Units(f, S)
  BY DEF Units
<1>2. QED
  BY <1>1, SumIsUnits

\* The sum over a subset is no greater.
LEMMA SumSubset ==
  ASSUME NEW S, IsFiniteSet(S), NEW f, \A x \in S : f[x] \in Nat, NEW T \in SUBSET S
  PROVE  SumOver(f, T) <= SumOver(f, S)
<1>1. IsFiniteSet(T)
  BY FS_Subset
<1>2. Units(f, T) \subseteq Units(f, S)
  BY DEF Units
<1>3. QED
  BY <1>1, <1>2, SumIsUnits, UnitsFinite, FS_Subset

\* The empty sum is 0.
LEMMA SumEmpty == \A f : SumOver(f, {}) = 0
<1> SUFFICES ASSUME NEW f
             PROVE  SumOver(f, {}) = 0
  OBVIOUS
<1>1. Units(f, {}) = {}
  BY DEF Units
<1>2. QED
  BY <1>1, SumIsUnits, FS_EmptySet

\* A sum of zeros is 0.
LEMMA SumZero ==
  ASSUME NEW S, IsFiniteSet(S), NEW f, \A x \in S : f[x] = 0
  PROVE  SumOver(f, S) = 0
<1>1. Units(f, S) = {}
  BY DEF Units
<1>2. QED
  BY <1>1, SumIsUnits, FS_EmptySet

\* The sum over two sets with no common member is that over the one and the other.
LEMMA SumUnion ==
  ASSUME NEW S, IsFiniteSet(S), NEW T, IsFiniteSet(T), S \cap T = {},
         NEW f, \A x \in S \cup T : f[x] \in Nat
  PROVE  SumOver(f, S \cup T) = SumOver(f, S) + SumOver(f, T)
<1> DEFINE US == Units(f, S)
           UT == Units(f, T)
<1>1. IsFiniteSet(S \cup T)
  BY FS_Union
<1>2. IsFiniteSet(US) /\ IsFiniteSet(UT) /\ Cardinality(US) \in Nat /\ Cardinality(UT) \in Nat
  BY UnitsFinite, FS_CardinalityType
<1>3. Units(f, S \cup T) = US \cup UT /\ US \cap UT = {}
  BY DEF Units
<1>4. Cardinality(US \cup UT) = Cardinality(US) + Cardinality(UT)
  <2> HIDE DEF US, UT
  <2>1. Cardinality(US \cup UT) = Cardinality(US) + Cardinality(UT) - Cardinality({})
    BY <1>2, <1>3, FS_Union
  <2>2. QED
    BY <1>2, <2>1, FS_EmptySet
<1>5. QED
  BY <1>1, <1>3, <1>4, SumIsUnits

\* Terms that are 0 may be left out of a sum.
LEMMA SumSupport ==
  ASSUME NEW S, IsFiniteSet(S), NEW f, \A x \in S : f[x] \in Nat,
         NEW T \in SUBSET S, NEW g, \A x \in T : g[x] = f[x], \A x \in S \ T : f[x] = 0
  PROVE  SumOver(f, S) = SumOver(g, T)
<1>1. IsFiniteSet(T) /\ \A x \in T : g[x] \in Nat
  BY FS_Subset
<1>2. Units(g, T) = Units(f, S)
  BY DEF Units
<1>3. QED
  BY <1>1, <1>2, SumIsUnits

\* When one term changes, the sum changes by as much.
LEMMA SumChange ==
  ASSUME NEW S, IsFiniteSet(S), NEW f, \A x \in S : f[x] \in Nat,
         NEW g, NEW x \in S, g[x] \in Nat, \A y \in S \ {x} : g[y] = f[y]
  PROVE  SumOver(g, S) = SumOver(f, S) - f[x] + g[x]
<1>1. IsFiniteSet(S \ {x})
  BY FS_RemoveElement
<1>2. SumOver(g, S \ {x}) = SumOver(f, S \ {x})
  BY <1>1, SumSame
<1>3. \A y \in S : g[y] \in Nat
  OBVIOUS
<1>4. /\ SumOver(f, S) = f[x] + SumOver(f, S \ {x})
      /\ SumOver(f, S \ {x}) \in Nat
  BY SumStep
<1>5. SumOver(g, S) = g[x] + SumOver(g, S \ {x})
  BY <1>3, SumStep
<1>6. QED
  BY <1>2, <1>4, <1>5

=============================================================================
