------------------------------- MODULE Folding -------------------------------
(***************************************************************************)
(* Induction over natural numbers, stated of sets, and what it shows of    *)
(* the folds that the models are built from.                               *)
(***************************************************************************)
EXTENDS Integers, Sequences, SequencesExt, FiniteSetTheorems, WellFoundedInduction, TLAPS

CONSTANT Op(_, _)      \* what a fold applies

\* A set of natural numbers has a least element.
LEMMA LeastNumber ==
  ASSUME NEW T, T \subseteq Nat, T # {}
  PROVE  \E m \in T : \A n \in T : m <= n
<1> DEFINE R == StrictSubsetOrdering(Nat)
           F == {0 .. k : k \in T}
<1>1. F \subseteq FiniteSubsetsOf(Nat) /\ F # {}
  <2>1. \A k \in T : 0 .. k \in SUBSET Nat /\ IsFiniteSet(0 .. k)
    BY FS_Interval
  <2>2. QED BY <2>1 DEF FiniteSubsetsOf
<1>2. PICK s \in F : \A t \in F : ~(<<t, s>> \in R)
  <2> HIDE DEF R, F
  <2>1. IsWellFoundedOn(R, FiniteSubsetsOf(Nat))
    BY FS_StrictSubsetOrderingWellFounded DEF R
  <2>2. QED BY <1>1, <2>1, WFMin
<1>3. PICK m \in T : s = 0 .. m
  OBVIOUS
<1>4. ASSUME NEW n \in T, n < m PROVE FALSE
  <2>1. 0 .. n \subseteq 0 .. m /\ 0 .. n # 0 .. m
    BY <1>4
  <2>2. <<0 .. n, 0 .. m>> \in R
    BY <2>1, <1>4 DEF StrictSubsetOrdering
  <2>3. QED BY <2>2, <1>2, <1>3
<1>5. QED BY <1>4

\* Induction.
LEMMA AllNumbers ==
  ASSUME NEW S, 0 \in S, \A n \in Nat : n \in S => n + 1 \in S
  PROVE  Nat \subseteq S
<1> DEFINE T == Nat \ S
<1> SUFFICES ASSUME T # {} PROVE FALSE
  OBVIOUS
<1>1. PICK m \in T : \A n \in T : m <= n
  BY LeastNumber
<1>2. m # 0 /\ m - 1 \in Nat /\ m - 1 \notin T
  BY <1>1
<1>3. QED BY <1>1, <1>2

\* Induction over the subsets of a finite set.
LEMMA AllSubsets ==
  ASSUME NEW S, IsFiniteSet(S), NEW R, {} \in R,
         \A s \in SUBSET S : s # {} /\ (\A x \in s : s \ {x} \in R) => s \in R
  PROVE  SUBSET S \subseteq R
<1> DEFINE T == {n \in Nat : \A s \in SUBSET S : Cardinality(s) = n => s \in R}
<1>1. \A s \in SUBSET S : IsFiniteSet(s) /\ Cardinality(s) \in Nat
  BY FS_Subset, FS_CardinalityType
<1>2. 0 \in T
  BY <1>1, FS_EmptySet
<1>3. ASSUME NEW n \in Nat, n \in T PROVE n + 1 \in T
  <2> SUFFICES ASSUME NEW s \in SUBSET S, Cardinality(s) = n + 1 PROVE s \in R
    OBVIOUS
  <2>1. Cardinality({}) = 0 /\ n + 1 # 0
    BY FS_EmptySet
  <2>2. ASSUME NEW x \in s PROVE s \ {x} \in R
    <3>1. Cardinality(s \ {x}) = Cardinality(s) - 1
      BY <1>1, FS_RemoveElement
    <3>2. PICK rest : rest = s \ {x}
      OBVIOUS
    <3>3. rest \in SUBSET S /\ Cardinality(rest) = n
      BY <3>1, <3>2
    <3>4. QED BY <1>3, <3>2, <3>3
  <2>3. QED BY <2>1, <2>2
<1>4. Nat \subseteq T
  <2> HIDE DEF T
  <2>1. QED BY <1>2, <1>3, AllNumbers
<1>5. QED BY <1>1, <1>4

-----------------------------------------------------------------------------
(* Recursion over the subsets of a finite set, an element at a time.       *)

\* What a fold looks its result up in: take says which element is next.
Iterates(it, base, value, take, S) ==
  it = [s \in SUBSET S |->
          IF s = {} THEN base ELSE Op(it[s \ {take[s]}], value[take[s]])]

Takes(take, S) == \A s \in SUBSET S : s # {} => take[s] \in s

LEMMA Smaller ==
  ASSUME NEW S, IsFiniteSet(S), NEW s \in SUBSET S, NEW x \in s
  PROVE  Cardinality(s) \in Nat /\ Cardinality(s \ {x}) = Cardinality(s) - 1 /\ Cardinality(s) # 0
<1>1. IsFiniteSet(s)
  BY FS_Subset
<1>2. QED BY <1>1, FS_RemoveElement, FS_CardinalityType, FS_EmptySet

\* The recursion ends.
LEMMA IterationExists ==
  ASSUME NEW base, NEW value, NEW take, NEW S, IsFiniteSet(S), Takes(take, S)
  PROVE  \E it : Iterates(it, base, value, take, S)
<1> DEFINE Next(it, s) == IF s = {} THEN base ELSE Op(it[s \ {take[s]}], value[take[s]])
           Upto(it, n) == \A s \in SUBSET S : Cardinality(s) <= n => it[s] = Next(it, s)
           T == {n \in Nat : \E it : Upto(it, n)}
<1>1. \A s \in SUBSET S : s # {} =>
        /\ take[s] \in s /\ s \ {take[s]} \in SUBSET S
        /\ Cardinality(s) \in Nat /\ Cardinality(s \ {take[s]}) = Cardinality(s) - 1
        /\ Cardinality(s) # 0
  BY Smaller DEF Takes
<1>2. 0 \in T
  <2>1. PICK it : it = [s \in SUBSET S |-> base]
    OBVIOUS
  <2>2. ASSUME NEW s \in SUBSET S, Cardinality(s) <= 0 PROVE it[s] = Next(it, s)
    <3>1. s # {} => Cardinality(s) \in Nat /\ Cardinality(s) # 0
      BY <1>1
    <3>2. s = {}
      BY <2>2, <3>1
    <3>3. QED BY <2>1, <3>2
  <2>3. Upto(it, 0)
    BY <2>2
  <2> HIDE DEF Upto
  <2>4. QED BY <2>3
<1>3. ASSUME NEW n \in Nat, n \in T PROVE n + 1 \in T
  <2>1. PICK it : Upto(it, n)
    BY <1>3
  <2> DEFINE longer == [s \in SUBSET S |-> IF Cardinality(s) <= n THEN it[s] ELSE Next(it, s)]
  <2>2. ASSUME NEW s \in SUBSET S, Cardinality(s) <= n + 1 PROVE longer[s] = Next(longer, s)
    <3>1. CASE s = {}
      BY <2>1, <3>1
    <3>2. CASE s # {}
      <4>1. longer[s \ {take[s]}] = it[s \ {take[s]}]
        BY <1>1, <2>2, <3>2
      <4>2. longer[s] = Next(it, s)
        BY <2>1
      <4>3. QED BY <3>2, <4>1, <4>2
    <3>3. QED BY <3>1, <3>2
  <2>3. Upto(longer, n + 1)
    BY <2>2
  <2> HIDE DEF longer, Upto
  <2>4. QED BY <2>3
<1>4. Nat \subseteq T
  <2> HIDE DEF T
  <2>1. QED BY <1>2, <1>3, AllNumbers
<1>5. PICK it : Upto(it, Cardinality(S))
  BY <1>4, FS_CardinalityType
<1>6. ASSUME NEW s \in SUBSET S PROVE it[s] = Next(it, s)
  <2>1. Cardinality(s) <= Cardinality(S)
    BY FS_Subset
  <2>2. QED BY <1>5, <2>1
<1>7. Iterates([s \in SUBSET S |-> it[s]], base, value, take, S)
  BY <1>1, <1>6 DEF Iterates
<1>8. QED BY <1>7

-----------------------------------------------------------------------------
(* Folds over sets, in an order that is not known.                         *)

FoldedSet(base, S) == FoldSet(LAMBDA x, acc : Op(acc, x), base, S)
FoldedOver(base, f, S) == FoldFunctionOnSet(LAMBDA x, acc : Op(acc, x), base, f, S)

\* it has the results of the fold along the subsets of S.
AlongSubsets(it, base, f, S) ==
  it[{}] = base /\ \A s \in SUBSET S : s # {} => \E x \in s : it[s] = Op(it[s \ {x}], f[x])

THEOREM FoldedOverSubsets ==
  ASSUME NEW base, NEW f, NEW S, IsFiniteSet(S)
  PROVE  \E it : AlongSubsets(it, base, f, S) /\ FoldedOver(base, f, S) = it[S]
<1> DEFINE take == [s \in SUBSET S |-> CHOOSE x \in s : TRUE]
           is(it) == it = [s \in SUBSET S |->
             IF s = {} THEN base
             ELSE Op(it[s \ {CHOOSE x \in s : TRUE}], f[CHOOSE x \in s : TRUE])]
<1>1. Takes(take, S)
  BY DEF Takes
<1>2. \A it : is(it) <=> Iterates(it, base, f, take, S)
  BY DEF Iterates
<1>3. FoldedOver(base, f, S) = (CHOOSE it : is(it))[S]
  BY DEF FoldedOver, FoldFunctionOnSet, MapThenFoldSet
<1> HIDE DEF take, is
<1>4. PICK it : it = CHOOSE jt : is(jt)
  OBVIOUS
<1>5. Iterates(it, base, f, take, S)
  BY <1>1, <1>2, <1>4, IterationExists
<1>6. AlongSubsets(it, base, f, S)
  BY <1>1, <1>5 DEF AlongSubsets, Iterates, Takes
<1>7. QED BY <1>3, <1>4, <1>6

Elements(S) == [x \in S |-> x]

THEOREM FoldedSetSubsets ==
  ASSUME NEW base, NEW S, IsFiniteSet(S)
  PROVE  \E it : AlongSubsets(it, base, Elements(S), S) /\ FoldedSet(base, S) = it[S]
<1> DEFINE take == [s \in SUBSET S |-> CHOOSE x \in s : TRUE]
           f == [x \in S |-> x]
           is(it) == it = [s \in SUBSET S |->
             IF s = {} THEN base ELSE Op(it[s \ {CHOOSE x \in s : TRUE}], CHOOSE x \in s : TRUE)]
<1>0. f = Elements(S)
  BY DEF Elements
<1>1. Takes(take, S)
  BY DEF Takes
<1>2. \A it : is(it) <=> Iterates(it, base, f, take, S)
  BY DEF Iterates
<1>3. FoldedSet(base, S) = (CHOOSE it : is(it))[S]
  BY DEF FoldedSet, FoldSet, MapThenFoldSet
<1> HIDE DEF take, is, f
<1>4. PICK it : it = CHOOSE jt : is(jt)
  OBVIOUS
<1>5. Iterates(it, base, f, take, S)
  BY <1>1, <1>2, <1>4, IterationExists
<1>6. AlongSubsets(it, base, f, S)
  BY <1>1, <1>5 DEF AlongSubsets, Iterates, Takes
<1>7. QED BY <1>0, <1>3, <1>4, <1>6

-----------------------------------------------------------------------------
(* Sums, whichever element is added next.                                  *)

Adds == \A a, x \in Nat : Op(a, x) = x + a

Counts(f, S) == IsFiniteSet(S) /\ \A k \in S : f[k] \in Nat

Total(f, S) == FoldedOver(0, f, S)

LEMMA CountsSubset ==
  ASSUME NEW f, NEW S, Counts(f, S), NEW s \in SUBSET S
  PROVE  Counts(f, s) /\ Cardinality(s) \in Nat
BY FS_Subset, FS_CardinalityType DEF Counts

Adding(it, f, S) ==
  /\ it[{}] = 0
  /\ \A s \in SUBSET S : it[s] \in Nat /\ \A x \in s : it[s] = f[x] + it[s \ {x}]

LEMMA AnyOrder ==
  ASSUME Adds, NEW f, NEW S, Counts(f, S), NEW it, AlongSubsets(it, 0, f, S)
  PROVE  Adding(it, f, S)
<1> DEFINE P(s) == it[s] \in Nat /\ \A x \in s : it[s \ {x}] \in Nat /\ it[s] = f[x] + it[s \ {x}]
           R == {s \in SUBSET S : P(s)}
<1>1. it[{}] = 0 /\ \A s \in SUBSET S : s # {} => \E x \in s : it[s] = Op(it[s \ {x}], f[x])
  BY DEF AlongSubsets
<1>2. {} \in R
  BY <1>1
<1>3. ASSUME NEW s \in SUBSET S, s # {}, \A x \in s : s \ {x} \in R PROVE s \in R
  <2>1. PICK c \in s : it[s] = Op(it[s \ {c}], f[c])
    BY <1>1, <1>3
  <2>2. \A x \in s : f[x] \in Nat /\ it[s \ {x}] \in Nat
    BY <1>3 DEF Counts
  <2>3. it[s] = f[c] + it[s \ {c}]
    BY <2>1, <2>2 DEF Adds
  <2>4. ASSUME NEW x \in s, x # c PROVE it[s] = f[x] + it[s \ {x}]
    <3>1. PICK rest : rest = (s \ {c}) \ {x}
      OBVIOUS
    <3>2. x \in s \ {c} /\ c \in s \ {x} /\ rest = (s \ {x}) \ {c}
      BY <2>4, <3>1
    <3>3. it[rest] \in Nat /\ it[s \ {c}] = f[x] + it[rest]
      BY <1>3, <3>1, <3>2
    <3>4. it[s \ {x}] = f[c] + it[rest]
      BY <1>3, <3>2
    <3>5. f[x] \in Nat /\ f[c] \in Nat
      BY <2>2
    <3>6. QED BY <2>3, <3>3, <3>4, <3>5
  <2>5. it[s] \in Nat
    <3>1. f[c] \in Nat /\ it[s \ {c}] \in Nat
      BY <2>2
    <3>2. QED BY <2>3, <3>1
  <2>6. QED BY <2>2, <2>3, <2>4, <2>5
<1>4. SUBSET S \subseteq R
  <2>1. IsFiniteSet(S)
    BY DEF Counts
  <2>2. \A s \in SUBSET S : s # {} /\ (\A x \in s : s \ {x} \in R) => s \in R
    BY <1>3
  <2> HIDE DEF R
  <2>3. QED BY <1>2, <2>1, <2>2, AllSubsets
<1>5. QED BY <1>1, <1>4 DEF Adding

LEMMA SameTotal ==
  ASSUME Adds, NEW f, NEW S, Counts(f, S), NEW it, AlongSubsets(it, 0, f, S),
         NEW g, NEW U, Counts(g, U), NEW jt, AlongSubsets(jt, 0, g, U),
         S \subseteq U, \A k \in S : f[k] = g[k]
  PROVE  it[S] = jt[S]
<1> DEFINE R == {s \in SUBSET S : it[s] = jt[s]}
<1>1. it[{}] = 0 /\ \A s \in SUBSET S : \A x \in s : it[s] = f[x] + it[s \ {x}]
  BY AnyOrder DEF Adding
<1>2. jt[{}] = 0 /\ \A s \in SUBSET U : \A x \in s : jt[s] = g[x] + jt[s \ {x}]
  BY AnyOrder DEF Adding
<1>3. {} \in R
  BY <1>1, <1>2
<1>4. \A s \in SUBSET S : s # {} /\ (\A x \in s : s \ {x} \in R) => s \in R
  BY <1>1, <1>2
<1>5. IsFiniteSet(S)
  BY DEF Counts
<1>6. SUBSET S \subseteq R
  <2> HIDE DEF R
  <2>1. QED BY <1>3, <1>4, <1>5, AllSubsets
<1>7. QED BY <1>6

LEMMA TotalSame ==
  ASSUME Adds, NEW f, NEW S, Counts(f, S), NEW g, \A k \in S : f[k] = g[k]
  PROVE  Total(f, S) = Total(g, S)
<1>1. Counts(g, S) /\ IsFiniteSet(S)
  BY DEF Counts
<1>2. PICK it : AlongSubsets(it, 0, f, S) /\ Total(f, S) = it[S]
  BY <1>1, FoldedOverSubsets DEF Total
<1>3. PICK jt : AlongSubsets(jt, 0, g, S) /\ Total(g, S) = jt[S]
  BY <1>1, FoldedOverSubsets DEF Total
<1>4. QED BY <1>1, <1>2, <1>3, SameTotal

LEMMA TotalEmpty ==
  ASSUME NEW f
  PROVE  Total(f, {}) = 0
<1>1. IsFiniteSet({})
  BY FS_EmptySet
<1>2. QED BY <1>1, FoldedOverSubsets DEF Total, AlongSubsets

LEMMA TotalElement ==
  ASSUME Adds, NEW f, NEW S, Counts(f, S)
  PROVE  Total(f, S) \in Nat /\ \A x \in S : Total(f, S) = f[x] + Total(f, S \ {x})
<1>1. IsFiniteSet(S)
  BY DEF Counts
<1>2. PICK it : AlongSubsets(it, 0, f, S) /\ Total(f, S) = it[S]
  BY <1>1, FoldedOverSubsets DEF Total
<1>3. it[S] \in Nat /\ \A x \in S : it[S] = f[x] + it[S \ {x}]
  BY <1>2, AnyOrder DEF Adding
<1>4. ASSUME NEW x \in S PROVE Total(f, S \ {x}) = it[S \ {x}]
  <2>1. PICK rest : rest = S \ {x}
    OBVIOUS
  <2>2. rest \in SUBSET S /\ Counts(f, rest) /\ IsFiniteSet(rest)
    BY <2>1, CountsSubset DEF Counts
  <2>3. PICK jt : AlongSubsets(jt, 0, f, rest) /\ Total(f, rest) = jt[rest]
    BY <2>2, FoldedOverSubsets DEF Total
  <2>4. jt[rest] = it[rest]
    BY <1>2, <2>2, <2>3, SameTotal
  <2>5. QED BY <2>1, <2>3, <2>4
<1>5. QED BY <1>2, <1>3, <1>4

LEMMA TotalOfTwo ==
  ASSUME Adds, NEW f, NEW A, NEW B, Counts(f, A \cup B), A \cap B = {}
  PROVE  Total(f, A \cup B) = Total(f, A) + Total(f, B)
<1> DEFINE R == {s \in SUBSET B : Total(f, A \cup s) = Total(f, A) + Total(f, s)}
<1>1. \A s \in SUBSET (A \cup B) : Counts(f, s) /\ IsFiniteSet(s)
  BY CountsSubset DEF Counts
<1>2. \A s \in SUBSET (A \cup B) :
        Total(f, s) \in Nat /\ \A x \in s : f[x] \in Nat /\ Total(f, s) = f[x] + Total(f, s \ {x})
  BY <1>1, TotalElement DEF Counts
<1>3. {} \in R
  <2>1. Total(f, A) \in Nat
    BY <1>2
  <2>2. A \cup {} = A
    OBVIOUS
  <2>3. QED BY <2>1, <2>2, TotalEmpty
<1>4. ASSUME NEW s \in SUBSET B, s # {}, \A x \in s : s \ {x} \in R PROVE s \in R
  <2>1. PICK x \in s : TRUE
    BY <1>4
  <2>2. PICK rest, more : rest = s \ {x} /\ more = A \cup s
    OBVIOUS
  <2>3. /\ rest \in SUBSET (A \cup B) /\ more \in SUBSET (A \cup B) /\ s \in SUBSET (A \cup B)
        /\ x \in more /\ more \ {x} = A \cup rest /\ A \cup rest \in SUBSET (A \cup B)
        /\ A \in SUBSET (A \cup B)
    BY <2>1, <2>2
  <2>4. Total(f, A \cup rest) = Total(f, A) + Total(f, rest)
    BY <1>4, <2>1, <2>2
  <2>5. Total(f, more) = f[x] + Total(f, A \cup rest) /\ Total(f, s) = f[x] + Total(f, rest)
    BY <1>2, <2>1, <2>2, <2>3
  <2>6. f[x] \in Nat /\ Total(f, A) \in Nat /\ Total(f, rest) \in Nat
    BY <1>2, <2>3
  <2>7. Total(f, more) = Total(f, A) + Total(f, s)
    BY <2>4, <2>5, <2>6
  <2>8. QED BY <2>2, <2>7
<1>5. IsFiniteSet(B)
  BY <1>1
<1>6. SUBSET B \subseteq R
  <2>1. \A s \in SUBSET B : s # {} /\ (\A x \in s : s \ {x} \in R) => s \in R
    BY <1>4
  <2> HIDE DEF R
  <2>2. QED BY <1>3, <1>5, <2>1, AllSubsets
<1>7. QED BY <1>6

\* f's sum over a set is the sum of its sums over the parts of the set.
Parts(part, T, S) ==
  /\ \A n \in T : part[n] \in SUBSET S
  /\ \A m, n \in T : m # n => part[m] \cap part[n] = {}

Joined(part, T) == UNION {part[n] : n \in T}

THEOREM TotalOfParts ==
  ASSUME Adds, NEW f, NEW S, Counts(f, S), NEW T, IsFiniteSet(T), NEW part, Parts(part, T, S),
         NEW g, \A n \in T : g[n] = Total(f, part[n])
  PROVE  Counts(g, T) /\ Total(g, T) = Total(f, Joined(part, T))
<1> DEFINE R == {t \in SUBSET T : Total(g, t) = Total(f, Joined(part, t))}
<1>1. \A s \in SUBSET S : Total(f, s) \in Nat
  BY CountsSubset, TotalElement
<1>2. Counts(g, T)
  BY <1>1 DEF Counts, Parts
<1>3. {} \in R
  <2>1. Joined(part, {}) = {}
    BY DEF Joined
  <2>2. QED BY <2>1, TotalEmpty
<1>4. ASSUME NEW t \in SUBSET T, t # {}, \A n \in t : t \ {n} \in R PROVE t \in R
  <2>1. PICK n \in t : TRUE
    BY <1>4
  <2>2. PICK rest, A : rest = t \ {n} /\ A = Joined(part, rest)
    OBVIOUS
  <2>3. Total(g, rest) = Total(f, A)
    BY <1>4, <2>2
  <2>4. Joined(part, t) = A \cup part[n]
    BY <2>2 DEF Joined
  <2>5. A \cap part[n] = {}
    BY <2>2 DEF Joined, Parts
  <2>6. A \cup part[n] \in SUBSET S /\ A \in SUBSET S /\ part[n] \in SUBSET S
    BY <2>2 DEF Joined, Parts
  <2>7. Total(f, A \cup part[n]) = Total(f, A) + Total(f, part[n])
    <3>1. Counts(f, A \cup part[n])
      BY <2>6, CountsSubset
    <3>2. QED BY <3>1, <2>5, TotalOfTwo
  <2>8. Total(g, t) = g[n] + Total(g, rest)
    <3>1. Counts(g, t)
      BY <1>2, CountsSubset
    <3>2. QED BY <3>1, <2>2, TotalElement
  <2>9. Total(f, A) \in Nat /\ Total(f, part[n]) \in Nat
    BY <1>1, <2>6
  <2>10. g[n] = Total(f, part[n])
    OBVIOUS
  <2>11. PICK a, b : a = Total(f, A) /\ b = Total(f, part[n])
    OBVIOUS
  <2>12. Total(g, t) = b + a /\ Total(f, Joined(part, t)) = a + b /\ a \in Nat /\ b \in Nat
    BY <2>3, <2>4, <2>7, <2>8, <2>9, <2>10, <2>11
  <2>13. Total(g, t) = Total(f, Joined(part, t))
    BY <2>12
  <2>14. QED BY <2>13
<1>5. SUBSET T \subseteq R
  <2>1. \A t \in SUBSET T : t # {} /\ (\A x \in t : t \ {x} \in R) => t \in R
    BY <1>4
  <2> HIDE DEF R
  <2>2. QED BY <1>3, <2>1, AllSubsets
<1>6. QED BY <1>2, <1>5

LEMMA TotalOfOnes ==
  ASSUME Adds, NEW f, NEW S, Counts(f, S), \A k \in S : f[k] >= 1
  PROVE  Cardinality(S) <= Total(f, S) /\ ((\A k \in S : f[k] = 1) => Cardinality(S) = Total(f, S))
<1> DEFINE R == {s \in SUBSET S : /\ Cardinality(s) <= Total(f, s)
                                  /\ (\A k \in S : f[k] = 1) => Cardinality(s) = Total(f, s)}
<1>1. {} \in R
  BY TotalEmpty, FS_EmptySet
<1>2. ASSUME NEW s \in SUBSET S, s # {}, \A x \in s : s \ {x} \in R PROVE s \in R
  <2>1. PICK x \in s : TRUE
    BY <1>2
  <2>2. PICK rest : rest = s \ {x}
    OBVIOUS
  <2>3. Counts(f, s) /\ IsFiniteSet(s) /\ Cardinality(s) \in Nat /\ f[x] \in Nat
    BY CountsSubset DEF Counts
  <2>4. rest \in SUBSET S /\ Counts(f, rest)
    BY <2>2, CountsSubset
  <2>5. Total(f, s) = f[x] + Total(f, rest) /\ Total(f, rest) \in Nat
    BY <2>2, <2>3, <2>4, TotalElement
  <2>6. Cardinality(rest) = Cardinality(s) - 1
    BY <2>1, <2>2, <2>3, FS_RemoveElement
  <2>7. /\ Cardinality(rest) <= Total(f, rest)
        /\ (\A k \in S : f[k] = 1) => Cardinality(rest) = Total(f, rest)
    BY <1>2, <2>2
  <2>8. f[x] >= 1
    OBVIOUS
  <2>9. QED BY <2>3, <2>5, <2>6, <2>7, <2>8
<1>3. IsFiniteSet(S)
  BY DEF Counts
<1>4. SUBSET S \subseteq R
  <2>1. \A s \in SUBSET S : s # {} /\ (\A x \in s : s \ {x} \in R) => s \in R
    BY <1>2
  <2> HIDE DEF R
  <2>2. QED BY <1>1, <1>3, <2>1, AllSubsets
<1>5. QED BY <1>4

\* One more at x, whether x was there or not.
LEMMA TotalRaised ==
  ASSUME Adds, NEW f, NEW S, Counts(f, S), NEW x, NEW g, \A k \in S \ {x} : g[k] = f[k],
         g[x] = IF x \in S THEN f[x] + 1 ELSE 1
  PROVE  Counts(g, S \cup {x}) /\ Total(g, S \cup {x}) = Total(f, S) + 1
<1>1. PICK rest, more : rest = S \ {x} /\ more = S \cup {x}
  OBVIOUS
<1>2. Counts(f, rest) /\ Total(f, rest) \in Nat
  BY <1>1, CountsSubset, TotalElement
<1>3. Total(f, rest) = Total(g, rest)
  BY <1>1, <1>2, TotalSame
<1>4. Counts(g, more)
  <2>1. IsFiniteSet(more)
    BY <1>1, FS_AddElement DEF Counts
  <2>2. \A k \in more : g[k] \in Nat
    BY <1>1 DEF Counts
  <2>3. QED BY <2>1, <2>2 DEF Counts
<1>5. Total(g, more) = g[x] + Total(g, rest)
  <2>1. x \in more /\ more \ {x} = rest
    BY <1>1
  <2>2. QED BY <1>4, <2>1, TotalElement
<1>6. Total(f, S) = IF x \in S THEN f[x] + Total(f, rest) ELSE Total(f, rest)
  <2>1. x \notin S => rest = S
    BY <1>1
  <2>2. \A y \in S : Total(f, S) = f[y] + Total(f, S \ {y})
    BY TotalElement
  <2>3. x \in S => Total(f, S) = f[x] + Total(f, rest)
    BY <1>1, <2>2
  <2>4. QED BY <2>1, <2>3
<1>7. x \in S => f[x] \in Nat
  BY DEF Counts
<1>8. QED BY <1>1, <1>2, <1>3, <1>4, <1>5, <1>6, <1>7

-----------------------------------------------------------------------------
(* A finite set of integers in ascending order.                            *)

Ascends(seq, S) ==
  /\ seq \in [1 .. Cardinality(S) -> S]
  /\ \A m, n \in DOMAIN seq : m < n => seq[m] < seq[n]

LEMMA Greatest ==
  ASSUME NEW S, IsFiniteSet(S), S \subseteq Int, S # {}
  PROVE  \E m \in S : \A y \in S : y <= m
<1> DEFINE R == {s \in SUBSET S : s # {} => \E m \in s : \A y \in s : y <= m}
<1>1. {} \in R
  OBVIOUS
<1>2. ASSUME NEW s \in SUBSET S, s # {}, \A x \in s : s \ {x} \in R PROVE s \in R
  <2>1. PICK x \in s : TRUE
    BY <1>2
  <2>2. CASE s \ {x} = {}
    BY <2>2
  <2>3. CASE s \ {x} # {}
    <3>1. PICK m \in s \ {x} : \A y \in s \ {x} : y <= m
      BY <1>2, <2>1, <2>3
    <3>2. m \in Int /\ x \in Int
      OBVIOUS
    <3>3. CASE x <= m
      BY <3>1, <3>3
    <3>4. CASE m < x
      <4>1. \A y \in s : y <= x
        BY <3>1, <3>2, <3>4
      <4>2. QED BY <4>1
    <3>5. QED BY <3>2, <3>3, <3>4
  <2>4. QED BY <2>2, <2>3
<1>3. SUBSET S \subseteq R
  <2>1. \A s \in SUBSET S : s # {} /\ (\A x \in s : s \ {x} \in R) => s \in R
    BY <1>2
  <2> HIDE DEF R
  <2>2. QED BY <1>1, <2>1, AllSubsets
<1>4. QED BY <1>3

THEOREM AscendingExists ==
  ASSUME NEW S, IsFiniteSet(S), S \subseteq Int
  PROVE  \E seq : Ascends(seq, S)
<1> DEFINE R == {s \in SUBSET S : \E seq : Ascends(seq, s)}
<1>1. {} \in R
  <2>1. PICK seq : seq = [n \in 1 .. 0 |-> 0]
    OBVIOUS
  <2>2. Cardinality({}) = 0 /\ 1 .. 0 = {}
    BY FS_EmptySet
  <2>3. Ascends(seq, {})
    BY <2>1, <2>2 DEF Ascends
  <2>4. QED BY <2>3
<1>2. ASSUME NEW s \in SUBSET S, s # {}, \A x \in s : s \ {x} \in R PROVE s \in R
  <2>1. IsFiniteSet(s)
    BY FS_Subset
  <2>2. PICK m \in s : \A y \in s : y <= m
    BY <1>2, <2>1, Greatest
  <2>3. PICK n : n = Cardinality(s \ {m})
    OBVIOUS
  <2>4. Cardinality(s) = n + 1 /\ n \in Nat
    <3>1. Cardinality(s \ {m}) = Cardinality(s) - 1 /\ Cardinality(s) \in Nat
      BY <2>1, FS_RemoveElement, FS_CardinalityType
    <3>2. Cardinality(s \ {m}) \in Nat
      BY <2>1, FS_RemoveElement, FS_CardinalityType
    <3>3. QED BY <2>3, <3>1, <3>2
  <2>5. PICK seq : Ascends(seq, s \ {m})
    BY <1>2
  <2>6. seq \in [1 .. n -> s \ {m}] /\ \A i, j \in 1 .. n : i < j => seq[i] < seq[j]
    BY <2>3, <2>5 DEF Ascends
  <2>7. \A i \in 1 .. n : seq[i] < m
    <3>1. \A y \in s \ {m} : y < m
      BY <2>2
    <3>2. \A i \in 1 .. n : seq[i] \in s \ {m}
      BY <2>6
    <3>3. QED BY <3>1, <3>2
  <2>8. PICK more : more = [i \in 1 .. n + 1 |-> IF i = n + 1 THEN m ELSE seq[i]]
    OBVIOUS
  <2>9. more \in [1 .. n + 1 -> s]
    <3>1. \A i \in 1 .. n + 1 : i # n + 1 => i \in 1 .. n
      BY <2>4
    <3>2. QED BY <2>6, <2>8, <3>1
  <2>10. ASSUME NEW i \in 1 .. n + 1, NEW j \in 1 .. n + 1, i < j PROVE more[i] < more[j]
    <3>1. i \in 1 .. n /\ (j = n + 1 \/ j \in 1 .. n)
      BY <2>4, <2>10
    <3>2. more[i] = seq[i] /\ more[j] = IF j = n + 1 THEN m ELSE seq[j]
      BY <2>4, <2>8, <3>1
    <3>3. QED BY <2>6, <2>7, <2>10, <3>1, <3>2
  <2>11. Ascends(more, s)
    BY <2>4, <2>9, <2>10 DEF Ascends
  <2>12. QED BY <2>11
<1>3. SUBSET S \subseteq R
  <2>1. \A s \in SUBSET S : s # {} /\ (\A x \in s : s \ {x} \in R) => s \in R
    BY <1>2
  <2> HIDE DEF R
  <2>2. QED BY <1>1, <2>1, AllSubsets
<1>4. QED BY <1>3

\* It has each of them once.
LEMMA AscendingHasAll ==
  ASSUME NEW S, IsFiniteSet(S), S \subseteq Int, NEW seq, Ascends(seq, S)
  PROVE  /\ \A m, n \in 1 .. Cardinality(S) : m # n => seq[m] # seq[n]
         /\ \A x \in S : \E n \in 1 .. Cardinality(S) : seq[n] = x
<1>1. PICK c \in Nat : c = Cardinality(S)
  BY FS_CardinalityType
<1>2. seq \in [1 .. c -> S] /\ \A m, n \in 1 .. c : m < n => seq[m] < seq[n]
  BY <1>1 DEF Ascends
<1>3. ASSUME NEW m \in 1 .. c, NEW n \in 1 .. c, m # n PROVE seq[m] # seq[n]
  <2>1. seq[m] \in Int /\ seq[n] \in Int
    BY <1>2
  <2>2. m < n \/ n < m
    BY <1>3
  <2>3. QED BY <1>2, <2>1, <2>2
<1>4. seq \in Injection(1 .. c, S)
  BY <1>2, <1>3 DEF Injection, IsInjective
<1>5. Cardinality(1 .. c) = c
  BY <1>1, FS_Interval
<1>6. seq \in Surjection(1 .. c, S)
  BY <1>1, <1>4, <1>5, FS_Injection
<1>7. \A x \in S : \E n \in 1 .. c : seq[n] = x
  BY <1>6 DEF Surjection
<1>8. QED BY <1>1, <1>3, <1>7

-----------------------------------------------------------------------------
(* FoldLeft.                                                               *)

Folded(base, seq) == FoldLeft(Op, base, seq)

LEMMA MaxIsLast ==
  ASSUME NEW n \in Nat, NEW s \in SUBSET (1 .. n), s # {}
  PROVE  Max(s) \in s /\ \A y \in s : Max(s) >= y
<1> DEFINE T == {n - x : x \in s}
<1>1. T \subseteq Nat /\ T # {}
  <2>1. \A x \in s : n - x \in Nat
    OBVIOUS
  <2>2. QED BY <2>1
<1>2. PICK m \in T : \A y \in T : m <= y
  <2> HIDE DEF T
  <2>1. QED BY <1>1, LeastNumber
<1>3. PICK x \in s : m = n - x
  OBVIOUS
<1>4. ASSUME NEW y \in s PROVE x >= y
  <2>1. n - y \in T /\ x \in Nat /\ y \in Nat
    OBVIOUS
  <2>2. m <= n - y
    BY <1>2, <2>1
  <2>3. QED BY <1>3, <2>1, <2>2
<1>5. QED BY <1>4 DEF Max

\* The result is reached along the prefixes of the sequence.
AlongPrefixes(it, base, seq, n) ==
  /\ Folded(base, seq) = it[1 .. n] /\ it[1 .. 0] = base
  /\ \A k \in 0 .. n - 1 : it[1 .. k + 1] = Op(it[1 .. k], seq[k + 1])

LEMMA FoldedAlongPrefixes ==
  ASSUME NEW base, NEW seq, NEW n \in Nat, DOMAIN seq = 1 .. n
  PROVE  \E it : AlongPrefixes(it, base, seq, n)
<1> DEFINE S == DOMAIN seq
           take == [s \in SUBSET S |-> Max(s)]
           is(it) == it = [s \in SUBSET S |->
             IF s = {} THEN base ELSE Op(it[s \ {Max(s)}], seq[Max(s)])]
<1>1. Takes(take, S) /\ IsFiniteSet(S)
  <2>1. \A s \in SUBSET (1 .. n) : s # {} => Max(s) \in s
    BY MaxIsLast
  <2>2. \A s \in SUBSET S : take[s] = Max(s)
    OBVIOUS
  <2>3. IsFiniteSet(1 .. n)
    BY FS_Interval
  <2> HIDE DEF take
  <2>4. QED BY <2>1, <2>2, <2>3 DEF Takes
<1>2. \A it : is(it) <=> Iterates(it, base, seq, take, S)
  BY DEF Iterates
<1>3. Folded(base, seq) = (CHOOSE it : is(it))[S]
  BY DEF Folded, FoldLeft, MapThenFoldSet
<1>4. \A s \in SUBSET S : take[s] = Max(s)
  OBVIOUS
<1> HIDE DEF take, is
<1>5. PICK it : it = CHOOSE jt : is(jt)
  OBVIOUS
<1>6. Iterates(it, base, seq, take, S)
  BY <1>1, <1>2, <1>5, IterationExists
<1>7. \A s \in SUBSET S : it[s] = IF s = {} THEN base ELSE Op(it[s \ {Max(s)}], seq[Max(s)])
  BY <1>4, <1>6 DEF Iterates
<1>8. it[1 .. 0] = base
  <2>1. 1 .. 0 = {}
    OBVIOUS
  <2>2. QED BY <1>7, <2>1
<1>9. ASSUME NEW k \in 0 .. n - 1 PROVE it[1 .. k + 1] = Op(it[1 .. k], seq[k + 1])
  <2> DEFINE upTo == 1 .. k + 1
  <2>1. /\ upTo \in SUBSET (1 .. n) /\ upTo # {} /\ upTo \ {k + 1} = 1 .. k
        /\ k + 1 \in upTo /\ \A y \in upTo : y \in Nat /\ y <= k + 1
    OBVIOUS
  <2> HIDE DEF upTo
  <2>2. Max(upTo) = k + 1
    <3>1. Max(upTo) \in upTo /\ \A y \in upTo : Max(upTo) >= y
      BY <2>1, MaxIsLast
    <3>2. QED BY <2>1, <3>1
  <2>3. it[upTo] = Op(it[upTo \ {Max(upTo)}], seq[Max(upTo)])
    BY <1>7, <2>1
  <2>4. QED BY <2>1, <2>2, <2>3 DEF upTo
<1>10. QED BY <1>3, <1>5, <1>8, <1>9 DEF AlongPrefixes

\* A fold takes the values that its operator leads through.
THEOREM FoldedIs ==
  ASSUME NEW base, NEW seq, NEW n \in Nat, DOMAIN seq = 1 .. n,
         NEW h, h[0] = base, \A i \in 1 .. n : h[i] = Op(h[i - 1], seq[i])
  PROVE  Folded(base, seq) = h[n]
<1>0. PICK it : AlongPrefixes(it, base, seq, n)
  BY FoldedAlongPrefixes
<1>1. /\ Folded(base, seq) = it[1 .. n] /\ it[1 .. 0] = base
      /\ \A k \in 0 .. n - 1 : it[1 .. k + 1] = Op(it[1 .. k], seq[k + 1])
  BY <1>0 DEF AlongPrefixes
<1> DEFINE S == {k \in Nat : k <= n => it[1 .. k] = h[k]}
<1>2. 0 \in S
  BY <1>1
<1>3. ASSUME NEW k \in Nat, k \in S PROVE k + 1 \in S
  <2>1. k + 1 <= n => k \in 0 .. n - 1 /\ k + 1 \in 1 .. n /\ h[k + 1] = Op(h[k], seq[k + 1])
    OBVIOUS
  <2>2. k + 1 <= n => it[1 .. k + 1] = Op(it[1 .. k], seq[k + 1])
    BY <1>1, <2>1
  <2>3. QED BY <1>3, <2>1, <2>2
<1>4. Nat \subseteq S
  <2> HIDE DEF S
  <2>1. QED BY <1>2, <1>3, AllNumbers
<1>5. QED BY <1>1, <1>4

\* A fold of one element more.
THEOREM FoldedNext ==
  ASSUME NEW base, NEW n \in Nat, NEW seq, DOMAIN seq = 1 .. n,
         NEW longer, DOMAIN longer = 1 .. n + 1, \A i \in 1 .. n : longer[i] = seq[i]
  PROVE  Folded(base, longer) = Op(Folded(base, seq), longer[n + 1])
<1>0. PICK it : AlongPrefixes(it, base, longer, n + 1)
  BY FoldedAlongPrefixes, n + 1 \in Nat
<1>1. /\ Folded(base, longer) = it[1 .. n + 1] /\ it[1 .. 0] = base
      /\ \A k \in 0 .. n : it[1 .. k + 1] = Op(it[1 .. k], longer[k + 1])
  BY <1>0 DEF AlongPrefixes
<1> DEFINE h == [k \in 0 .. n |-> it[1 .. k]]
<1>2. h[0] = base /\ \A i \in 1 .. n : h[i] = Op(h[i - 1], seq[i])
  <2> SUFFICES ASSUME NEW i \in 1 .. n PROVE h[i] = Op(h[i - 1], seq[i])
    BY <1>1
  <2>1. PICK k \in 0 .. n - 1 : i = k + 1
    OBVIOUS
  <2>2. it[1 .. k + 1] = Op(it[1 .. k], longer[k + 1]) /\ longer[k + 1] = seq[k + 1]
    BY <1>1, <2>1
  <2>3. h[i] = it[1 .. k + 1] /\ h[i - 1] = it[1 .. k]
    BY <2>1
  <2>4. QED BY <2>1, <2>2, <2>3
<1>3. Folded(base, seq) = h[n]
  <2> HIDE DEF h
  <2>1. QED BY <1>2, FoldedIs
<1>4. QED BY <1>1, <1>3
=============================================================================
