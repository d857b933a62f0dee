---------------------------- MODULE SumTheorems ----------------------------
(***************************************************************************)
(* The sum of a function over a finite set, SumFunctionOnSet of the         *)
(* community module Functions: that the recursion it is defined by has a    *)
(* value, and what the invariants about credit need to know of it; and how  *)
(* many elements of a kind there are in a family of queues, as such a sum.  *)
(*                                                                         *)
(* The library's induction theorems take an operator.  The induction here   *)
(* is on sets of counterexamples instead: one that is not empty has an      *)
(* element minimal for inclusion.                                          *)
(***************************************************************************)
EXTENDS Sequences, FiniteSetsExt, FiniteSetTheorems, WellFoundedInduction, TLAPS

\* Among subsets of a finite set there is one that contains no other.
LEMMA SmallestSubset ==
  ASSUME NEW S, IsFiniteSet(S), NEW T \in SUBSET (SUBSET S), T # {}
  PROVE  \E x \in T : \A y \in T : y \subseteq x => y = x
<1>1. IsWellFoundedOn(StrictSubsetOrdering(S), SUBSET S)
  BY FS_StrictSubsetOrderingWellFounded, FS_FiniteSubsetsOfFinite
<1>2. PICK x \in T : \A y \in T : ~(<<y, x>> \in StrictSubsetOrdering(S))
  BY <1>1, WFMin
<1>. QED  BY <1>2 DEF StrictSubsetOrdering

(***************************************************************************)
(* The recursion.                                                          *)
(***************************************************************************)

Pick(s) == CHOOSE x \in s : TRUE

\* g is the function the fold computes on the subsets of S.
IsSum(g, f, S) ==
  g = [s \in SUBSET S |-> IF s = {} THEN 0 ELSE f[Pick(s)] + g[s \ {Pick(s)}]]

SumOn(f, S) == CHOOSE g : IsSum(g, f, S)

LEMMA SumIsFold ==
  ASSUME NEW f, NEW S
  PROVE  SumFunctionOnSet(f, S) = SumOn(f, S)[S]
  BY DEF SumFunctionOnSet, FoldFunctionOnSet, MapThenFoldSet, SumOn, IsSum, Pick

\* Two such functions agree where both are defined and f and e agree.
LEMMA SumsAgree ==
  ASSUME NEW f, NEW e, NEW S, NEW R, NEW g, NEW h, IsFiniteSet(S),
         IsSum(g, f, S), IsSum(h, e, R), \A x \in S : f[x] = e[x],
         NEW s \in SUBSET S, s \subseteq R
  PROVE  g[s] = h[s]
<1> DEFINE T == {x \in SUBSET S : x \subseteq R /\ g[x] # h[x]}
<1>1. SUFFICES ASSUME T # {} PROVE FALSE
  OBVIOUS
<1>2. PICK x \in T : \A y \in T : y \subseteq x => y = x
  <2>1. T \in SUBSET (SUBSET S)
    OBVIOUS
  <2>. HIDE DEF T
  <2>. QED  BY <1>1, <2>1, SmallestSubset
<1>3. /\ x = {} => g[x] = 0 /\ h[x] = 0
      /\ x # {} => /\ g[x] = f[Pick(x)] + g[x \ {Pick(x)}]
                   /\ h[x] = e[Pick(x)] + h[x \ {Pick(x)}]
  <2>1. x \in SUBSET S /\ x \in SUBSET R
    OBVIOUS
  <2>2. \A z \in SUBSET S : g[z] = IF z = {} THEN 0 ELSE f[Pick(z)] + g[z \ {Pick(z)}]
    BY DEF IsSum
  <2>3. \A z \in SUBSET R : h[z] = IF z = {} THEN 0 ELSE e[Pick(z)] + h[z \ {Pick(z)}]
    BY DEF IsSum
  <2>. QED  BY <2>1, <2>2, <2>3
<1>4. CASE x = {}
  BY <1>3, <1>4
<1>5. CASE x # {}
  <2>1. Pick(x) \in x
    BY <1>5 DEF Pick
  <2>2. x \ {Pick(x)} \notin T
    BY <1>2, <2>1
  <2>. QED  BY <1>3, <1>5, <2>1, <2>2
<1>. QED  BY <1>4, <1>5

\* The recursion has a value on every finite set.
LEMMA SumOnExists ==
  ASSUME NEW f, NEW S, IsFiniteSet(S)
  PROVE  IsSum(SumOn(f, S), f, S)
<1> DEFINE T == {x \in SUBSET S : ~IsSum(SumOn(f, x), f, x)}
<1>1. SUFFICES ASSUME T # {} PROVE FALSE
  OBVIOUS
<1>2. PICK x \in T : \A y \in T : y \subseteq x => y = x
  <2>1. T \in SUBSET (SUBSET S)
    OBVIOUS
  <2>. HIDE DEF T
  <2>. QED  BY <1>1, <2>1, SmallestSubset
<1>3. \A y \in SUBSET x : IsFiniteSet(y) /\ (y # x => IsSum(SumOn(f, y), f, y))
  BY <1>2, FS_Subset
<1> DEFINE rest(s) == s \ {Pick(s)}
           g == [s \in SUBSET x |-> IF s = {} THEN 0 ELSE f[Pick(s)] + SumOn(f, rest(s))[rest(s)]]
<1>4. ASSUME NEW s \in SUBSET x, s # {}
      PROVE  g[rest(s)] = SumOn(f, rest(s))[rest(s)]
  <2>1. Pick(s) \in s /\ rest(s) \in SUBSET x /\ rest(s) # x
    BY <1>4 DEF Pick
  <2>2. /\ IsFiniteSet(rest(s))
        /\ IsSum(SumOn(f, rest(s)), f, rest(s))
    BY <1>3, <2>1
  <2>3. CASE rest(s) = {}
    BY <2>1, <2>2, <2>3 DEF IsSum
  <2>4. CASE rest(s) # {}
    <3>1. Pick(rest(s)) \in rest(s) /\ rest(rest(s)) \in SUBSET x /\ rest(rest(s)) # x
      BY <2>1, <2>4 DEF Pick
    <3>2. /\ IsFiniteSet(rest(rest(s)))
          /\ IsSum(SumOn(f, rest(rest(s))), f, rest(rest(s)))
      BY <1>3, <3>1
    <3>3. rest(rest(s)) \in SUBSET rest(rest(s)) /\ rest(rest(s)) \subseteq rest(s)
      OBVIOUS
    <3> DEFINE a == SumOn(f, rest(s))
               b == SumOn(f, rest(rest(s)))
    <3>4. b[rest(rest(s))] = a[rest(rest(s))]
      <4>. HIDE DEF rest, a, b
      <4>1. IsSum(a, f, rest(s)) /\ IsSum(b, f, rest(rest(s)))
        BY <2>2, <3>2 DEF a, b
      <4>. QED  BY <3>2, <3>3, <4>1, SumsAgree
    <3>5. a[rest(s)] = f[Pick(rest(s))] + a[rest(rest(s))]
      BY <2>2, <2>4 DEF IsSum
    <3>6. g[rest(s)] = f[Pick(rest(s))] + b[rest(rest(s))]
      BY <2>1, <2>4
    <3>. QED  BY <3>4, <3>5, <3>6
  <2>. QED  BY <2>3, <2>4
<1>5. IsSum(g, f, x)
  <2>. SUFFICES g = [s \in SUBSET x |-> IF s = {} THEN 0 ELSE f[Pick(s)] + g[rest(s)]]
    BY DEF IsSum
  <2>. QED  BY <1>4
<1>6. IsSum(SumOn(f, x), f, x)
  <2>. HIDE DEF g
  <2>. QED  BY <1>5 DEF SumOn
<1>. QED  BY <1>2, <1>6

(***************************************************************************)
(* The sum.                                                                *)
(***************************************************************************)

LEMMA SumEmpty ==
  ASSUME NEW f
  PROVE  SumFunctionOnSet(f, {}) = 0
<1>1. IsSum(SumOn(f, {}), f, {})
  BY SumOnExists, FS_EmptySet
<1>. QED  BY <1>1, SumIsFold DEF IsSum

LEMMA SumPick ==
  ASSUME NEW f, NEW S, IsFiniteSet(S), S # {}
  PROVE  /\ Pick(S) \in S
         /\ SumFunctionOnSet(f, S) = f[Pick(S)] + SumFunctionOnSet(f, S \ {Pick(S)})
<1> DEFINE R == S \ {Pick(S)}
<1>1. Pick(S) \in S /\ IsFiniteSet(R) /\ R \subseteq S
  BY FS_Subset DEF Pick
<1>2. IsSum(SumOn(f, S), f, S) /\ IsSum(SumOn(f, R), f, R)
  BY <1>1, SumOnExists
<1>3. SumOn(f, S)[S] = f[Pick(S)] + SumOn(f, S)[R]
  BY <1>2 DEF IsSum
<1>4. SumOn(f, R)[R] = SumOn(f, S)[R]
  <2>. HIDE DEF R
  <2>1. R \in SUBSET R
    OBVIOUS
  <2>. QED  BY <1>1, <1>2, <2>1, SumsAgree
<1>. QED  BY <1>1, <1>3, <1>4, SumIsFold

\* The sum depends on the values on the set only.
LEMMA SumCongruent ==
  ASSUME NEW f, NEW e, NEW S, IsFiniteSet(S), \A x \in S : f[x] = e[x]
  PROVE  SumFunctionOnSet(f, S) = SumFunctionOnSet(e, S)
<1>1. IsSum(SumOn(f, S), f, S) /\ IsSum(SumOn(e, S), e, S)
  BY SumOnExists
<1>2. S \in SUBSET S /\ S \subseteq S
  OBVIOUS
<1>. QED  BY <1>1, <1>2, SumsAgree, SumIsFold

LEMMA SumInt ==
  ASSUME NEW f, NEW S, IsFiniteSet(S), \A x \in S : f[x] \in Int
  PROVE  SumFunctionOnSet(f, S) \in Int
<1> DEFINE T == {x \in SUBSET S : SumFunctionOnSet(f, x) \notin Int}
<1>1. SUFFICES ASSUME T # {} PROVE FALSE
  OBVIOUS
<1>2. PICK x \in T : \A y \in T : y \subseteq x => y = x
  <2>1. T \in SUBSET (SUBSET S)
    OBVIOUS
  <2>. HIDE DEF T
  <2>. QED  BY <1>1, <2>1, SmallestSubset
<1>3. IsFiniteSet(x) /\ x # {}
  <2>1. x \in SUBSET S
    BY <1>2
  <2>2. IsFiniteSet(x)
    BY <2>1, FS_Subset
  <2>3. SumFunctionOnSet(f, {}) = 0
    BY SumEmpty
  <2>4. SumFunctionOnSet(f, x) \notin Int
    BY <1>2
  <2>5. x # {}
    BY <2>3, <2>4
  <2>. QED  BY <2>2, <2>5
<1>4. /\ Pick(x) \in x
      /\ SumFunctionOnSet(f, x) = f[Pick(x)] + SumFunctionOnSet(f, x \ {Pick(x)})
  BY <1>3, SumPick
<1>5. x \ {Pick(x)} \notin T
  BY <1>2, <1>4
<1>. QED  BY <1>2, <1>4, <1>5

\* Any element may be taken out first: addition has no order.
LEMMA SumElement ==
  ASSUME NEW f, NEW S, IsFiniteSet(S), \A x \in S : f[x] \in Int, NEW c \in S
  PROVE  SumFunctionOnSet(f, S) = f[c] + SumFunctionOnSet(f, S \ {c})
<1> DEFINE sum(x) == SumFunctionOnSet(f, x)
           T == {x \in SUBSET S : \E d \in x : sum(x) # f[d] + sum(x \ {d})}
<1>1. SUFFICES ASSUME T # {} PROVE FALSE
  OBVIOUS
<1>2. PICK x \in T : \A y \in T : y \subseteq x => y = x
  <2>1. T \in SUBSET (SUBSET S)
    OBVIOUS
  <2>. HIDE DEF T
  <2>. QED  BY <1>1, <2>1, SmallestSubset
<1>3. PICK d \in x : sum(x) # f[d] + sum(x \ {d})
  BY <1>2
<1> DEFINE p == Pick(x)
<1>4. IsFiniteSet(x) /\ p \in x /\ sum(x) = f[p] + sum(x \ {p})
  BY <1>2, <1>3, FS_Subset, SumPick
<1>5. d # p
  BY <1>3, <1>4
<1>6. /\ d \in x \ {p} /\ x \ {p} \notin T
      /\ p \in x \ {d} /\ x \ {d} \notin T
  BY <1>2, <1>3, <1>4, <1>5
<1>7. /\ sum(x \ {p}) = f[d] + sum((x \ {p}) \ {d})
      /\ sum(x \ {d}) = f[p] + sum((x \ {d}) \ {p})
  BY <1>2, <1>6
<1>8. (x \ {p}) \ {d} = (x \ {d}) \ {p}
  OBVIOUS
<1>9. sum((x \ {d}) \ {p}) \in Int
  <2>1. IsFiniteSet((x \ {d}) \ {p}) /\ (x \ {d}) \ {p} \subseteq S
    BY <1>2, <1>4, FS_Subset
  <2>. QED  BY <2>1, SumInt
<1>10. f[p] \in Int /\ f[d] \in Int
  BY <1>2, <1>3, <1>4
<1>11. sum((x \ {p}) \ {d}) = sum((x \ {d}) \ {p})
  BY <1>8
<1>. HIDE DEF sum, p
<1>12. sum(x) = f[p] + (f[d] + sum((x \ {d}) \ {p}))
  BY <1>4, <1>7, <1>11
<1>13. f[d] + sum(x \ {d}) = f[d] + (f[p] + sum((x \ {d}) \ {p}))
  BY <1>7
<1>14. \A a, b, r \in Int : a + (b + r) = b + (a + r)
  OBVIOUS
<1>. QED  BY <1>3, <1>9, <1>10, <1>12, <1>13, <1>14

\* Changing the value of one element changes the sum by as much.
LEMMA SumUpdate ==
  ASSUME NEW f, NEW g, NEW S, IsFiniteSet(S), NEW c \in S,
         \A x \in S : f[x] \in Int /\ g[x] \in Int,
         \A x \in S \ {c} : g[x] = f[x]
  PROVE  SumFunctionOnSet(g, S) = SumFunctionOnSet(f, S) + g[c] - f[c]
<1> DEFINE R == S \ {c}
<1>1. IsFiniteSet(R) /\ c \notin R
  BY FS_Subset
<1>2. SumFunctionOnSet(g, S) = g[c] + SumFunctionOnSet(g, R)
  BY SumElement
<1>3. SumFunctionOnSet(f, S) = f[c] + SumFunctionOnSet(f, R)
  BY SumElement
<1>4. SumFunctionOnSet(g, R) = SumFunctionOnSet(f, R)
  <2>. HIDE DEF R
  <2>1. \A x \in R : g[x] = f[x]
    BY DEF R
  <2>. QED  BY <1>1, <2>1, SumCongruent
<1>5. SumFunctionOnSet(f, R) \in Int
  BY <1>1, SumInt
<1>6. f[c] \in Int /\ g[c] \in Int
  OBVIOUS
<1>. HIDE DEF R
<1>. QED  BY <1>2, <1>3, <1>4, <1>5, <1>6

\* A sum is monotone in its terms.
LEMMA SumMonotone ==
  ASSUME NEW f, NEW g, NEW S, IsFiniteSet(S),
         \A x \in S : f[x] \in Int /\ g[x] \in Int /\ f[x] <= g[x]
  PROVE  SumFunctionOnSet(f, S) <= SumFunctionOnSet(g, S)
<1> DEFINE T == {x \in SUBSET S : ~(SumFunctionOnSet(f, x) <= SumFunctionOnSet(g, x))}
<1>1. SUFFICES ASSUME T # {} PROVE FALSE
  OBVIOUS
<1>2. PICK x \in T : \A y \in T : y \subseteq x => y = x
  <2>1. T \in SUBSET (SUBSET S)
    OBVIOUS
  <2>. HIDE DEF T
  <2>. QED  BY <1>1, <2>1, SmallestSubset
<1>3. IsFiniteSet(x) /\ x # {}
  <2>1. x \in SUBSET S
    BY <1>2
  <2>2. IsFiniteSet(x)
    BY <2>1, FS_Subset
  <2>3. SumFunctionOnSet(f, {}) = 0 /\ SumFunctionOnSet(g, {}) = 0
    BY SumEmpty
  <2>4. ~(SumFunctionOnSet(f, x) <= SumFunctionOnSet(g, x))
    BY <1>2
  <2>5. x # {}
    BY <2>3, <2>4
  <2>. QED  BY <2>2, <2>5
<1> DEFINE p == Pick(x)
           R == x \ {p}
<1>4. /\ p \in x
      /\ SumFunctionOnSet(f, x) = f[p] + SumFunctionOnSet(f, R)
      /\ SumFunctionOnSet(g, x) = g[p] + SumFunctionOnSet(g, R)
  BY <1>3, SumPick
<1>5. SumFunctionOnSet(f, R) <= SumFunctionOnSet(g, R)
  BY <1>2, <1>4
<1>6. SumFunctionOnSet(f, R) \in Int /\ SumFunctionOnSet(g, R) \in Int
  <2>1. IsFiniteSet(R) /\ R \subseteq S
    BY <1>2, <1>3, FS_Subset
  <2>. QED  BY <2>1, SumInt
<1>7. f[p] \in Int /\ g[p] \in Int /\ f[p] <= g[p]
  BY <1>2, <1>4
<1>8. ~(SumFunctionOnSet(f, x) <= SumFunctionOnSet(g, x))
  BY <1>2
<1>. HIDE DEF p, R
<1>. QED  BY <1>4, <1>5, <1>6, <1>7, <1>8

LEMMA SumZero ==
  ASSUME NEW f, NEW S, IsFiniteSet(S), \A x \in S : f[x] = 0
  PROVE  SumFunctionOnSet(f, S) = 0
<1> DEFINE T == {x \in SUBSET S : SumFunctionOnSet(f, x) # 0}
<1>1. SUFFICES ASSUME T # {} PROVE FALSE
  OBVIOUS
<1>2. PICK x \in T : \A y \in T : y \subseteq x => y = x
  <2>1. T \in SUBSET (SUBSET S)
    OBVIOUS
  <2>. HIDE DEF T
  <2>. QED  BY <1>1, <2>1, SmallestSubset
<1>3. IsFiniteSet(x) /\ x # {}
  <2>1. x \in SUBSET S
    BY <1>2
  <2>2. IsFiniteSet(x)
    BY <2>1, FS_Subset
  <2>3. SumFunctionOnSet(f, {}) = 0
    BY SumEmpty
  <2>. QED  BY <1>2, <2>2, <2>3
<1>4. /\ Pick(x) \in x
      /\ SumFunctionOnSet(f, x) = f[Pick(x)] + SumFunctionOnSet(f, x \ {Pick(x)})
  BY <1>3, SumPick
<1>5. x \ {Pick(x)} \notin T
  BY <1>2, <1>4
<1>. QED  BY <1>2, <1>4, <1>5

\* A sum of natural numbers is one, and no smaller than any of them.
LEMMA SumNat ==
  ASSUME NEW f, NEW S, IsFiniteSet(S), \A x \in S : f[x] \in Nat
  PROVE  /\ SumFunctionOnSet(f, S) \in Nat
         /\ \A c \in S : f[c] <= SumFunctionOnSet(f, S)
<1>1. ASSUME NEW R \in SUBSET S
      PROVE  SumFunctionOnSet(f, R) \in Nat
  <2> DEFINE zero == [x \in R |-> 0]
  <2>1. IsFiniteSet(R)
    BY FS_Subset
  <2>2. SumFunctionOnSet(zero, R) = 0
    <3>1. \A x \in R : zero[x] = 0
      OBVIOUS
    <3>. HIDE DEF zero
    <3>. QED  BY <2>1, <3>1, SumZero
  <2>3. SumFunctionOnSet(zero, R) <= SumFunctionOnSet(f, R)
    <3>1. \A x \in R : zero[x] \in Int /\ f[x] \in Int /\ zero[x] <= f[x]
      OBVIOUS
    <3>. HIDE DEF zero
    <3>. QED  BY <2>1, <3>1, SumMonotone
  <2>4. SumFunctionOnSet(f, R) \in Int
    BY <2>1, SumInt
  <2>. HIDE DEF zero
  <2>. QED  BY <2>2, <2>3, <2>4
<1>2. ASSUME NEW c \in S
      PROVE  f[c] <= SumFunctionOnSet(f, S)
  <2>1. SumFunctionOnSet(f, S) = f[c] + SumFunctionOnSet(f, S \ {c})
    BY SumElement
  <2>2. SumFunctionOnSet(f, S \ {c}) \in Nat
    BY <1>1
  <2>. QED  BY <2>1, <2>2
<1>3. SumFunctionOnSet(f, S) \in Nat
  <2>1. S \in SUBSET S
    OBVIOUS
  <2>. QED  BY <1>1, <2>1
<1>. QED  BY <1>2, <1>3

\* Sums may be added term by term.
LEMMA SumPlus ==
  ASSUME NEW f, NEW g, NEW h, NEW S, IsFiniteSet(S),
         \A x \in S : f[x] \in Int /\ g[x] \in Int /\ h[x] = f[x] + g[x]
  PROVE  SumFunctionOnSet(h, S) = SumFunctionOnSet(f, S) + SumFunctionOnSet(g, S)
<1> DEFINE sum(e, x) == SumFunctionOnSet(e, x)
           T == {x \in SUBSET S : sum(h, x) # sum(f, x) + sum(g, x)}
<1>1. SUFFICES ASSUME T # {} PROVE FALSE
  OBVIOUS
<1>2. PICK x \in T : \A y \in T : y \subseteq x => y = x
  <2>1. T \in SUBSET (SUBSET S)
    OBVIOUS
  <2>. HIDE DEF T
  <2>. QED  BY <1>1, <2>1, SmallestSubset
<1>3. IsFiniteSet(x) /\ x # {}
  <2>1. IsFiniteSet(x)
    BY <1>2, FS_Subset
  <2>2. x = {} => SumFunctionOnSet(f, x) = 0 /\ SumFunctionOnSet(g, x) = 0
                 /\ SumFunctionOnSet(h, x) = 0
    BY SumEmpty
  <2>3. SumFunctionOnSet(h, x) # SumFunctionOnSet(f, x) + SumFunctionOnSet(g, x)
    BY <1>2
  <2>. QED  BY <2>1, <2>2, <2>3
<1> DEFINE p == Pick(x)
           R == x \ {p}
<1>4. /\ p \in x
      /\ sum(f, x) = f[p] + sum(f, R)
      /\ sum(g, x) = g[p] + sum(g, R)
      /\ sum(h, x) = h[p] + sum(h, R)
  BY <1>3, SumPick
<1>5. sum(h, R) = sum(f, R) + sum(g, R)
  BY <1>2, <1>4
<1>6. sum(f, R) \in Int /\ sum(g, R) \in Int
  <2>1. IsFiniteSet(R) /\ R \subseteq S
    BY <1>2, <1>3, FS_Subset
  <2>. QED  BY <2>1, SumInt
<1>7. f[p] \in Int /\ g[p] \in Int /\ h[p] = f[p] + g[p]
  BY <1>2, <1>4
<1>8. sum(h, x) # sum(f, x) + sum(g, x)
  BY <1>2
<1>. HIDE DEF p, R, sum
<1>. QED  BY <1>4, <1>5, <1>6, <1>7, <1>8

\* Elements whose value is nought do not count.
LEMMA SumSupport ==
  ASSUME NEW f, NEW S, NEW R, IsFiniteSet(S), R \subseteq S,
         \A x \in S : f[x] \in Int, \A x \in S \ R : f[x] = 0
  PROVE  SumFunctionOnSet(f, S) = SumFunctionOnSet(f, R)
<1> DEFINE sum(x) == SumFunctionOnSet(f, x)
           T == {x \in SUBSET (S \ R) : sum(R \cup x) # sum(R)}
<1>1. SUFFICES ASSUME T # {} PROVE FALSE
  <2>1. S = R \cup (S \ R) /\ S \ R \in SUBSET (S \ R)
    OBVIOUS
  <2>2. S \ R \notin T
    BY <2>1
  <2>3. sum(R \cup (S \ R)) = sum(R)
    BY <2>2
  <2>. QED  BY <2>1, <2>3
<1>2. PICK x \in T : \A y \in T : y \subseteq x => y = x
  <2>1. T \in SUBSET (SUBSET (S \ R)) /\ IsFiniteSet(S \ R)
    BY FS_Subset
  <2>. HIDE DEF T
  <2>. QED  BY <1>1, <2>1, SmallestSubset
<1>3. x \subseteq S \ R /\ sum(R \cup x) # sum(R)
  BY <1>2
<1>4. x # {}
  <2>1. R \cup {} = R
    OBVIOUS
  <2>. QED  BY <1>3, <2>1
<1>5. PICK c \in x : TRUE
  BY <1>4
<1>6. x \ {c} \notin T
  BY <1>2, <1>5
<1>7. sum(R \cup (x \ {c})) = sum(R)
  BY <1>3, <1>6
<1>8. /\ (R \cup x) \ {c} = R \cup (x \ {c}) /\ c \in R \cup x /\ f[c] = 0
      /\ R \cup x \subseteq S
  BY <1>3, <1>5
<1>9. IsFiniteSet(R \cup x) /\ \A y \in R \cup x : f[y] \in Int
  BY <1>8, FS_Subset
<1>10. sum(R \cup x) = f[c] + sum((R \cup x) \ {c})
  BY <1>8, <1>9, SumElement
<1>11. sum((R \cup x) \ {c}) \in Int
  <2>1. IsFiniteSet((R \cup x) \ {c}) /\ \A y \in (R \cup x) \ {c} : f[y] \in Int
    BY <1>9, FS_Subset
  <2>. QED  BY <2>1, SumInt
<1>12. sum((R \cup x) \ {c}) = sum(R \cup (x \ {c}))
  BY <1>8
<1>. HIDE DEF sum
<1>13. sum(R \cup x) = sum((R \cup x) \ {c})
  BY <1>8, <1>10, <1>11
<1>. QED  BY <1>3, <1>7, <1>12, <1>13

\* A sum over a set, by the parts a function divides it in.
LEMMA SumByParts ==
  ASSUME NEW f, NEW h, NEW S, NEW R, IsFiniteSet(S), IsFiniteSet(R),
         \A x \in S : f[x] \in Int /\ h[x] \in R
  PROVE  SumFunctionOnSet([r \in R |-> SumFunctionOnSet(f, {x \in S : h[x] = r})], R)
           = SumFunctionOnSet(f, S)
<1> DEFINE sum(y) == SumFunctionOnSet(f, y)
           part(y, r) == {x \in y : h[x] = r}
           parts(y) == [r \in R |-> sum(part(y, r))]
           all(y) == SumFunctionOnSet(parts(y), R)
           T == {y \in SUBSET S : all(y) # sum(y)}
<1>1. SUFFICES ASSUME T # {} PROVE FALSE
  <2>1. S \in SUBSET S
    OBVIOUS
  <2>2. all(S) = sum(S)
    BY <1>1, <2>1
  <2>. QED  BY <2>2
<1>2. PICK y \in T : \A z \in T : z \subseteq y => z = y
  <2>1. T \in SUBSET (SUBSET S)
    OBVIOUS
  <2>. HIDE DEF T
  <2>. QED  BY <1>1, <2>1, SmallestSubset
<1>3. y \subseteq S /\ all(y) # sum(y) /\ IsFiniteSet(y)
  BY <1>2, FS_Subset
<1>4. y # {}
  <2>1. SUFFICES ASSUME y = {} PROVE all(y) = sum(y)
    BY <1>3
  <2>2. \A r \in R : part(y, r) = {}
    BY <2>1
  <2>3. \A r \in R : parts(y)[r] = 0
    BY <2>2, SumEmpty
  <2>4. sum(y) = 0
    BY <2>1, SumEmpty
  <2>. HIDE DEF parts
  <2>5. all(y) = 0
    BY <2>3, SumZero
  <2>. QED  BY <2>4, <2>5
<1>5. PICK c \in y : TRUE
  BY <1>4
<1> DEFINE z == y \ {c}
<1>6. z \subseteq S /\ z \notin T /\ c \in S
  BY <1>2, <1>3, <1>5
<1>7. all(z) = sum(z)
  BY <1>6
<1>8. sum(y) = f[c] + sum(z)
  BY <1>3, <1>5, SumElement
<1>9. ASSUME NEW v \in SUBSET S PROVE sum(v) \in Int
  <2>1. IsFiniteSet(v) /\ \A x \in v : f[x] \in Int
    BY FS_Subset
  <2>. QED  BY <2>1, SumInt
<1>10. ASSUME NEW v \in SUBSET S, NEW r \in R
       PROVE  parts(v)[r] = sum(part(v, r)) /\ parts(v)[r] \in Int
  <2>1. part(v, r) \in SUBSET S
    OBVIOUS
  <2>. QED  BY <1>9, <2>1
<1>11. \A r \in R \ {h[c]} : parts(y)[r] = parts(z)[r]
  <2>1. \A r \in R \ {h[c]} : part(y, r) = part(z, r)
    OBVIOUS
  <2>. QED  BY <2>1
<1>12. parts(y)[h[c]] = f[c] + parts(z)[h[c]]
  <2>1. /\ h[c] \in R /\ c \in part(y, h[c])
        /\ part(z, h[c]) = part(y, h[c]) \ {c} /\ part(y, h[c]) \in SUBSET S
    BY <1>3, <1>5, <1>6
  <2>2. IsFiniteSet(part(y, h[c])) /\ \A x \in part(y, h[c]) : f[x] \in Int
    BY <2>1, FS_Subset
  <2>3. sum(part(y, h[c])) = f[c] + sum(part(y, h[c]) \ {c})
    BY <2>1, <2>2, SumElement
  <2>. QED  BY <2>1, <2>3
<1>13. h[c] \in R /\ f[c] \in Int /\ sum(z) \in Int /\ parts(z)[h[c]] \in Int
  BY <1>6, <1>9, <1>10
<1>14. \A r \in R : parts(y)[r] \in Int /\ parts(z)[r] \in Int
  BY <1>3, <1>6, <1>10
<1>. HIDE DEF parts, sum, z
<1>15. all(y) = all(z) + parts(y)[h[c]] - parts(z)[h[c]]
  BY <1>11, <1>13, <1>14, SumUpdate
<1>16. all(z) \in Int
  BY <1>14, SumInt
<1>17. all(y) = sum(y)
  <2>. HIDE DEF all
  <2>. QED  BY <1>7, <1>8, <1>12, <1>13, <1>15, <1>16
<1>. QED  BY <1>3, <1>17

\* A sum over the first numbers, by its differences.
LEMMA SumFirst ==
  ASSUME NEW f, NEW g, NEW n \in Nat, g[0] = 0,
         \A i \in 0 .. n - 1 : /\ f[i] \in Int /\ g[i] \in Int
                              /\ g[i + 1] = g[i] + f[i]
  PROVE  SumFunctionOnSet(f, 0 .. n - 1) = g[n]
<1> DEFINE N == 0 .. n - 1
           sum(x) == SumFunctionOnSet(f, x)
           T == {x \in SUBSET N : \E k \in 0 .. n : x = 0 .. k - 1 /\ sum(x) # g[k]}
<1>1. SUFFICES ASSUME T # {} PROVE FALSE
  <2>1. N \notin T
    BY <1>1
  <2>2. n \in 0 .. n /\ N \in SUBSET N
    OBVIOUS
  <2>. QED  BY <2>1, <2>2
<1>2. PICK x \in T : \A y \in T : y \subseteq x => y = x
  <2>1. T \in SUBSET (SUBSET N) /\ IsFiniteSet(N)
    BY FS_Interval
  <2>. HIDE DEF T, N
  <2>. QED  BY <1>1, <2>1, SmallestSubset
<1>3. PICK k \in 0 .. n : x = 0 .. k - 1 /\ sum(x) # g[k]
  BY <1>2
<1>4. k # 0
  <2>1. 0 .. 0 - 1 = {}
    OBVIOUS
  <2>2. sum({}) = 0
    BY SumEmpty
  <2>. QED  BY <1>3, <2>1, <2>2
<1>5. PICK j \in 0 .. n - 1 : k = j + 1
  <2>1. k - 1 \in 0 .. n - 1 /\ k = (k - 1) + 1
    BY <1>4
  <2>. QED  BY <2>1
<1>6. x = 0 .. j /\ j \in x /\ x \subseteq N /\ x \ {j} = 0 .. j - 1
  BY <1>3, <1>5
<1>7. x \ {j} \subseteq x /\ x \ {j} # x
  BY <1>6
<1>8. x \ {j} \notin T
  BY <1>2, <1>7
<1>9. sum(x \ {j}) = g[j]
  <2>1. j \in 0 .. n /\ x \ {j} \in SUBSET N
    BY <1>5, <1>6
  <2>. QED  BY <1>6, <1>8, <2>1
<1>10. sum(x) = f[j] + sum(x \ {j})
  <2>1. IsFiniteSet(0 .. j)
    BY FS_Interval
  <2>2. IsFiniteSet(x) /\ \A y \in x : f[y] \in Int
    BY <1>6, <2>1
  <2>3. ASSUME NEW c \in x
        PROVE  SumFunctionOnSet(f, x) = f[c] + SumFunctionOnSet(f, x \ {c})
    <3>. HIDE DEF T, N
    <3>. QED  BY <2>2, SumElement
  <2>. QED  BY <1>6, <2>3
<1>11. f[j] \in Int /\ g[j] \in Int /\ g[k] = g[j] + f[j]
  BY <1>5
<1>. HIDE DEF sum
<1>. QED  BY <1>3, <1>9, <1>10, <1>11

(***************************************************************************)
(* How many elements of a queue, and of a family of queues, are in a set.   *)
(***************************************************************************)

PlacesOf(S, q) == {k \in 1 .. Len(q) : q[k] \in S}
CountIn(S, q) == Cardinality(PlacesOf(S, q))
Total(S, f, I) == SumFunctionOnSet([i \in I |-> CountIn(S, f[i])], I)

LEMMA PlacesFinite ==
  ASSUME NEW S, NEW X, NEW q \in Seq(X)
  PROVE  /\ IsFiniteSet(PlacesOf(S, q)) /\ CountIn(S, q) \in Nat
         /\ \A k \in 1 .. Len(q) : q[k] \in S => CountIn(S, q) > 0
<1>1. IsFiniteSet(PlacesOf(S, q))
  <2>1. IsFiniteSet(1 .. Len(q))
    BY FS_Interval
  <2>. QED  BY <2>1, FS_Subset DEF PlacesOf
<1>2. CountIn(S, q) \in Nat
  BY <1>1, FS_CardinalityType DEF CountIn
<1>3. ASSUME NEW k \in 1 .. Len(q), q[k] \in S PROVE CountIn(S, q) # 0
  BY <1>1, <1>3, FS_EmptySet DEF CountIn, PlacesOf
<1>. QED  BY <1>1, <1>2, <1>3

LEMMA CountAppend ==
  ASSUME NEW S, NEW X, NEW q \in Seq(X), NEW e
  PROVE  CountIn(S, Append(q, e)) = CountIn(S, q) + (IF e \in S THEN 1 ELSE 0)
<1> DEFINE n == Len(q) + 1
           r == Append(q, e)
<1>1. /\ n \in Nat /\ n \notin 1 .. Len(q) /\ Len(r) = n /\ r[n] = e
      /\ \A k \in 1 .. Len(q) : r[k] = q[k]
      /\ 1 .. n = (1 .. Len(q)) \cup {n}
  OBVIOUS
<1>. HIDE DEF n, r
<1>2. PlacesOf(S, r) = PlacesOf(S, q) \cup (IF e \in S THEN {n} ELSE {})
  BY <1>1 DEF PlacesOf
<1>3. IsFiniteSet(PlacesOf(S, q)) /\ n \notin PlacesOf(S, q)
  BY <1>1, PlacesFinite DEF PlacesOf
<1>4. CountIn(S, q) \in Nat
  BY PlacesFinite
<1>5. CASE e \in S
  <2>1. Cardinality(PlacesOf(S, r)) = Cardinality(PlacesOf(S, q)) + 1
    BY <1>2, <1>3, <1>5, FS_AddElement
  <2>. QED  BY <1>5, <2>1 DEF CountIn, r
<1>6. CASE e \notin S
  BY <1>2, <1>4, <1>6 DEF CountIn, r
<1>. QED  BY <1>5, <1>6

LEMMA CountTail ==
  ASSUME NEW S, NEW X, NEW q \in Seq(X), q # <<>>
  PROVE  CountIn(S, Tail(q)) = CountIn(S, q) - (IF Head(q) \in S THEN 1 ELSE 0)
<1> DEFINE r == Tail(q)
           rest == PlacesOf(S, q) \ {1}
<1>1. /\ r \in Seq(X) /\ Head(q) = q[1] /\ Len(q) \in Nat \ {0} /\ Len(r) = Len(q) - 1
      /\ \A k \in 1 .. Len(r) : r[k] = q[k + 1]
  OBVIOUS
<1>2. IsFiniteSet(PlacesOf(S, q)) /\ IsFiniteSet(PlacesOf(S, r)) /\ CountIn(S, q) \in Nat
  BY <1>1, PlacesFinite
<1>3. Cardinality(PlacesOf(S, r)) = Cardinality(rest)
  <2> DEFINE f == [k \in PlacesOf(S, r) |-> k + 1]
  <2>1. \A k \in PlacesOf(S, r) : k \in Nat /\ k + 1 \in rest
    BY <1>1 DEF PlacesOf
  <2>2. ASSUME NEW j \in rest
        PROVE  j - 1 \in PlacesOf(S, r) /\ f[j - 1] = j
    <3>1. j \in Nat /\ j > 1 /\ j <= Len(q) /\ q[j] \in S
      BY <1>1 DEF PlacesOf
    <3>2. j - 1 \in 1 .. Len(r) /\ r[j - 1] = q[(j - 1) + 1] /\ (j - 1) + 1 = j
      BY <1>1, <3>1
    <3>3. j - 1 \in PlacesOf(S, r)
      BY <3>1, <3>2 DEF PlacesOf
    <3>. QED  BY <3>2, <3>3
  <2>3. f \in Bijection(PlacesOf(S, r), rest)
    <3>1. f \in [PlacesOf(S, r) -> rest]
      BY <2>1
    <3>2. \A k, l \in PlacesOf(S, r) : f[k] = f[l] => k = l
      BY <2>1
    <3>3. \A j \in rest : \E k \in PlacesOf(S, r) : f[k] = j
      BY <2>2
    <3>. HIDE DEF f, rest
    <3>. QED  BY <3>1, <3>2, <3>3 DEF Bijection, Injection, Surjection, IsInjective
  <2>. QED  BY <1>2, <2>3, FS_Bijection DEF ExistsBijection
<1>4. Cardinality(rest) = CountIn(S, q) - (IF 1 \in PlacesOf(S, q) THEN 1 ELSE 0)
  <2>1. Cardinality(rest) = IF 1 \in PlacesOf(S, q) THEN Cardinality(PlacesOf(S, q)) - 1
                            ELSE Cardinality(PlacesOf(S, q))
    BY <1>2, FS_RemoveElement
  <2>. QED  BY <1>2, <2>1 DEF CountIn
<1>5. 1 \in PlacesOf(S, q) <=> Head(q) \in S
  BY <1>1 DEF PlacesOf
<1>. QED  BY <1>3, <1>4, <1>5 DEF CountIn

LEMMA TotalNat ==
  ASSUME NEW S, NEW X, NEW I, IsFiniteSet(I), NEW f \in [I -> Seq(X)]
  PROVE  /\ Total(S, f, I) \in Nat
         /\ \A i \in I : \A k \in 1 .. Len(f[i]) : f[i][k] \in S => Total(S, f, I) > 0
<1> DEFINE c == [i \in I |-> CountIn(S, f[i])]
<1>1. \A i \in I : c[i] = CountIn(S, f[i]) /\ c[i] \in Nat
  BY PlacesFinite
<1>2. /\ SumFunctionOnSet(c, I) \in Nat
      /\ \A i \in I : c[i] <= SumFunctionOnSet(c, I)
  <2>. HIDE DEF c
  <2>. QED  BY <1>1, SumNat
<1>3. ASSUME NEW i \in I, NEW k \in 1 .. Len(f[i]), f[i][k] \in S
      PROVE  SumFunctionOnSet(c, I) > 0
  <2>1. CountIn(S, f[i]) > 0
    BY <1>3, PlacesFinite
  <2>. HIDE DEF c
  <2>. QED  BY <1>1, <1>2, <2>1
<1>. QED  BY <1>2, <1>3 DEF Total

LEMMA TotalUpdate ==
  ASSUME NEW S, NEW X, NEW I, IsFiniteSet(I), NEW f \in [I -> Seq(X)],
         NEW c \in I, NEW g \in [I -> Seq(X)], \A i \in I \ {c} : g[i] = f[i]
  PROVE  Total(S, g, I) = Total(S, f, I) + CountIn(S, g[c]) - CountIn(S, f[c])
<1> DEFINE a == [i \in I |-> CountIn(S, f[i])]
           b == [i \in I |-> CountIn(S, g[i])]
<1>1. \A i \in I : g[i] \in Seq(X) /\ f[i] \in Seq(X)
  OBVIOUS
<1>2. /\ \A i \in I : a[i] \in Int /\ b[i] \in Int
      /\ \A i \in I \ {c} : b[i] = a[i]
      /\ a[c] = CountIn(S, f[c]) /\ b[c] = CountIn(S, g[c])
  <2>1. \A i \in I : CountIn(S, f[i]) \in Nat /\ CountIn(S, g[i]) \in Nat
    BY <1>1, PlacesFinite
  <2>. QED  BY <2>1
<1>3. SumFunctionOnSet(b, I) = SumFunctionOnSet(a, I) + b[c] - a[c]
  <2>. HIDE DEF a, b
  <2>. QED  BY <1>2, SumUpdate
<1>. QED  BY <1>2, <1>3 DEF Total

\* An element joins one of the queues; the first one leaves it.
Joins(f, g, c, e) == g = [f EXCEPT ![c] = Append(@, e)]
Leaves(f, g, c) == g = [f EXCEPT ![c] = Tail(@)]

LEMMA TotalAppend ==
  ASSUME NEW S, NEW X, NEW I, IsFiniteSet(I), NEW f \in [I -> Seq(X)], NEW c \in I,
         NEW e \in X, NEW g, Joins(f, g, c, e)
  PROVE  Total(S, g, I) = Total(S, f, I) + (IF e \in S THEN 1 ELSE 0)
<1>1. g = [f EXCEPT ![c] = Append(@, e)]
  BY DEF Joins
<1>2. f[c] \in Seq(X) /\ g[c] = Append(f[c], e)
  BY <1>1
<1>3. CountIn(S, g[c]) = CountIn(S, f[c]) + (IF e \in S THEN 1 ELSE 0)
  BY <1>2, CountAppend
<1>4. /\ IsFiniteSet(I) /\ f \in [I -> Seq(X)] /\ c \in I
      /\ g \in [I -> Seq(X)] /\ \A i \in I \ {c} : g[i] = f[i]
  BY <1>1
<1>5. Total(S, f, I) \in Nat /\ CountIn(S, f[c]) \in Nat
  BY <1>4, TotalNat, PlacesFinite
<1>6. Total(S, g, I) = Total(S, f, I) + CountIn(S, g[c]) - CountIn(S, f[c])
  BY <1>4, TotalUpdate
<1>. QED  BY <1>3, <1>5, <1>6

LEMMA TotalTail ==
  ASSUME NEW S, NEW X, NEW I, IsFiniteSet(I), NEW f \in [I -> Seq(X)], NEW c \in I,
         f[c] # <<>>, NEW g, Leaves(f, g, c)
  PROVE  Total(S, g, I) = Total(S, f, I) - (IF Head(f[c]) \in S THEN 1 ELSE 0)
<1>1. g = [f EXCEPT ![c] = Tail(@)]
  BY DEF Leaves
<1>2. f[c] \in Seq(X) /\ f[c] # <<>> /\ g[c] = Tail(f[c])
  BY <1>1
<1>3. CountIn(S, g[c]) = CountIn(S, f[c]) - (IF Head(f[c]) \in S THEN 1 ELSE 0)
  BY <1>2, CountTail
<1>4. /\ IsFiniteSet(I) /\ f \in [I -> Seq(X)] /\ c \in I
      /\ g \in [I -> Seq(X)] /\ \A i \in I \ {c} : g[i] = f[i]
  BY <1>1
<1>5. Total(S, f, I) \in Nat /\ CountIn(S, f[c]) \in Nat
  BY <1>4, TotalNat, PlacesFinite
<1>6. Total(S, g, I) = Total(S, f, I) + CountIn(S, g[c]) - CountIn(S, f[c])
  BY <1>4, TotalUpdate
<1>. QED  BY <1>3, <1>5, <1>6

(***************************************************************************)
(* The same count when what is counted depends on the queue: S[i] in f[i].   *)
(***************************************************************************)

TotalAt(S, f, I) == SumFunctionOnSet([i \in I |-> CountIn(S[i], f[i])], I)

LEMMA TotalAtNat ==
  ASSUME NEW S, NEW X, NEW I, IsFiniteSet(I), NEW f \in [I -> Seq(X)]
  PROVE  /\ TotalAt(S, f, I) \in Nat
         /\ \A i \in I : CountIn(S[i], f[i]) \in Nat /\ CountIn(S[i], f[i]) <= TotalAt(S, f, I)
<1> DEFINE c == [i \in I |-> CountIn(S[i], f[i])]
<1>1. \A i \in I : c[i] = CountIn(S[i], f[i]) /\ c[i] \in Nat
  BY PlacesFinite
<1>2. /\ SumFunctionOnSet(c, I) \in Nat
      /\ \A i \in I : c[i] <= SumFunctionOnSet(c, I)
  <2>. HIDE DEF c
  <2>. QED  BY <1>1, SumNat
<1>. QED  BY <1>1, <1>2 DEF TotalAt

LEMMA TotalAtUpdate ==
  ASSUME NEW S, NEW X, NEW I, IsFiniteSet(I), NEW f \in [I -> Seq(X)],
         NEW c \in I, NEW g \in [I -> Seq(X)], \A i \in I \ {c} : g[i] = f[i]
  PROVE  TotalAt(S, g, I) = TotalAt(S, f, I) + CountIn(S[c], g[c]) - CountIn(S[c], f[c])
<1> DEFINE a == [i \in I |-> CountIn(S[i], f[i])]
           b == [i \in I |-> CountIn(S[i], g[i])]
<1>1. \A i \in I : g[i] \in Seq(X) /\ f[i] \in Seq(X)
  OBVIOUS
<1>2. /\ \A i \in I : a[i] \in Int /\ b[i] \in Int
      /\ \A i \in I \ {c} : b[i] = a[i]
      /\ a[c] = CountIn(S[c], f[c]) /\ b[c] = CountIn(S[c], g[c])
  <2>1. \A i \in I : CountIn(S[i], f[i]) \in Nat /\ CountIn(S[i], g[i]) \in Nat
    BY <1>1, PlacesFinite
  <2>. QED  BY <2>1
<1>3. SumFunctionOnSet(b, I) = SumFunctionOnSet(a, I) + b[c] - a[c]
  <2>. HIDE DEF a, b
  <2>. QED  BY <1>2, SumUpdate
<1>. QED  BY <1>2, <1>3 DEF TotalAt

LEMMA TotalAtAppend ==
  ASSUME NEW S, NEW X, NEW I, IsFiniteSet(I), NEW f \in [I -> Seq(X)], NEW c \in I,
         NEW e \in X, NEW g, Joins(f, g, c, e)
  PROVE  TotalAt(S, g, I) = TotalAt(S, f, I) + (IF e \in S[c] THEN 1 ELSE 0)
<1>1. g = [f EXCEPT ![c] = Append(@, e)]
  BY DEF Joins
<1>2. f[c] \in Seq(X) /\ g[c] = Append(f[c], e)
  BY <1>1
<1>3. CountIn(S[c], g[c]) = CountIn(S[c], f[c]) + (IF e \in S[c] THEN 1 ELSE 0)
  BY <1>2, CountAppend
<1>4. /\ IsFiniteSet(I) /\ f \in [I -> Seq(X)] /\ c \in I
      /\ g \in [I -> Seq(X)] /\ \A i \in I \ {c} : g[i] = f[i]
  BY <1>1
<1>5. TotalAt(S, f, I) \in Nat /\ CountIn(S[c], f[c]) \in Nat
  BY <1>4, TotalAtNat
<1>6. TotalAt(S, g, I) = TotalAt(S, f, I) + CountIn(S[c], g[c]) - CountIn(S[c], f[c])
  BY <1>4, TotalAtUpdate
<1>. QED  BY <1>3, <1>5, <1>6

LEMMA TotalAtTail ==
  ASSUME NEW S, NEW X, NEW I, IsFiniteSet(I), NEW f \in [I -> Seq(X)], NEW c \in I,
         f[c] # <<>>, NEW g, Leaves(f, g, c)
  PROVE  TotalAt(S, g, I) = TotalAt(S, f, I) - (IF Head(f[c]) \in S[c] THEN 1 ELSE 0)
<1>1. g = [f EXCEPT ![c] = Tail(@)]
  BY DEF Leaves
<1>2. f[c] \in Seq(X) /\ f[c] # <<>> /\ g[c] = Tail(f[c])
  BY <1>1
<1>3. CountIn(S[c], g[c]) = CountIn(S[c], f[c]) - (IF Head(f[c]) \in S[c] THEN 1 ELSE 0)
  BY <1>2, CountTail
<1>4. /\ IsFiniteSet(I) /\ f \in [I -> Seq(X)] /\ c \in I
      /\ g \in [I -> Seq(X)] /\ \A i \in I \ {c} : g[i] = f[i]
  BY <1>1
<1>5. TotalAt(S, f, I) \in Nat /\ CountIn(S[c], f[c]) \in Nat
  BY <1>4, TotalAtNat
<1>6. TotalAt(S, g, I) = TotalAt(S, f, I) + CountIn(S[c], g[c]) - CountIn(S[c], f[c])
  BY <1>4, TotalAtUpdate, SMTT(30)
<1>. QED  BY <1>3, <1>5, <1>6

\* Nothing is counted where no element is of the kind that counts.
LEMMA TotalAtZero ==
  ASSUME NEW S, NEW X, NEW I, IsFiniteSet(I), NEW f \in [I -> Seq(X)],
         \A i \in I : \A k \in 1 .. Len(f[i]) : f[i][k] \notin S[i]
  PROVE  TotalAt(S, f, I) = 0
<1> DEFINE c == [i \in I |-> CountIn(S[i], f[i])]
<1>1. \A i \in I : c[i] = 0
  <2>1. \A i \in I : PlacesOf(S[i], f[i]) = {}
    BY DEF PlacesOf
  <2>. QED  BY <2>1, FS_EmptySet DEF CountIn
<1>2. SumFunctionOnSet(c, I) = 0
  <2>. HIDE DEF c
  <2>. QED  BY <1>1, SumZero
<1>. QED  BY <1>2 DEF TotalAt

\* The more elements count, the higher the count.
LEMMA TotalAtMonotone ==
  ASSUME NEW S, NEW T, NEW X, NEW I, IsFiniteSet(I), NEW f \in [I -> Seq(X)],
         \A i \in I : S[i] \subseteq T[i]
  PROVE  TotalAt(S, f, I) <= TotalAt(T, f, I)
<1> DEFINE a == [i \in I |-> CountIn(S[i], f[i])]
           b == [i \in I |-> CountIn(T[i], f[i])]
<1>1. ASSUME NEW i \in I PROVE a[i] \in Int /\ b[i] \in Int /\ a[i] <= b[i]
  <2>1. PlacesOf(S[i], f[i]) \subseteq PlacesOf(T[i], f[i])
    BY DEF PlacesOf
  <2>2. /\ IsFiniteSet(PlacesOf(T[i], f[i]))
        /\ CountIn(S[i], f[i]) \in Nat /\ CountIn(T[i], f[i]) \in Nat
    BY PlacesFinite
  <2>3. CountIn(S[i], f[i]) <= CountIn(T[i], f[i])
    BY <2>1, <2>2, FS_Subset DEF CountIn
  <2>. QED  BY <2>2, <2>3
<1>2. SumFunctionOnSet(a, I) <= SumFunctionOnSet(b, I)
  <2>. HIDE DEF a, b
  <2>. QED  BY <1>1, SumMonotone
<1>. QED  BY <1>2 DEF TotalAt

(***************************************************************************)
(* What is in a queue, after one of a family of queues has changed.         *)
(***************************************************************************)

\* The elements of a queue.
In(q) == {q[k] : k \in 1 .. Len(q)}

LEMMA EnqueueElements ==
  ASSUME NEW I, NEW S, NEW f \in [I -> Seq(S)], NEW i \in I, NEW e \in S,
         NEW x \in I, NEW q \in In([f EXCEPT ![i] = Append(@, e)][x])
  PROVE  q \in In(f[x]) \/ (x = i /\ q = e)
<1>1. CASE x = i
  <2>1. q \in In(Append(f[i], e)) /\ f[i] \in Seq(S)
    BY <1>1
  <2>2. PICK k \in 1 .. Len(Append(f[i], e)) : q = Append(f[i], e)[k]
    BY <2>1 DEF In
  <2>3. CASE k = Len(f[i]) + 1
    BY <1>1, <2>1, <2>2, <2>3
  <2>4. CASE k # Len(f[i]) + 1
    <3>1. k \in 1 .. Len(f[i]) /\ q = f[i][k]
      BY <2>1, <2>2, <2>4
    <3>. QED  BY <1>1, <3>1 DEF In
  <2>. QED  BY <2>3, <2>4
<1>2. CASE x # i
  BY <1>2
<1>. QED  BY <1>1, <1>2

LEMMA DequeueElements ==
  ASSUME NEW I, NEW S, NEW f \in [I -> Seq(S)], NEW i \in I, f[i] # <<>>
  PROVE  /\ Head(f[i]) \in In(f[i])
         /\ \A x \in I : In([f EXCEPT ![i] = Tail(@)][x]) \subseteq In(f[x])
<1>1. Len(f[i]) \in Nat \ {0} /\ Head(f[i]) = f[i][1]
  OBVIOUS
<1>2. ASSUME NEW x \in I, NEW q \in In([f EXCEPT ![i] = Tail(@)][x])
      PROVE  q \in In(f[x])
  <2>1. CASE x = i
    <3>1. PICK k \in 1 .. Len(Tail(f[i])) : q = Tail(f[i])[k]
      BY <1>2, <2>1 DEF In
    <3>2. k + 1 \in 1 .. Len(f[i]) /\ q = f[i][k + 1]
      BY <1>1, <3>1
    <3>. QED  BY <2>1, <3>2 DEF In
  <2>2. CASE x # i
    BY <1>2, <2>2
  <2>. QED  BY <2>1, <2>2
<1>3. Head(f[i]) \in In(f[i])
  BY <1>1 DEF In
<1>. QED  BY <1>2, <1>3

\* A packet of a queue has the type of the queue.
LEMMA ElementType ==
  ASSUME NEW S, NEW q \in Seq(S), NEW e \in In(q)
  PROVE  e \in S
  BY DEF In
=============================================================================
