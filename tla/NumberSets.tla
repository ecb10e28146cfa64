----------------------------- MODULE NumberSets -----------------------------
(***************************************************************************)
(* Least and greatest elements of sets of natural numbers, and sums over   *)
(* finite sets (SumFunctionOnSet of module Functions): what happens to a   *)
(* sum when a term changes, when terms are added and when the terms are    *)
(* renamed.  Where a proof needs induction it takes a least counterexample. *)
(***************************************************************************)
EXTENDS Integers, Sequences, Functions, FiniteSets, FiniteSetsExt, FiniteSetTheorems,
        WellFoundedInduction, TLAPS

(* Every set of natural numbers that is not empty has a least element.     *)
LEMMA LeastExists ==
    ASSUME NEW T, T \subseteq Nat, T # {}
    PROVE  \E n \in T : \A m \in T : n <= m
<1>1. PICK n \in T : \A m \in T : ~(<<m, n>> \in OpToRel(<, Nat))
  BY NatLessThanWellFounded, WFMin
<1>2. \A m \in T : ~(m < n)
  BY <1>1 DEF OpToRel
<1> QED
  BY <1>2

(* Every set of natural numbers with a bound has a greatest element.       *)
LEMMA GreatestExists ==
    ASSUME NEW T, T \subseteq Nat, T # {}, NEW k \in Nat, \A n \in T : n <= k
    PROVE  \E n \in T : \A m \in T : m <= n
<1> DEFINE U == {u \in Nat : \E n \in T : u = k - n}
<1>1. U # {}
  <2>1. PICK t \in T : TRUE
    OBVIOUS
  <2>2. k - t \in U
    BY <2>1
  <2> QED
    BY <2>2
<1>2. PICK u \in U : \A w \in U : u <= w
  BY <1>1, LeastExists
<1>3. PICK n \in T : u = k - n
  BY <1>2
<1>4. \A m \in T : m <= n
  <2> TAKE m \in T
  <2>1. k - m \in U
    OBVIOUS
  <2> QED
    BY <1>2, <1>3, <2>1
<1> QED
  BY <1>4

----------------------------------------------------------------------------
(* Sums. *)

(* A set of finite sets that is not empty has a minimal element.           *)
LEMMA MinimalSubset ==
    ASSUME NEW S, IsFiniteSet(S), NEW B, B \subseteq SUBSET S, B # {}
    PROVE  \E s \in B : \A t \in B : t \subseteq s => t = s
<1> DEFINE N == {Cardinality(s) : s \in B}
<1>1. \A s \in B : IsFiniteSet(s) /\ Cardinality(s) \in Nat
  BY FS_Subset, FS_CardinalityType
<1>2. N \subseteq Nat /\ N # {}
  BY <1>1
<1> HIDE DEF N
<1>3. PICK n \in N : \A m \in N : n <= m
  BY <1>2, LeastExists
<1>4. PICK s \in B : n = Cardinality(s)
  BY DEF N
<1>5. ASSUME NEW t \in B, t \subseteq s, t # s PROVE FALSE
  <2>1. Cardinality(t) < Cardinality(s)
    BY <1>1, <1>5, FS_Subset
  <2>2. Cardinality(t) \in N
    BY DEF N
  <2> QED
    BY <1>1, <1>3, <1>4, <2>1, <2>2
<1> QED
  BY <1>5

IsSum(g, f, S) ==
    g = [s \in SUBSET S |-> IF s = {} THEN 0
                            ELSE LET x == CHOOSE x \in s : TRUE IN f[x] + g[s \ {x}]]

LEMMA SumDef == ASSUME NEW f, NEW S PROVE
   SumFunctionOnSet(f, S) = (CHOOSE g : IsSum(g, f, S))[S]
  BY DEF SumFunctionOnSet, FoldFunctionOnSet, MapThenFoldSet, IsSum

LEMMA SumUnique ==
    ASSUME NEW f, NEW S, IsFiniteSet(S), NEW T, NEW g, NEW h, IsSum(g, f, S), IsSum(h, f, T),
           NEW u, u \subseteq S, u \subseteq T
    PROVE  g[u] = h[u]
<1> DEFINE B == {s \in SUBSET S : s \subseteq T /\ g[s] # h[s]}
<1> SUFFICES ASSUME B # {} PROVE FALSE
  OBVIOUS
<1>1. PICK s \in B : \A t \in B : t \subseteq s => t = s
  <2> HIDE DEF B
  <2>1. B \subseteq SUBSET S
    BY DEF B
  <2> QED
    BY <2>1, MinimalSubset
<1>2. CASE s = {}
  BY <1>2 DEF IsSum
<1>3. CASE s # {}
  <2> DEFINE x == CHOOSE x \in s : TRUE
  <2>1. x \in s
    BY <1>3
  <2>2. g[s] = f[x] + g[s \ {x}] /\ h[s] = f[x] + h[s \ {x}]
    BY <1>3 DEF IsSum
  <2> HIDE DEF x
  <2>3. g[s \ {x}] = h[s \ {x}]
    BY <1>1, <2>1
  <2> QED
    BY <2>2, <2>3
<1> QED
  BY <1>2, <1>3

(* The sums of all subsets of a finite set, from those of smaller ones. *)
LEMMA SumExists == ASSUME NEW f, NEW S, IsFiniteSet(S) PROVE \E g : IsSum(g, f, S)
<1> DEFINE B == {s \in SUBSET S : ~\E g : IsSum(g, f, s)}
           V(s) == SumFunctionOnSet(f, s)
<1> SUFFICES ASSUME B # {} PROVE FALSE
  OBVIOUS
<1>1. PICK s \in B : \A t \in B : t \subseteq s => t = s
  <2> HIDE DEF B
  <2>1. B \subseteq SUBSET S
    BY DEF B
  <2> QED
    BY <2>1, MinimalSubset
<1> DEFINE G == [t \in SUBSET s |-> IF t = {} THEN 0
                     ELSE LET x == CHOOSE x \in t : TRUE IN f[x] + V(t \ {x})]
<1>a. ASSUME NEW u \in SUBSET s, u # s PROVE \E g : IsSum(g, f, u) /\ V(u) = g[u]
  <2>1. \E g : IsSum(g, f, u)
    BY <1>1, <1>a
  <2> DEFINE g == CHOOSE h : IsSum(h, f, u)
  <2>2. IsSum(g, f, u)
    BY <2>1
  <2> QED
    BY <2>2, SumDef
<1>2. ASSUME NEW u \in SUBSET s, u # s PROVE G[u] = V(u)
  <2>2. PICK g : IsSum(g, f, u) /\ V(u) = g[u]
    BY <1>2, <1>a
  <2>3. CASE u = {}
    BY <2>2, <2>3 DEF IsSum
  <2>4. CASE u # {}
    <3> DEFINE x == CHOOSE x \in u : TRUE
    <3>1. x \in u
      BY <2>4
    <3>2. g[u] = f[x] + g[u \ {x}]
      BY <2>2, <2>4 DEF IsSum
    <3>3. G[u] = f[x] + V(u \ {x})
      BY <2>4
    <3> HIDE DEF x
    <3>5. PICK h : IsSum(h, f, u \ {x}) /\ V(u \ {x}) = h[u \ {x}]
      <4>1. u \ {x} \in SUBSET s /\ u \ {x} # s
        BY <1>2, <3>1
      <4> QED
        BY <4>1, <1>a
    <3>6. IsFiniteSet(u)
      BY FS_Subset
    <3>7. g[u \ {x}] = h[u \ {x}]
      BY <2>2, <3>5, <3>6, SumUnique
    <3> QED
      BY <2>2, <3>2, <3>3, <3>5, <3>7
  <2> QED
    BY <2>3, <2>4
<1>3. IsSum(G, f, s)
  <2>1. ASSUME NEW t \in SUBSET s, t # {}
        PROVE  LET x == CHOOSE x \in t : TRUE IN G[t] = f[x] + G[t \ {x}]
    <3> DEFINE x == CHOOSE x \in t : TRUE
    <3>1. x \in t
      BY <2>1
    <3>2. G[t \ {x}] = V(t \ {x})
      <4> HIDE DEF x, G
      <4> QED  BY <1>2, <3>1
    <3> QED
      BY <2>1, <3>2
  <2> HIDE DEF V
  <2>2. G[{}] = 0 /\ G = [t \in SUBSET s |-> G[t]]
    OBVIOUS
  <2> HIDE DEF G
  <2> QED
    BY <2>1, <2>2 DEF IsSum
<1> QED
  BY <1>3

(* The sum of the empty set, and the sum of a set from that of the set without *)
(* one of its elements: the one chosen first, then any of them.                *)
LEMMA SumEmpty == ASSUME NEW f PROVE SumFunctionOnSet(f, {}) = 0
<1>1. \E g : IsSum(g, f, {})
  BY SumExists, FS_EmptySet
<1> QED
  BY <1>1, SumDef DEF IsSum

LEMMA SumFirst ==
    ASSUME NEW f, NEW S, IsFiniteSet(S), S # {}
    PROVE  \E x \in S : SumFunctionOnSet(f, S) = f[x] + SumFunctionOnSet(f, S \ {x})
<1> DEFINE x == CHOOSE x \in S : TRUE
           g == CHOOSE g : IsSum(g, f, S)
           h == CHOOSE h : IsSum(h, f, S \ {x})
<1>1. x \in S
  OBVIOUS
<1>2. IsFiniteSet(S \ {x})
  BY FS_Subset
<1>3. IsSum(g, f, S)
  BY SumExists
<1>4. g[S] = f[x] + g[S \ {x}]
  <2> HIDE DEF g
  <2> QED  BY <1>3 DEF IsSum
<1>5. IsSum(h, f, S \ {x})
  <2> HIDE DEF x
  <2> QED  BY <1>2, SumExists
<1>6. SumFunctionOnSet(f, S) = g[S] /\ SumFunctionOnSet(f, S \ {x}) = h[S \ {x}]
  BY SumDef
<1> HIDE DEF x, g, h
<1>7. g[S \ {x}] = h[S \ {x}]
  BY <1>3, <1>5, SumUnique, SMTT(40)
<1> QED
  BY <1>1, <1>4, <1>6, <1>7

LEMMA SumInt ==
    ASSUME NEW f, NEW S, IsFiniteSet(S), \A x \in S : f[x] \in Int
    PROVE  SumFunctionOnSet(f, S) \in Int
<1> DEFINE B == {s \in SUBSET S : SumFunctionOnSet(f, s) \notin Int}
<1> SUFFICES ASSUME B # {} PROVE FALSE
  OBVIOUS
<1>1. PICK s \in B : \A t \in B : t \subseteq s => t = s
  <2>1. B \subseteq SUBSET S
    OBVIOUS
  <2> HIDE DEF B
  <2> QED
    BY <2>1, MinimalSubset
<1>2. IsFiniteSet(s)
  BY FS_Subset
<1>3. s # {}
  BY SumEmpty
<1>4. PICK x \in s : SumFunctionOnSet(f, s) = f[x] + SumFunctionOnSet(f, s \ {x})
  BY <1>2, <1>3, SumFirst
<1>5. s \ {x} \notin B
  BY <1>1
<1> QED
  BY <1>4, <1>5

LEMMA SumRemove ==
    ASSUME NEW f, NEW S, IsFiniteSet(S), \A x \in S : f[x] \in Int, NEW y \in S
    PROVE  SumFunctionOnSet(f, S) = f[y] + SumFunctionOnSet(f, S \ {y})
<1> DEFINE V(s) == SumFunctionOnSet(f, s)
           B == {s \in SUBSET S : \E z \in s : V(s) # f[z] + V(s \ {z})}
<1> SUFFICES ASSUME B # {} PROVE FALSE
  OBVIOUS
<1>1. PICK s \in B : \A t \in B : t \subseteq s => t = s
  <2>1. B \subseteq SUBSET S
    OBVIOUS
  <2> HIDE DEF B
  <2> QED
    BY <2>1, MinimalSubset
<1>2. PICK z \in s : V(s) # f[z] + V(s \ {z})
  OBVIOUS
<1>3. PICK x \in s : V(s) = f[x] + V(s \ {x})
  BY FS_Subset, SumFirst
<1>4. x # z
  BY <1>2, <1>3
<1>5. s \ {x} \notin B /\ s \ {z} \notin B
  BY <1>1
<1>6. V(s \ {x}) = f[z] + V((s \ {x}) \ {z})
  BY <1>4, <1>5
<1>7. V(s \ {z}) = f[x] + V((s \ {z}) \ {x})
  BY <1>4, <1>5
<1>8. (s \ {x}) \ {z} = (s \ {z}) \ {x} /\ IsFiniteSet((s \ {z}) \ {x})
  BY FS_Subset
<1>9. f[x] \in Int /\ f[z] \in Int /\ V((s \ {z}) \ {x}) \in Int
  BY <1>8, SumInt
<1>10. PICK w \in Int : w = V((s \ {z}) \ {x}) /\ w = V((s \ {x}) \ {z})
  BY <1>8, <1>9
<1> HIDE DEF V, B
<1>11. V(s) = f[x] + (f[z] + w) /\ V(s \ {z}) = f[x] + w
  BY <1>3, <1>6, <1>7, <1>10
<1>12. V(s) = f[z] + V(s \ {z})
  BY <1>9, <1>10, <1>11
<1> QED
  BY <1>2, <1>12

(* Functions that agree on a set have the same sum there.                  *)
LEMMA SumSame ==
    ASSUME NEW f, NEW h, NEW S, IsFiniteSet(S), \A x \in S : f[x] \in Int /\ f[x] = h[x]
    PROVE  SumFunctionOnSet(f, S) = SumFunctionOnSet(h, S)
<1> DEFINE B == {s \in SUBSET S : SumFunctionOnSet(f, s) # SumFunctionOnSet(h, s)}
<1> SUFFICES ASSUME B # {} PROVE FALSE
  OBVIOUS
<1>1. PICK s \in B : \A t \in B : t \subseteq s => t = s
  <2>1. B \subseteq SUBSET S
    OBVIOUS
  <2> HIDE DEF B
  <2> QED
    BY <2>1, MinimalSubset
<1>2. IsFiniteSet(s)
  BY FS_Subset
<1>3. PICK x : x \in s
  BY SumEmpty
<1>4. /\ SumFunctionOnSet(f, s) = f[x] + SumFunctionOnSet(f, s \ {x})
      /\ SumFunctionOnSet(h, s) = h[x] + SumFunctionOnSet(h, s \ {x})
  BY <1>2, <1>3, SumRemove
<1>5. s \ {x} \notin B
  BY <1>1, <1>3
<1> QED
  BY <1>3, <1>4, <1>5

(* A change of one term changes the sum by as much.                        *)
LEMMA SumChange ==
    ASSUME NEW f, NEW h, NEW S, IsFiniteSet(S), NEW y \in S,
           \A x \in S : f[x] \in Int /\ h[x] \in Int,
           \A x \in S \ {y} : h[x] = f[x]
    PROVE  SumFunctionOnSet(h, S) = SumFunctionOnSet(f, S) - f[y] + h[y]
<1>1. IsFiniteSet(S \ {y})
  BY FS_Subset
<1>2. SumFunctionOnSet(f, S \ {y}) = SumFunctionOnSet(h, S \ {y})
  BY <1>1, SumSame
<1>3. /\ SumFunctionOnSet(f, S) = f[y] + SumFunctionOnSet(f, S \ {y})
      /\ SumFunctionOnSet(h, S) = h[y] + SumFunctionOnSet(h, S \ {y})
  BY SumRemove
<1>4. SumFunctionOnSet(f, S \ {y}) \in Int
  BY <1>1, SumInt
<1> QED
  BY <1>2, <1>3, <1>4

(* Adding a function adds its sum.                                          *)
LEMMA SumPlus ==
    ASSUME NEW f, NEW d, NEW h, NEW S, IsFiniteSet(S),
           \A x \in S : f[x] \in Int /\ d[x] \in Int /\ h[x] = f[x] + d[x]
    PROVE  SumFunctionOnSet(h, S) = SumFunctionOnSet(f, S) + SumFunctionOnSet(d, S)
<1> DEFINE F(s) == SumFunctionOnSet(f, s)
           D(s) == SumFunctionOnSet(d, s)
           H(s) == SumFunctionOnSet(h, s)
           B == {s \in SUBSET S : H(s) # F(s) + D(s)}
<1> SUFFICES ASSUME B # {} PROVE FALSE
  OBVIOUS
<1>1. PICK s \in B : \A t \in B : t \subseteq s => t = s
  <2>1. B \subseteq SUBSET S
    OBVIOUS
  <2> HIDE DEF B
  <2> QED
    BY <2>1, MinimalSubset
<1>2. IsFiniteSet(s) /\ \A x \in s : IsFiniteSet(s \ {x})
  BY FS_Subset
<1>3. PICK x : x \in s
  <2>1. F({}) = 0 /\ D({}) = 0 /\ H({}) = 0
    BY SumEmpty
  <2>2. H(s) # F(s) + D(s)
    OBVIOUS
  <2> HIDE DEF F, D, H, B
  <2>3. s # {}
    BY <2>1, <2>2
  <2> QED
    BY <2>3
<1>4. /\ F(s) = f[x] + F(s \ {x}) /\ D(s) = d[x] + D(s \ {x})
      /\ H(s) = h[x] + H(s \ {x})
  BY <1>2, <1>3, SumRemove
<1>5. F(s \ {x}) \in Int /\ D(s \ {x}) \in Int
  BY <1>2, <1>3, SumInt
<1>6. H(s \ {x}) = F(s \ {x}) + D(s \ {x})
  <2>1. s \ {x} \notin B
    BY <1>1, <1>3
  <2> QED
    BY <2>1
<1>7. H(s) # F(s) + D(s)
  OBVIOUS
<1>8. f[x] \in Int /\ d[x] \in Int /\ h[x] = f[x] + d[x]
  BY <1>3
<1> HIDE DEF F, D, H, B
<1> QED
  BY <1>4, <1>5, <1>6, <1>7, <1>8

(* Terms that are at most c have a sum of at most c times their number.      *)
LEMMA SumBound ==
    ASSUME NEW f, NEW S, IsFiniteSet(S), NEW c \in Nat, \A x \in S : f[x] \in Int /\ f[x] <= c
    PROVE  SumFunctionOnSet(f, S) <= c * Cardinality(S)
<1> DEFINE V(s) == SumFunctionOnSet(f, s)
           B == {s \in SUBSET S : ~(V(s) <= c * Cardinality(s))}
<1> SUFFICES ASSUME B # {} PROVE FALSE
  OBVIOUS
<1>1. PICK s \in B : \A t \in B : t \subseteq s => t = s
  <2>1. B \subseteq SUBSET S
    OBVIOUS
  <2> HIDE DEF B
  <2> QED
    BY <2>1, MinimalSubset
<1>2. IsFiniteSet(s) /\ \A x \in s : IsFiniteSet(s \ {x})
  BY FS_Subset
<1>3. PICK x : x \in s
  <2>1. V({}) = 0 /\ Cardinality({}) = 0
    BY SumEmpty, FS_EmptySet
  <2> HIDE DEF V
  <2> QED
    BY <2>1
<1>4. V(s) = f[x] + V(s \ {x}) /\ V(s \ {x}) \in Int
  BY <1>2, <1>3, SumRemove, SumInt
<1>5. Cardinality(s) = Cardinality(s \ {x}) + 1 /\ Cardinality(s \ {x}) \in Nat
  BY <1>2, <1>3, FS_RemoveElement, FS_CardinalityType
<1>6. V(s \ {x}) <= c * Cardinality(s \ {x})
  <2>1. s \ {x} \notin B
    BY <1>1, <1>3
  <2> QED
    BY <2>1
<1>7. f[x] \in Int /\ f[x] <= c /\ ~(V(s) <= c * Cardinality(s))
  BY <1>3
<1> HIDE DEF V, B
<1>8. c * (Cardinality(s \ {x}) + 1) = c * Cardinality(s \ {x}) + c
  BY <1>5
<1> QED
  BY <1>4, <1>5, <1>6, <1>7, <1>8

(* Terms that are not negative have a sum that is at least each of them.    *)
LEMMA SumNat ==
    ASSUME NEW f, NEW S, IsFiniteSet(S), \A x \in S : f[x] \in Nat
    PROVE  /\ SumFunctionOnSet(f, S) \in Nat
           /\ \A x \in S : f[x] <= SumFunctionOnSet(f, S)
<1> DEFINE V(s) == SumFunctionOnSet(f, s)
           B == {s \in SUBSET S : V(s) \notin Nat}
<1>1. B = {}
  <2> SUFFICES ASSUME B # {} PROVE FALSE
    OBVIOUS
  <2>1. PICK s \in B : \A t \in B : t \subseteq s => t = s
    <3>1. B \subseteq SUBSET S
      OBVIOUS
    <3> HIDE DEF B
    <3> QED
      BY <3>1, MinimalSubset
  <2>2. PICK x : x \in s
    BY SumEmpty
  <2>3. V(s) = f[x] + V(s \ {x})
    BY <2>2, FS_Subset, SumRemove
  <2>4. s \ {x} \notin B
    BY <2>1, <2>2
  <2> QED
    BY <2>2, <2>3, <2>4
<1>2. V(S) \in Nat /\ \A x \in S : V(S \ {x}) \in Nat
  BY <1>1
<1>3. \A x \in S : V(S) = f[x] + V(S \ {x})
  BY SumRemove
<1>4. ASSUME NEW x \in S PROVE f[x] <= V(S)
  <2>1. V(S) = f[x] + V(S \ {x}) /\ V(S \ {x}) \in Nat /\ f[x] \in Nat
    BY <1>2, <1>3
  <2> HIDE DEF V
  <2> QED
    BY <2>1
<1> QED
  BY <1>2, <1>4

(* The same for the sum of a whole function.                               *)
LEMMA SumOfInts ==
    ASSUME NEW S, IsFiniteSet(S), NEW f \in [S -> Int]
    PROVE  SumFunction(f) \in Int
BY SumInt DEF SumFunction

LEMMA SumOfNats ==
    ASSUME NEW S, IsFiniteSet(S), NEW f \in [S -> Nat]
    PROVE  /\ SumFunction(f) \in Nat
           /\ \A x \in S : f[x] <= SumFunction(f)
BY SumNat DEF SumFunction

LEMMA SumOfNone ==
    ASSUME NEW f, DOMAIN f = {}
    PROVE  SumFunction(f) = 0
BY SumEmpty DEF SumFunction

LEMMA SumChanged ==
    ASSUME NEW S, IsFiniteSet(S), NEW f \in [S -> Int], NEW h \in [S -> Int], NEW y \in S,
           \A x \in S \ {y} : h[x] = f[x]
    PROVE  SumFunction(h) = SumFunction(f) - f[y] + h[y]
BY SumChange DEF SumFunction

LEMMA SumAdded ==
    ASSUME NEW S, IsFiniteSet(S), NEW f \in [S -> Int], NEW d \in [S -> Int],
           NEW h \in [S -> Int], \A x \in S : h[x] = f[x] + d[x]
    PROVE  SumFunction(h) = SumFunction(f) + SumFunction(d)
BY SumPlus DEF SumFunction

LEMMA SumOfBounded ==
    ASSUME NEW S, IsFiniteSet(S), NEW f \in [S -> Int], NEW c \in Nat,
           \A x \in S : f[x] <= c
    PROVE  SumFunction(f) <= c * Cardinality(S)
BY SumBound DEF SumFunction

LEMMA SumOfZeros ==
    ASSUME NEW S, IsFiniteSet(S), NEW f \in [S -> Int], \A x \in S : f[x] = 0
    PROVE  SumFunction(f) = 0
<1>1. SumFunction(f) = SumFunction(f) + SumFunction(f)
  BY SumAdded
<1>2. PICK n \in Int : n = SumFunction(f)
  BY SumOfInts
<1>3. n = n + n
  BY <1>1, <1>2
<1>4. n = 0
  BY <1>3
<1> QED
  BY <1>2, <1>4

(* A function that is zero but for one place.                              *)
LEMMA SumOfOne ==
    ASSUME NEW S, IsFiniteSet(S), NEW f \in [S -> Int], NEW y \in S,
           \A x \in S \ {y} : f[x] = 0
    PROVE  SumFunction(f) = f[y]
<1> DEFINE z == [x \in S |-> 0]
<1>1. z \in [S -> Int] /\ SumFunction(z) = 0
  BY SumOfZeros
<1>2. SumFunction(f) = SumFunction(z) - z[y] + f[y]
  BY <1>1, SumChanged
<1> QED
  BY <1>1, <1>2

(* Larger terms have a larger sum.                                         *)
LEMMA SumGrows ==
    ASSUME NEW S, IsFiniteSet(S), NEW f \in [S -> Int], NEW h \in [S -> Int],
           \A x \in S : f[x] <= h[x]
    PROVE  SumFunction(f) <= SumFunction(h)
<1> DEFINE d == [x \in S |-> h[x] - f[x]]
<1>1. d \in [S -> Nat] /\ d \in [S -> Int]
  OBVIOUS
<1>2. SumFunction(h) = SumFunction(f) + SumFunction(d)
  BY <1>1, SumAdded
<1> HIDE DEF d
<1>3. SumFunction(d) \in Nat /\ SumFunction(f) \in Int
  BY <1>1, SumOfNats, SumOfInts
<1> QED
  BY <1>2, <1>3

(* A part of a set and the rest of it.                                     *)
LEMMA SumSplit ==
    ASSUME NEW S, IsFiniteSet(S), NEW f, \A x \in S : f[x] \in Int, NEW A \in SUBSET S
    PROVE  SumFunctionOnSet(f, S) = SumFunctionOnSet(f, A) + SumFunctionOnSet(f, S \ A)
<1> DEFINE V(s) == SumFunctionOnSet(f, s)
           B == {s \in SUBSET A : V(S) # V(s) + V(S \ s)}
<1>1. \A s \in SUBSET S : IsFiniteSet(s) /\ V(s) \in Int
  BY FS_Subset, SumInt
<1> SUFFICES ASSUME B # {} PROVE FALSE
  OBVIOUS
<1>2. PICK s \in B : \A t \in B : t \subseteq s => t = s
  <2>1. B \subseteq SUBSET A /\ IsFiniteSet(A)
    BY <1>1
  <2> HIDE DEF B
  <2> QED
    BY <2>1, MinimalSubset
<1>3. V(S) # V(s) + V(S \ s) /\ V(S) \in Int
  BY <1>1
<1>4. V({}) = 0 /\ S \ {} = S
  BY SumEmpty
<1>5. PICK x : x \in s
  <2>1. ASSUME s = {} PROVE FALSE
    <3>1. V(s) = 0 /\ V(S \ s) = V(S)
      BY <1>4, <2>1
    <3> HIDE DEF V, B
    <3> QED
      BY <1>3, <3>1
  <2> QED
    BY <2>1
<1>6. V(S) = V(s \ {x}) + V(S \ (s \ {x}))
  BY <1>2, <1>5
<1>7. V(s) = f[x] + V(s \ {x})
  BY <1>1, <1>5, SumRemove
<1>8. V(S \ (s \ {x})) = f[x] + V((S \ (s \ {x})) \ {x})
  <2> DEFINE U == S \ (s \ {x})
  <2>1. x \in U /\ IsFiniteSet(U) /\ \A y \in U : f[y] \in Int
    BY <1>1, <1>5
  <2> HIDE DEF U
  <2>2. V(U) = f[x] + V(U \ {x})
    BY <2>1, SumRemove
  <2> QED
    BY <2>2 DEF U
<1>9. (S \ (s \ {x})) \ {x} = S \ s
  BY <1>5
<1>10. V(s \ {x}) \in Int /\ V(S \ s) \in Int /\ f[x] \in Int
  BY <1>1, <1>5
<1>11. V(S \ (s \ {x})) = f[x] + V(S \ s)
  BY <1>8, <1>9
<1> HIDE DEF V, B
<1>12. V(S) = V(s) + V(S \ s)
  BY <1>6, <1>7, <1>10, <1>11
<1> QED
  BY <1>3, <1>12

(* Terms under other names have the same sum.                              *)
LEMMA SumRenamed ==
    ASSUME NEW S, NEW T, IsFiniteSet(S), IsFiniteSet(T),
           NEW f \in [S -> Int], NEW g \in [T -> Int], NEW p \in [T -> S],
           \A t, u \in T : p[t] = p[u] => t = u,
           \A t \in T : g[t] = f[p[t]]
    PROVE  SumFunction(g) = SumFunctionOnSet(f, {p[t] : t \in T})
<1> DEFINE V(s) == SumFunctionOnSet(g, s)
           W(s) == SumFunctionOnSet(f, {p[t] : t \in s})
           B == {s \in SUBSET T : V(s) # W(s)}
<1> SUFFICES ASSUME B # {} PROVE FALSE
  <2>1. T \in SUBSET T
    OBVIOUS
  <2> QED
    BY <2>1 DEF SumFunction
<1>2. PICK s \in B : \A t \in B : t \subseteq s => t = s
  <2>1. B \subseteq SUBSET T
    OBVIOUS
  <2> HIDE DEF B
  <2> QED
    BY <2>1, MinimalSubset
<1>3. PICK x : x \in s
  <2>1. {p[t] : t \in {}} = {}
    OBVIOUS
  <2>2. V({}) = 0 /\ W({}) = 0
    BY <2>1, SumEmpty
  <2> QED
    BY <2>2
<1>4. IsFiniteSet(s)
  BY FS_Subset
<1>5. V(s) = g[x] + V(s \ {x})
  BY <1>3, <1>4, SumRemove
<1>6. {p[t] : t \in s} \subseteq S /\ p[x] \in {p[t] : t \in s} /\ IsFiniteSet({p[t] : t \in s})
  <2>1. {p[t] : t \in s} \subseteq S /\ p[x] \in {p[t] : t \in s}
    BY <1>3
  <2> QED
    BY <2>1, FS_Subset
<1>7. {p[t] : t \in s} \ {p[x]} = {p[t] : t \in s \ {x}}
  BY <1>3
<1>8. W(s) = f[p[x]] + W(s \ {x})
  BY <1>6, <1>7, SumRemove, SMTT(40)
<1>9. V(s \ {x}) = W(s \ {x})
  BY <1>2, <1>3
<1>10. V(s) # W(s) /\ g[x] = f[p[x]]
  BY <1>3
<1> HIDE DEF V, W, B
<1> QED
  BY <1>5, <1>8, <1>9, <1>10

(* Every item of R is credited to one place of N: the credits of all       *)
(* places add up to those of all items.                                    *)
LEMMA SumExchange ==
    ASSUME NEW N, NEW R, IsFiniteSet(N), IsFiniteSet(R),
           NEW w \in [R -> N], NEW d \in [R -> Int]
    PROVE  SumFunction([n \in N |-> SumFunction([r \in R |-> IF w[r] = n THEN d[r] ELSE 0])])
               = SumFunction(d)
<1> DEFINE h == [n \in N |-> [r \in R |-> IF w[r] = n THEN d[r] ELSE 0]]
           c(s) == [n \in N |-> SumFunctionOnSet(h[n], s)]
           B == {s \in SUBSET R : SumFunction(c(s)) # SumFunctionOnSet(d, s)}
<1>1. \A n \in N : h[n] \in [R -> Int]
  OBVIOUS
<1>2. \A s \in SUBSET R : IsFiniteSet(s)
  BY FS_Subset
<1>3. \A s \in SUBSET R : c(s) \in [N -> Int]
  <2> SUFFICES ASSUME NEW s \in SUBSET R, NEW n \in N PROVE SumFunctionOnSet(h[n], s) \in Int
    OBVIOUS
  <2>1. \A r \in s : h[n][r] \in Int
    BY <1>1
  <2> HIDE DEF h
  <2> QED
    BY <1>2, <2>1, SumInt
<1>4. B = {}
  <2> SUFFICES ASSUME B # {} PROVE FALSE
    OBVIOUS
  <2>1. PICK s \in B : \A t \in B : t \subseteq s => t = s
    <3>1. B \subseteq SUBSET R
      OBVIOUS
    <3> HIDE DEF B
    <3> QED
      BY <3>1, MinimalSubset
  <2>2. PICK x : x \in s
    <3>1. \A n \in N : c({})[n] = 0
      BY SumEmpty
    <3>2. SumFunction(c({})) = 0
      <4> HIDE DEF c
      <4> QED  BY <1>3, <3>1, SumOfZeros
    <3>3. SumFunctionOnSet(d, {}) = 0
      BY SumEmpty
    <3> QED
      BY <3>2, <3>3
  <2> DEFINE e == [n \in N |-> h[n][x]]
  <2>3. x \in R /\ e \in [N -> Int] /\ \A n \in N \ {w[x]} : e[n] = 0
    BY <2>2
  <2>4. SumFunction(e) = d[x]
    <3>1. w[x] \in N /\ e[w[x]] = d[x]
      BY <2>3
    <3> HIDE DEF e
    <3> QED  BY <2>3, <3>1, SumOfOne
  <2>5. \A n \in N : c(s)[n] = c(s \ {x})[n] + e[n]
    <3> TAKE n \in N
    <3>1. IsFiniteSet(s) /\ IsFiniteSet(s \ {x}) /\ \A r \in s : h[n][r] \in Int
      BY <1>1, <1>2
    <3> HIDE DEF h
    <3>2. SumFunctionOnSet(h[n], s) = h[n][x] + SumFunctionOnSet(h[n], s \ {x})
      BY <2>2, <3>1, SumRemove
    <3>3. SumFunctionOnSet(h[n], s \ {x}) \in Int /\ h[n][x] \in Int
      BY <2>2, <3>1, SumInt
    <3> QED
      BY <3>2, <3>3
  <2>6. SumFunction(c(s)) = SumFunction(c(s \ {x})) + SumFunction(e)
    <3>1. s \in SUBSET R /\ s \ {x} \in SUBSET R
      OBVIOUS
    <3> HIDE DEF c, e, h, B
    <3>2. c(s) \in [N -> Int] /\ c(s \ {x}) \in [N -> Int]
      BY <1>3, <3>1
    <3>3. PICK p, q : p = c(s) /\ q = c(s \ {x})
      OBVIOUS
    <3>4. p \in [N -> Int] /\ q \in [N -> Int] /\ e \in [N -> Int]
      BY <2>3, <3>2, <3>3
    <3>5. \A n \in N : p[n] = q[n] + e[n]
      BY <2>5, <3>3
    <3>6. SumFunction(p) = SumFunction(q) + SumFunction(e)
      BY <3>4, <3>5, SumAdded
    <3> QED
      BY <3>3, <3>6
  <2>7. SumFunctionOnSet(d, s) = d[x] + SumFunctionOnSet(d, s \ {x})
    BY <1>2, <2>2, SumRemove
  <2>8. SumFunction(c(s \ {x})) = SumFunctionOnSet(d, s \ {x})
    <3>1. s \ {x} \notin B /\ s \ {x} \in SUBSET R
      <4> HIDE DEF c
      <4> QED  BY <2>1, <2>2
    <3> HIDE DEF c
    <3> QED  BY <3>1
  <2>9. SumFunctionOnSet(d, s \ {x}) \in Int /\ d[x] \in Int
    BY <1>2, <2>2, SumInt
  <2>10. SumFunction(c(s)) # SumFunctionOnSet(d, s)
    OBVIOUS
  <2> HIDE DEF c, e, B
  <2> QED
    BY <2>4, <2>6, <2>7, <2>8, <2>9, <2>10
<1>5. SumFunction(c(R)) = SumFunctionOnSet(d, R)
  BY <1>4
<1>6. \A n \in N : c(R)[n] = SumFunction([r \in R |-> IF w[r] = n THEN d[r] ELSE 0])
  BY DEF SumFunction
<1> QED
  BY <1>5, <1>6 DEF SumFunction

----------------------------------------------------------------------------
(* Folds of a step over a finite set, and recursion along an interval.     *)

IsFold(g, f, base, S) ==
    g = [s \in SUBSET S |-> IF s = {} THEN base
                            ELSE LET x == CHOOSE x \in s : TRUE IN f[x, g[s \ {x}]]]

\* The members of S in an order that c gives: c[s] is the last one of s.
Picks(c, S) == \A s \in SUBSET S : s # {} => c[s] \in s

IsFoldBy(g, c, f, base, S) ==
    g = [s \in SUBSET S |-> IF s = {} THEN base ELSE LET x == c[s] IN f[x, g[s \ {x}]]]

LEMMA FoldUnique ==
    ASSUME NEW c, NEW f, NEW base, NEW S, IsFiniteSet(S), Picks(c, S), NEW T, NEW g, NEW h,
           IsFoldBy(g, c, f, base, S), IsFoldBy(h, c, f, base, T),
           NEW u, u \subseteq S, u \subseteq T
    PROVE  g[u] = h[u]
<1> DEFINE B == {s \in SUBSET S : s \subseteq T /\ g[s] # h[s]}
<1> SUFFICES ASSUME B # {} PROVE FALSE
  OBVIOUS
<1>1. PICK s \in B : \A t \in B : t \subseteq s => t = s
  <2> HIDE DEF B
  <2>1. B \subseteq SUBSET S
    BY DEF B
  <2> QED
    BY <2>1, MinimalSubset
<1>2. CASE s = {}
  BY <1>2 DEF IsFoldBy
<1>3. CASE s # {}
  <2> DEFINE x == c[s]
  <2>1. x \in s
    BY <1>3 DEF Picks
  <2>2. g[s] = f[x, g[s \ {x}]] /\ h[s] = f[x, h[s \ {x}]]
    BY <1>3 DEF IsFoldBy
  <2> HIDE DEF x
  <2>3. g[s \ {x}] = h[s \ {x}]
    BY <1>1, <2>1
  <2> QED
    BY <2>2, <2>3
<1> QED
  BY <1>2, <1>3

LEMMA FoldByExists ==
    ASSUME NEW c, NEW f, NEW base, NEW S, IsFiniteSet(S), Picks(c, S)
    PROVE  \E g : IsFoldBy(g, c, f, base, S)
<1> DEFINE B == {s \in SUBSET S : ~\E g : IsFoldBy(g, c, f, base, s)}
           V(s) == (CHOOSE g : IsFoldBy(g, c, f, base, s))[s]
<1> SUFFICES ASSUME B # {} PROVE FALSE
  OBVIOUS
<1>1. PICK s \in B : \A t \in B : t \subseteq s => t = s
  <2> HIDE DEF B
  <2>1. B \subseteq SUBSET S
    BY DEF B
  <2> QED
    BY <2>1, MinimalSubset
<1> DEFINE R(t) == IF t = {} THEN base
                   ELSE LET x == c[t] IN f[x, V(t \ {x})]
           G == [t \in SUBSET s |-> R(t)]
<1>2. ASSUME NEW u \in SUBSET s, u # s
      PROVE  \E g : IsFoldBy(g, c, f, base, u) /\ V(u) = g[u]
  <2>1. \E g : IsFoldBy(g, c, f, base, u)
    BY <1>1, <1>2
  <2> DEFINE g == CHOOSE h : IsFoldBy(h, c, f, base, u)
  <2>2. IsFoldBy(g, c, f, base, u)
    BY <2>1
  <2> QED
    BY <2>2
<1>3. ASSUME NEW u \in SUBSET s, u # s PROVE G[u] = V(u)
  <2>1. PICK g : IsFoldBy(g, c, f, base, u) /\ V(u) = g[u]
    BY <1>2, <1>3
  <2> HIDE DEF V
  <2>2. CASE u = {}
    BY <2>1, <2>2 DEF IsFoldBy
  <2>3. CASE u # {}
    <3> DEFINE x == c[u]
    <3>1. x \in u
      BY <2>3 DEF Picks
    <3>2. g[u] = f[x, g[u \ {x}]]
      BY <2>1, <2>3 DEF IsFoldBy
    <3>3. G[u] = f[x, V(u \ {x})]
      BY <2>3
    <3> HIDE DEF x
    <3>4. PICK h : IsFoldBy(h, c, f, base, u \ {x}) /\ V(u \ {x}) = h[u \ {x}]
      <4>1. u \ {x} \in SUBSET s /\ u \ {x} # s
        BY <1>3, <3>1
      <4> QED
        BY <4>1, <1>2
    <3>5. IsFiniteSet(u)
      BY FS_Subset
    <3>6. Picks(c, u) /\ u \ {x} \subseteq u
      BY DEF Picks
    <3>7. g[u \ {x}] = h[u \ {x}]
      BY <2>1, <3>4, <3>5, <3>6, FoldUnique
    <3> QED
      BY <2>1, <3>2, <3>3, <3>4, <3>7
  <2> QED
    BY <2>2, <2>3
<1>4. IsFoldBy(G, c, f, base, s)
  <2> HIDE DEF V
  <2>1. ASSUME NEW t \in SUBSET s, t # {}
        PROVE  LET x == c[t] IN G[t] = f[x, G[t \ {x}]]
    <3> DEFINE x == c[t]
    <3>1. x \in t
      BY <2>1 DEF Picks
    <3>2. G[t \ {x}] = V(t \ {x})
      <4> HIDE DEF x, G
      <4> QED  BY <1>3, <3>1
    <3> QED
      BY <2>1, <3>2
  <2>2. G[{}] = base
    OBVIOUS
  <2>3. G = [t \in SUBSET s |-> G[t]]
    <3> HIDE DEF R
    <3> QED
      OBVIOUS
  <2> HIDE DEF G
  <2> QED
    BY <2>1, <2>2, <2>3 DEF IsFoldBy
<1> QED
  BY <1>4

LEMMA FoldExists ==
    ASSUME NEW f, NEW base, NEW S, IsFiniteSet(S)
    PROVE  \E g : IsFold(g, f, base, S)
<1>1. PICK c : c = [s \in SUBSET S |-> CHOOSE x \in s : TRUE]
  OBVIOUS
<1>2. Picks(c, S)
  BY <1>1 DEF Picks
<1>3. PICK g : IsFoldBy(g, c, f, base, S)
  BY <1>2, FoldByExists
<1>4. IsFold(g, f, base, S)
  BY <1>1, <1>3 DEF IsFold, IsFoldBy
<1> QED
  BY <1>4

(* A function defined by recursion along an interval.                      *)
Runs(g, f, base, n, L) ==
    g \in [0..n -> L] /\ g[0] = base /\ \A i \in 1..n : g[i] = f[i][g[i - 1]]

LEMMA IntervalRecursion ==
    ASSUME NEW n \in Nat, NEW L, NEW base \in L, NEW f \in [1..n -> [L -> L]]
    PROVE  \E g : Runs(g, f, base, n, L)
<1> DEFINE Good(k) == \E g \in [0..k -> L] :
                g = [i \in 0..k |-> IF i = 0 THEN base ELSE f[i][g[i - 1]]]
           B == {k \in 0..n : ~Good(k)}
<1>1. Good(0)
  <2> DEFINE g == [i \in 0..0 |-> base]
  <2>1. g \in [0..0 -> L]
    OBVIOUS
  <2>2. \A i \in 0..0 : g[i] = IF i = 0 THEN base ELSE f[i][g[i - 1]]
    OBVIOUS
  <2> HIDE DEF g
  <2> QED
    BY <2>1, <2>2
<1>2. ASSUME NEW k \in 1..n, Good(k - 1) PROVE Good(k)
  <2>1. PICK g \in [0..(k - 1) -> L] :
            g = [i \in 0..(k - 1) |-> IF i = 0 THEN base ELSE f[i][g[i - 1]]]
    BY <1>2
  <2> HIDE DEF Good, B
  <2> DEFINE h == [i \in 0..k |-> IF i < k THEN g[i] ELSE f[k][g[k - 1]]]
  <2>2. \A i \in 0..k : i < k => i \in 0..(k - 1)
    OBVIOUS
  <2>3. k - 1 \in 0..(k - 1) /\ k \in 0..k
    OBVIOUS
  <2>4. h \in [0..k -> L]
    BY <2>2, <2>3
  <2>5. \A i \in 0..k : h[i] = IF i = 0 THEN base ELSE f[i][h[i - 1]]
    <3> TAKE i \in 0..k
    <3>1. CASE i = k
      <4>1. k # 0 /\ k - 1 < k /\ k - 1 \in 0..k
        OBVIOUS
      <4>2. ~(k < k) /\ k \in 0..k
        OBVIOUS
      <4>3. h[k] = f[k][g[k - 1]]
        BY <4>2
      <4>4. h[k - 1] = g[k - 1]
        BY <4>1
      <4> HIDE DEF h
      <4> QED
        BY <3>1, <4>1, <4>3, <4>4
    <3>2. CASE i = 0
      <4>1. 0 \in 0..(k - 1) /\ 0 < k /\ 0 \in 0..k
        OBVIOUS
      <4>2. h[0] = g[0] /\ g[0] = base
        BY <2>1, <4>1
      <4> HIDE DEF h
      <4> QED
        BY <3>2, <4>2
    <3>3. CASE i # k /\ i # 0
      <4>1. i \in 0..(k - 1) /\ i - 1 \in 0..k /\ i - 1 < k /\ i < k
        BY <3>3
      <4>2. g[i] = f[i][g[i - 1]]
        BY <2>1, <3>3, <4>1
      <4> QED
        BY <3>3, <4>1, <4>2
    <3> QED
      BY <3>1, <3>2, <3>3
  <2> HIDE DEF h
  <2>6. h = [i \in 0..k |-> IF i = 0 THEN base ELSE f[i][h[i - 1]]]
    BY <2>4, <2>5
  <2> QED
    BY <2>4, <2>6 DEF Good
<1>0. 0 \in 0..n /\ \A i \in 1..n : i \in 0..n /\ i # 0
  OBVIOUS
<1> SUFFICES Good(n)
  <2> SUFFICES ASSUME NEW g \in [0..n -> L],
                      g = [i \in 0..n |-> IF i = 0 THEN base ELSE f[i][g[i - 1]]]
               PROVE  g[0] = base /\ \A i \in 1..n : g[i] = f[i][g[i - 1]]
    BY DEF Runs
  <2> HIDE DEF Good, B
  <2> QED
    BY <1>0
<1> HIDE DEF Good
<1> SUFFICES ASSUME B # {} PROVE FALSE
  OBVIOUS
<1>3. PICK k \in B : \A m \in B : k <= m
  <2>1. B \subseteq Nat
    OBVIOUS
  <2> HIDE DEF B
  <2> QED
    BY <2>1, LeastExists
<1>4. k \in 1..n /\ k - 1 \in 0..n
  BY <1>1
<1>5. k - 1 \notin B
  BY <1>3, <1>4
<1> QED
  BY <1>2, <1>4, <1>5


(***************************************************************************)
(* Quotients of natural numbers, and the larger and smaller of two.        *)
(***************************************************************************)
LEMMA Quotient ==
    ASSUME NEW a \in Nat, NEW b \in Nat \ {0}
    PROVE  /\ a \div b \in Nat
           /\ b * (a \div b) <= a
           /\ a < b * (a \div b) + b
OBVIOUS

LEMMA QuotientAtLeast ==
    ASSUME NEW a \in Nat, NEW b \in Nat \ {0}, NEW q \in Nat, b * q <= a
    PROVE  q <= a \div b
<1> DEFINE d == a \div b
<1>1. d \in Nat /\ a < b * d + b
  BY Quotient
<1>2. SUFFICES ASSUME d < q PROVE FALSE
  BY <1>1
<1> HIDE DEF d
<1>3. PICK e \in Nat : q = d + 1 + e
  <2>1. q - d - 1 \in Nat /\ q = d + 1 + (q - d - 1)
    BY <1>1, <1>2
  <2> QED
    BY <2>1
<1>4. b * q = b * d + b + b * e /\ b * e \in Nat /\ b * d \in Nat
  BY <1>1, <1>3
<1> QED
  BY <1>1, <1>4

LEMMA QuotientAtMost ==
    ASSUME NEW a \in Nat, NEW b \in Nat \ {0}, NEW q \in Nat, a <= b * q
    PROVE  a \div b <= q
<1> DEFINE d == a \div b
<1>1. d \in Nat /\ b * d <= a
  BY Quotient
<1>2. SUFFICES ASSUME q < d PROVE FALSE
  BY <1>1
<1> HIDE DEF d
<1>3. PICK e \in Nat : d = q + 1 + e
  <2>1. d - q - 1 \in Nat /\ d = q + 1 + (d - q - 1)
    BY <1>1, <1>2
  <2> QED
    BY <2>1
<1>4. b * d = b * q + b + b * e /\ b * e \in Nat /\ b * q \in Nat
  BY <1>1, <1>3
<1> QED
  BY <1>1, <1>4

LEMMA MaxOfTwo ==
    ASSUME NEW m \in Int, NEW n \in Int
    PROVE  Max({m, n}) = IF m >= n THEN m ELSE n
BY DEF Max

LEMMA MinOfTwo ==
    ASSUME NEW m \in Int, NEW n \in Int
    PROVE  Min({m, n}) = IF m <= n THEN m ELSE n
BY DEF Min

LEMMA MinOfThree ==
    ASSUME NEW k \in Int, NEW m \in Int, NEW n \in Int
    PROVE  Min({k, m, n}) \in Int /\ Min({k, m, n}) <= n
<1>1. \E x \in {k, m, n} : \A y \in {k, m, n} : x <= y
  OBVIOUS
<1>2. PICK z : z = Min({k, m, n})
  OBVIOUS
<1>3. z \in {k, m, n} /\ \A y \in {k, m, n} : z <= y
  BY <1>1, <1>2 DEF Min
<1> QED
  BY <1>2, <1>3

(* Of finitely many subsets, one is minimal. *)
LEMMA MinimalIndex ==
    ASSUME NEW X, IsFiniteSet(X), X # {}, NEW U, U \in [X -> SUBSET X]
    PROVE  \E m \in X : \A y \in X : U[y] \subseteq U[m] => U[y] = U[m]
<1> DEFINE B == {U[x] : x \in X}
<1>1. B \subseteq SUBSET X
  OBVIOUS
<1>2. B # {}
  OBVIOUS
<1>3. PICK s \in B : \A t \in B : t \subseteq s => t = s
  <2> HIDE DEF B
  <2> QED
    BY <1>1, <1>2, MinimalSubset
<1>4. PICK m \in X : s = U[m]
  OBVIOUS
<1>5. ASSUME NEW y \in X, U[y] \subseteq U[m] PROVE U[y] = U[m]
  <2>1. U[y] \in B
    OBVIOUS
  <2> HIDE DEF B
  <2> QED
    BY <1>3, <1>4, <1>5, <2>1
<1> QED
  BY <1>5

(* A finite set of integers has a maximum. *)
LEMMA FiniteMaximum ==
    ASSUME NEW X, IsFiniteSet(X), \A x \in X : x \in Int, X # {}
    PROVE  Max(X) \in X /\ \A n \in X : n <= Max(X)
<1>1. PICK U : U = [x \in X |-> {y \in X : y > x}]
  OBVIOUS
<1>2. U \in [X -> SUBSET X]
  BY <1>1
<1>3. PICK m \in X : \A y \in X : U[y] \subseteq U[m] => U[y] = U[m]
  BY <1>2, MinimalIndex
<1>4. ASSUME NEW y \in X, y > m PROVE FALSE
  <2>1. U[y] \subseteq U[m]
    <3> SUFFICES ASSUME NEW x \in U[y] PROVE x \in U[m]
      OBVIOUS
    <3>1. x \in X /\ x > y
      BY <1>1
    <3>2. x \in Int /\ y \in Int /\ m \in Int
      BY <3>1
    <3>3. x > m
      BY <1>4, <3>1, <3>2
    <3> QED
      BY <1>1, <3>1, <3>3
  <2>2. y \in U[m] /\ y \notin U[y]
    BY <1>1, <1>4
  <2> QED
    BY <1>3, <2>1, <2>2
<1>5. \A n \in X : m >= n
  BY <1>4
<1>6. PICK z : z = Max(X)
  OBVIOUS
<1>7. z \in X /\ \A n \in X : z >= n
  BY <1>5, <1>6 DEF Max
<1> QED
  BY <1>6, <1>7

(* Parts of a whole p in proportion to weights of at most W are at most p. *)
LEMMA PartsOfWhole ==
    ASSUME NEW S, IsFiniteSet(S), NEW w \in [S -> Nat], NEW W \in Nat \ {0},
           SumFunction(w) <= W, NEW p \in Nat,
           NEW q \in [S -> Nat], \A x \in S : q[x] = (p * w[x]) \div W
    PROVE  SumFunction(q) <= p
<1> DEFINE V(s) == SumFunctionOnSet(w, s)
           U(s) == SumFunctionOnSet(q, s)
           B == {s \in SUBSET S : ~(W * U(s) <= p * V(s))}
<1>0. \A x \in S : w[x] \in Nat /\ q[x] \in Nat /\ W * q[x] <= p * w[x]
  <2> TAKE x \in S
  <2>1. p * w[x] \in Nat /\ w[x] \in Nat /\ q[x] \in Nat
    OBVIOUS
  <2> QED
    BY <2>1, Quotient
<1>1. B = {}
  <2> SUFFICES ASSUME B # {} PROVE FALSE
    OBVIOUS
  <2>1. PICK s \in B : \A t \in B : t \subseteq s => t = s
    <3>1. B \subseteq SUBSET S
      OBVIOUS
    <3> HIDE DEF B
    <3> QED
      BY <3>1, MinimalSubset
  <2>2. IsFiniteSet(s) /\ \A x \in s : IsFiniteSet(s \ {x})
    BY FS_Subset
  <2>3. PICK x : x \in s
    <3>1. V({}) = 0 /\ U({}) = 0
      BY SumEmpty
    <3> HIDE DEF V, U
    <3> QED
      BY <3>1
  <2>4. V(s) = w[x] + V(s \ {x}) /\ V(s \ {x}) \in Nat
    BY <1>0, <2>2, <2>3, SumRemove, SumNat
  <2>5. U(s) = q[x] + U(s \ {x}) /\ U(s \ {x}) \in Nat
    BY <1>0, <2>2, <2>3, SumRemove, SumNat
  <2>6. W * U(s \ {x}) <= p * V(s \ {x})
    <3>1. s \ {x} \notin B
      BY <2>1, <2>3
    <3> QED
      BY <3>1
  <2>7. w[x] \in Nat /\ q[x] \in Nat /\ W * q[x] <= p * w[x] /\ ~(W * U(s) <= p * V(s))
    BY <1>0, <2>3
  <2> HIDE DEF V, U, B
  <2>8. PICK u \in Nat, v \in Nat : u = U(s \ {x}) /\ v = V(s \ {x})
    BY <2>4, <2>5
  <2>9. W * (q[x] + u) = W * q[x] + W * u /\ p * (w[x] + v) = p * w[x] + p * v
    BY <2>7, <2>8
  <2>10. W * q[x] \in Nat /\ W * u \in Nat /\ p * w[x] \in Nat /\ p * v \in Nat
    BY <2>7, <2>8
  <2> QED
    BY <2>4, <2>5, <2>6, <2>7, <2>8, <2>9, <2>10
<1>2. W * U(S) <= p * V(S)
  BY <1>1
<1>3. SumFunction(q) = U(S) /\ SumFunction(w) = V(S)
  BY DEF SumFunction
<1>4. PICK u \in Nat, v \in Nat : u = SumFunction(q) /\ v = SumFunction(w)
  BY SumOfNats
<1> HIDE DEF V, U, B
<1>5. W * u <= p * v /\ v <= W
  BY <1>2, <1>3, <1>4
<1>6. p * v <= p * W
  <2>1. PICK k \in Nat : W = v + k
    <3>1. W - v \in Nat /\ W = v + (W - v)
      BY <1>5
    <3> QED
      BY <3>1
  <2>2. p * W = p * v + p * k /\ p * k \in Nat /\ p * v \in Nat
    BY <2>1
  <2> QED
    BY <2>2
<1>7. u <= p
  <2> SUFFICES ASSUME p < u PROVE FALSE
    OBVIOUS
  <2>1. PICK k \in Nat : u = p + 1 + k
    <3>1. u - p - 1 \in Nat /\ u = p + 1 + (u - p - 1)
      OBVIOUS
    <3> QED
      BY <3>1
  <2>2. W * u = W * p + W + W * k /\ W * k \in Nat /\ W * p = p * W
    BY <2>1
  <2>3. W * u <= p * W
    <3>1. W * u \in Nat /\ p * v \in Nat /\ p * W \in Nat
      OBVIOUS
    <3> QED
      BY <1>5, <1>6, <3>1
  <2>4. p * W \in Nat /\ W > 0
    OBVIOUS
  <2> QED
    BY <2>2, <2>3, <2>4
<1> QED
  BY <1>4, <1>7

(* What holds of the base of a fold and is kept by each of its steps holds *)
(* of its result; R relates the set of the members that were visited to    *)
(* the values there may be.                                                *)
Follows(h, f, base, S, L) ==
    /\ h[{}] = base
    /\ \A s \in SUBSET S : s # {} =>
          \E x \in s : h[s \ {x}] \in L => h[s] = f[x, h[s \ {x}]]

Kept(R, f, S, L) ==
    \A s \in SUBSET S : \A x \in S \ s : \A v \in L :
        <<s, v>> \in R => <<s \cup {x}, f[x, v]>> \in R

LEMMA FoldReaches ==
    ASSUME NEW S, IsFiniteSet(S), NEW L, NEW base, NEW f, NEW h, Follows(h, f, base, S, L),
           NEW R, R \subseteq (SUBSET S) \X L, <<{}, base>> \in R, Kept(R, f, S, L)
    PROVE  \A s \in SUBSET S : <<s, h[s]>> \in R
<1> DEFINE B == {s \in SUBSET S : <<s, h[s]>> \notin R}
<1> SUFFICES ASSUME B # {} PROVE FALSE
  OBVIOUS
<1>1. PICK s \in B : \A t \in B : t \subseteq s => t = s
  <2>1. B \subseteq SUBSET S
    OBVIOUS
  <2> HIDE DEF B
  <2> QED
    BY <2>1, MinimalSubset
<1>2. s \in SUBSET S /\ <<s, h[s]>> \notin R
  OBVIOUS
<1>3. s # {}
  BY <1>2 DEF Follows
<1>4. PICK x \in s : h[s \ {x}] \in L => h[s] = f[x, h[s \ {x}]]
  BY <1>2, <1>3 DEF Follows
<1>5. PICK t : t = s \ {x}
  OBVIOUS
<1>6. t \in SUBSET S /\ x \in S \ t /\ t \cup {x} = s
  BY <1>2, <1>5
<1>7. <<t, h[t]>> \in R
  <2>1. t \notin B
    <3> HIDE DEF B
    <3> QED
      BY <1>1, <1>5
  <2> QED
    BY <1>6, <2>1
<1>8. h[t] \in L
  BY <1>7
<1>9. <<t \cup {x}, f[x, h[t]]>> \in R
  BY <1>6, <1>7, <1>8 DEF Kept
<1> QED
  BY <1>2, <1>4, <1>5, <1>6, <1>8, <1>9

LEMMA FoldFollows ==
    ASSUME NEW S, NEW L, NEW base, NEW f, NEW g, IsFold(g, f, base, S)
    PROVE  Follows(g, f, base, S, L)
<1>1. g[{}] = base
  BY DEF IsFold
<1>2. ASSUME NEW s \in SUBSET S, s # {}
      PROVE  \E x \in s : g[s \ {x}] \in L => g[s] = f[x, g[s \ {x}]]
  <2>1. (CHOOSE x \in s : TRUE) \in s
    BY <1>2
  <2>2. g[s] = f[CHOOSE x \in s : TRUE, g[s \ {CHOOSE x \in s : TRUE}]]
    BY <1>2 DEF IsFold
  <2> QED
    BY <2>1, <2>2
<1> QED
  BY <1>1, <1>2 DEF Follows

LEMMA FoldByFollows ==
    ASSUME NEW S, NEW L, NEW base, NEW c, Picks(c, S), NEW f, NEW g, IsFoldBy(g, c, f, base, S)
    PROVE  Follows(g, f, base, S, L)
<1>1. g[{}] = base
  BY DEF IsFoldBy
<1>2. ASSUME NEW s \in SUBSET S, s # {}
      PROVE  \E x \in s : g[s \ {x}] \in L => g[s] = f[x, g[s \ {x}]]
  <2>1. c[s] \in s
    BY <1>2 DEF Picks
  <2>2. g[s] = f[c[s], g[s \ {c[s]}]]
    BY <1>2 DEF IsFoldBy
  <2> QED
    BY <2>1, <2>2
<1> QED
  BY <1>1, <1>2 DEF Follows
=============================================================================
