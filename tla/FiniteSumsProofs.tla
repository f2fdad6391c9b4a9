-------------------------- MODULE FiniteSumsProofs --------------------------
(***************************************************************************)
(* The laws of SumOver, for every finite set and every function on it.     *)
(*                                                                         *)
(* The library's induction theorems take an operator as a parameter, which *)
(* the installed provers cannot instantiate.  Here induction is by minimal *)
(* counterexample: the set of the finite sets that violate a law has a     *)
(* minimal element, because strict inclusion of finite sets is well        *)
(* founded, and that element is shown not to violate it.                   *)
(***************************************************************************)
EXTENDS FiniteSums, FiniteSetTheorems, WellFoundedInduction, TLAPS

(* Every non-empty family of finite sets has an inclusion-minimal member.  *)
LEMMA MinimalFiniteSet ==
  ASSUME NEW S, NEW Bad, Bad \subseteq FiniteSubsetsOf(S), Bad # {}
  PROVE  \E T \in Bad : \A U \in Bad : U \subseteq T => U = T
<1>1. IsWellFoundedOn(StrictSubsetOrdering(S), FiniteSubsetsOf(S))
  BY FS_StrictSubsetOrderingWellFounded
<1>2. PICK T \in Bad : \A U \in Bad : <<U, T>> \notin StrictSubsetOrdering(S)
  BY <1>1, WFMin
<1>3. ASSUME NEW U \in Bad, U \subseteq T, U # T
      PROVE  <<U, T>> \in StrictSubsetOrdering(S)
  BY <1>3 DEF StrictSubsetOrdering, FiniteSubsetsOf
<1>4. \A U \in Bad : U \subseteq T => U = T
  BY <1>2, <1>3, Zenon
<1> QED
  BY <1>4, Zenon

(* A sum table for f on the subsets of D: what SumOver's local function is *)
(* required to be.                                                         *)
IsSumTable(g, f, D) ==
  g = [T \in SUBSET D |-> IF T = {} THEN 0 ELSE f[Pick(T)] + g[T \ {Pick(T)}]]

SumTable(f, D) == CHOOSE g : IsSumTable(g, f, D)

(* SumOver is the entry of a sum table at the whole set.                   *)
LEMMA SumOverIsTable ==
  ASSUME NEW f, NEW D
  PROVE  SumOver(f, D) = SumTable(f, D)[D]
BY Zenon DEF SumOver, SumTable, IsSumTable

(* A non-empty set contains the element picked from it.                    *)
LEMMA PickIn ==
  ASSUME NEW T, T # {}
  PROVE  Pick(T) \in T
BY DEF Pick

(* The recursion a sum table satisfies, entry by entry.                    *)
LEMMA TableEntry ==
  ASSUME NEW f, NEW D, NEW g, IsSumTable(g, f, D), NEW T \in SUBSET D
  PROVE  /\ T = {} => g[T] = 0
         /\ T # {} => /\ g[T] = f[Pick(T)] + g[T \ {Pick(T)}]
                      /\ T \ {Pick(T)} \in SUBSET D
<1> DEFINE entry(U) == IF U = {} THEN 0 ELSE f[Pick(U)] + g[U \ {Pick(U)}]
<1>1. g = [U \in SUBSET D |-> entry(U)]
  BY DEF IsSumTable
<1>2. g[T] = entry(T)
  <2> HIDE DEF entry
  <2> QED BY <1>1
<1> QED
  BY <1>2

(* The empty sum is zero in every sum table.                               *)
LEMMA TableAtEmpty ==
  ASSUME NEW f, NEW D, NEW g, IsSumTable(g, f, D), NEW T, T = {}
  PROVE  g[T] = 0
BY TableEntry

(* Two sum tables of the same function agree wherever both are defined.    *)
LEMMA TablesAgree ==
  ASSUME NEW f, NEW D, NEW E, NEW g, NEW h,
         IsSumTable(g, f, D), IsSumTable(h, f, E),
         NEW T, T \subseteq D, T \subseteq E, IsFiniteSet(T)
  PROVE  g[T] = h[T]
<1> DEFINE Bad == {U \in FiniteSubsetsOf(T) : g[U] # h[U]}
<1>1. SUFFICES ASSUME Bad # {} PROVE FALSE
  BY DEF FiniteSubsetsOf
<1>2. Bad \subseteq FiniteSubsetsOf(T)
  OBVIOUS
<1>3. PICK U \in Bad : \A V \in Bad : V \subseteq U => V = U
  <2> HIDE DEF Bad
  <2> QED BY <1>1, <1>2, MinimalFiniteSet
<1>4. U \in SUBSET D /\ U \in SUBSET E /\ IsFiniteSet(U) /\ g[U] # h[U]
  BY DEF FiniteSubsetsOf
<1>5. CASE U = {}
  BY <1>4, <1>5, TableEntry
<1>6. CASE U # {}
  <2> DEFINE V == U \ {Pick(U)}
  <2>1. V \subseteq U /\ V # U
    BY <1>6, PickIn
  <2>2. IsFiniteSet(V)
    BY <1>4, <2>1, FS_Subset
  <2>3. V \in FiniteSubsetsOf(T)
    BY <1>4, <2>1, <2>2 DEF FiniteSubsetsOf
  <2>4. g[V] = h[V]
    BY <1>3, <2>1, <2>3
  <2>5. g[U] = f[Pick(U)] + g[V]
    <3> HIDE DEF Bad
    <3> QED BY <1>4, <1>6, TableEntry
  <2>6. h[U] = f[Pick(U)] + h[V]
    <3> HIDE DEF Bad
    <3> QED BY <1>4, <1>6, TableEntry
  <2> QED
    BY <1>4, <2>4, <2>5, <2>6
<1> QED
  BY <1>5, <1>6

(* Every finite set has a sum table: the recursion of SumOver is well      *)
(* founded.                                                                *)
LEMMA SumTableExists ==
  ASSUME NEW f, NEW D, IsFiniteSet(D)
  PROVE  IsSumTable(SumTable(f, D), f, D)
<1> DEFINE Bad == {U \in FiniteSubsetsOf(D) : ~ \E g : IsSumTable(g, f, U)}
<1>1. SUFFICES ASSUME Bad # {} PROVE FALSE
  <2>1. ASSUME Bad = {} PROVE \E g : IsSumTable(g, f, D)
    BY <2>1 DEF FiniteSubsetsOf
  <2> QED BY <2>1 DEF SumTable
<1>2. Bad \subseteq FiniteSubsetsOf(D)
  OBVIOUS
<1>3. PICK U \in Bad : \A V \in Bad : V \subseteq U => V = U
  <2> HIDE DEF Bad
  <2> QED BY <1>1, <1>2, MinimalFiniteSet
<1>4. U \in SUBSET D /\ IsFiniteSet(U) /\ ~ \E g : IsSumTable(g, f, U)
  BY DEF FiniteSubsetsOf
<1>5. ASSUME NEW V \in SUBSET U, V # U
      PROVE  IsSumTable(SumTable(f, V), f, V) /\ IsFiniteSet(V)
  <2>1. IsFiniteSet(V) /\ V \in FiniteSubsetsOf(D)
    BY <1>4, FS_Subset DEF FiniteSubsetsOf
  <2>2. V \notin Bad
    BY <1>3, <1>5
  <2>3. \E g : IsSumTable(g, f, V)
    BY <2>1, <2>2
  <2> QED BY <2>1, <2>3 DEF SumTable
<1> DEFINE rest(V) == V \ {Pick(V)}
           G == [V \in SUBSET U |->
                   IF V = {} THEN 0
                   ELSE f[Pick(V)] + SumTable(f, rest(V))[rest(V)]]
<1>6. ASSUME NEW V \in SUBSET U, V # {}
      PROVE  G[rest(V)] = SumTable(f, rest(V))[rest(V)]
  <2> DEFINE W == rest(V)
  <2>1. W \in SUBSET U /\ W # U
    BY <1>6, PickIn
  <2>2. IsSumTable(SumTable(f, W), f, W) /\ IsFiniteSet(W)
    <3> HIDE DEF W
    <3> QED BY <1>5, <2>1
  <2>3. CASE W = {}
    <3>1. G[W] = 0
      BY <2>3
    <3>2. SumTable(f, W)[W] = 0
      <4> DEFINE g == SumTable(f, W)
      <4> HIDE DEF W, g
      <4> QED BY <2>2, <2>3, TableAtEmpty DEF g
    <3> QED BY <3>1, <3>2
  <2>4. CASE W # {}
    <3> DEFINE X == rest(W)
    <3>1. X \subseteq W /\ X \in SUBSET U /\ X # U /\ IsFiniteSet(X)
      <4>1. X \subseteq W /\ X \in SUBSET U /\ X # U
        BY <2>1
      <4>2. IsFiniteSet(X)
        BY <2>2, <4>1, FS_Subset
      <4> QED BY <4>1, <4>2
    <3>2. IsSumTable(SumTable(f, X), f, X)
      <4> HIDE DEF X
      <4> QED BY <1>5, <3>1
    <3>3. G[W] = f[Pick(W)] + SumTable(f, X)[X]
      BY <2>1, <2>4
    <3>4. SumTable(f, W)[W] = f[Pick(W)] + SumTable(f, W)[X]
      <4> HIDE DEF W
      <4> QED BY <2>2, <2>4, TableEntry
    <3>5. SumTable(f, W)[X] = SumTable(f, X)[X]
      <4> HIDE DEF W, X
      <4> QED BY <2>2, <3>1, <3>2, TablesAgree
    <3>6. G[W] = SumTable(f, W)[W]
      <4> HIDE DEF W, X, G
      <4> QED BY <3>3, <3>4, <3>5
    <3> QED BY <3>6
  <2> QED BY <2>3, <2>4
<1>7. IsSumTable(G, f, U)
  <2>1. ASSUME NEW V \in SUBSET U
        PROVE  G[V] = IF V = {} THEN 0 ELSE f[Pick(V)] + G[V \ {Pick(V)}]
    <3>1. CASE V = {}
      BY <3>1
    <3>2. CASE V # {}
      <4>1. G[V] = f[Pick(V)] + SumTable(f, rest(V))[rest(V)]
        BY <3>2
      <4>2. G[rest(V)] = SumTable(f, rest(V))[rest(V)]
        BY <1>6, <3>2
      <4> HIDE DEF G
      <4> QED BY <4>1, <4>2, <3>2
    <3> QED BY <3>1, <3>2
  <2>2. G = [V \in SUBSET U |-> G[V]]
    OBVIOUS
  <2> HIDE DEF G
  <2> QED BY <2>1, <2>2 DEF IsSumTable
<1> QED
  BY <1>4, <1>7

-----------------------------------------------------------------------------
(* The unfolding of SumOver at the element it picks.                       *)
LEMMA SumUnfold ==
  ASSUME NEW f, NEW S, IsFiniteSet(S)
  PROVE  /\ S = {} => SumOver(f, S) = 0
         /\ S # {} => SumOver(f, S) = f[Pick(S)] + SumOver(f, S \ {Pick(S)})
<1>1. IsSumTable(SumTable(f, S), f, S)
  BY SumTableExists
<1>2. CASE S = {}
  <2>1. SumTable(f, S)[S] = 0
    <3> DEFINE g == SumTable(f, S)
    <3> HIDE DEF g
    <3> QED BY <1>1, <1>2, TableAtEmpty DEF g
  <2> QED BY <1>2, <2>1, SumOverIsTable
<1>3. CASE S # {}
  <2> DEFINE T == S \ {Pick(S)}
  <2>1. IsFiniteSet(T) /\ T \subseteq S
    BY FS_Subset
  <2>2. IsSumTable(SumTable(f, T), f, T)
    <3> HIDE DEF T
    <3> QED BY <2>1, SumTableExists
  <2>3. SumTable(f, S)[S] = f[Pick(S)] + SumTable(f, S)[T]
    BY <1>1, <1>3, TableEntry
  <2>4. SumTable(f, S)[T] = SumTable(f, T)[T]
    <3> HIDE DEF T
    <3> QED BY <1>1, <2>1, <2>2, TablesAgree
  <2>5. SumOver(f, S) = SumTable(f, S)[S] /\ SumOver(f, T) = SumTable(f, T)[T]
    <3> HIDE DEF T
    <3> QED BY SumOverIsTable
  <2> QED BY <1>3, <2>3, <2>4, <2>5
<1> QED BY <1>2, <1>3

(* The sum of integers is an integer, and SumOver may be unfolded at any   *)
(* element: the order of summation does not matter.                        *)
LEMMA SumLaw ==
  ASSUME NEW S, IsFiniteSet(S), NEW f, \A x \in S : f[x] \in Int
  PROVE  /\ SumOver(f, S) \in Int
         /\ \A x \in S : SumOver(f, S) = f[x] + SumOver(f, S \ {x})
<1> DEFINE Good(U) == /\ SumOver(f, U) \in Int
                      /\ \A y \in U : SumOver(f, U) = f[y] + SumOver(f, U \ {y})
           Bad == {U \in FiniteSubsetsOf(S) : ~ Good(U)}
<1>1. SUFFICES ASSUME Bad # {} PROVE FALSE
  BY DEF FiniteSubsetsOf
<1>2. Bad \subseteq FiniteSubsetsOf(S)
  OBVIOUS
<1>3. PICK U \in Bad : \A V \in Bad : V \subseteq U => V = U
  <2> HIDE DEF Bad
  <2> QED BY <1>1, <1>2, MinimalFiniteSet
<1>4. U \subseteq S /\ IsFiniteSet(U) /\ ~ Good(U)
  BY DEF FiniteSubsetsOf
<1>5. ASSUME NEW V, V \subseteq U, V # U
      PROVE  Good(V)
  <2>1. V \in FiniteSubsetsOf(S)
    <3>1. IsFiniteSet(V)
      BY <1>4, <1>5, FS_Subset
    <3> QED BY <1>4, <1>5, <3>1 DEF FiniteSubsetsOf
  <2>2. V \notin Bad
    <3> HIDE DEF Bad
    <3> QED BY <1>3, <1>5
  <2> QED BY <2>1, <2>2
<1>6. U # {}
  <2>1. ASSUME U = {} PROVE SumOver(f, U) = 0
    BY <1>4, <2>1, SumUnfold
  <2>2. U = {} => Good(U)
    BY <2>1
  <2> HIDE DEF Good
  <2> QED BY <1>4, <2>2
<1> DEFINE p == Pick(U)
<1>7. p \in U /\ f[p] \in Int
  BY <1>4, <1>6, PickIn
<1>8. SumOver(f, U) = f[p] + SumOver(f, U \ {p})
  BY <1>4, <1>6, SumUnfold
<1>9. Good(U \ {p})
  <2> HIDE DEF Good, p
  <2> QED BY <1>5, <1>7
<1>10. ASSUME NEW y \in U
       PROVE  SumOver(f, U) = f[y] + SumOver(f, U \ {y})
  <2>1. CASE y = p
    BY <1>8, <2>1
  <2>2. CASE y # p
    <3> DEFINE V == (U \ {p}) \ {y}
    <3>1. y \in U \ {p}
      BY <1>10, <2>2
    <3>2. SumOver(f, U \ {p}) = f[y] + SumOver(f, V)
      BY <1>9, <3>1
    <3>3. Good(U \ {y})
      <4> HIDE DEF Good, p
      <4> QED BY <1>5, <1>10
    <3>4. SumOver(f, U \ {y}) = f[p] + SumOver(f, (U \ {y}) \ {p})
      <4> HIDE DEF p
      <4> QED BY <1>7, <2>2, <3>3
    <3>5. (U \ {y}) \ {p} = V
      OBVIOUS
    <3>6. f[y] \in Int /\ SumOver(f, V) \in Int
      <4>1. V \subseteq U /\ V # U
        BY <1>10
      <4>2. Good(V)
        <5> HIDE DEF Good, V
        <5> QED BY <1>5, <4>1
      <4> QED BY <1>4, <4>2
    <3>7. SumOver(f, U \ {y}) = f[p] + SumOver(f, V)
      BY <3>4, <3>5, Zenon
    <3>8. SumOver(f, U) = f[p] + (f[y] + SumOver(f, V))
      BY <1>8, <3>2, Zenon
    <3>9. \A a, b, c \in Int : a + (b + c) = b + (a + c)
      OBVIOUS
    <3>10. f[p] + (f[y] + SumOver(f, V)) = f[y] + (f[p] + SumOver(f, V))
      BY <1>7, <3>6, <3>9, Zenon
    <3> QED BY <3>7, <3>8, <3>10, Zenon
  <2> QED BY <2>1, <2>2
<1>11. SumOver(f, U) \in Int
  <2> HIDE DEF p
  <2> QED BY <1>7, <1>8, <1>9
<1>12. Good(U)
  BY <1>10, <1>11
<1> QED
  <2> HIDE DEF Good
  <2> QED BY <1>4, <1>12

(* Functions that agree on S have the same sum over S.                     *)
LEMMA SumCongruence ==
  ASSUME NEW S, IsFiniteSet(S), NEW f, NEW g,
         \A x \in S : f[x] \in Int /\ f[x] = g[x]
  PROVE  SumOver(f, S) = SumOver(g, S)
<1> DEFINE Bad == {U \in FiniteSubsetsOf(S) : SumOver(f, U) # SumOver(g, U)}
<1>1. SUFFICES ASSUME Bad # {} PROVE FALSE
  BY DEF FiniteSubsetsOf
<1>2. Bad \subseteq FiniteSubsetsOf(S)
  OBVIOUS
<1>3. PICK U \in Bad : \A V \in Bad : V \subseteq U => V = U
  <2> HIDE DEF Bad
  <2> QED BY <1>1, <1>2, MinimalFiniteSet
<1>4. U \subseteq S /\ IsFiniteSet(U) /\ SumOver(f, U) # SumOver(g, U)
  BY DEF FiniteSubsetsOf
<1>5. CASE U = {}
  BY <1>4, <1>5, SumUnfold
<1>6. ASSUME NEW x \in U PROVE FALSE
  <2> DEFINE V == U \ {x}
  <2>1. IsFiniteSet(V) /\ V \subseteq U /\ V # U
    BY <1>4, <1>6, FS_Subset
  <2>2. V \in FiniteSubsetsOf(S)
    BY <1>4, <2>1 DEF FiniteSubsetsOf
  <2>3. SumOver(f, V) = SumOver(g, V)
    BY <1>3, <2>1, <2>2
  <2>4. SumOver(f, U) = f[x] + SumOver(f, V) /\ SumOver(g, U) = g[x] + SumOver(g, V)
    <3>1. \A y \in U : f[y] \in Int /\ g[y] \in Int
      BY <1>4
    <3> HIDE DEF Bad
    <3> QED BY <1>4, <1>6, <3>1, SumLaw
  <2>5. f[x] = g[x]
    BY <1>4
  <2> QED
    BY <1>4, <2>3, <2>4, <2>5
<1> QED
  BY <1>5, <1>6

(* Changing a function at one point changes its sum by the difference.     *)
LEMMA SumUpdate ==
  ASSUME NEW S, IsFiniteSet(S), NEW f, NEW g, NEW x \in S,
         \A y \in S : f[y] \in Int /\ g[y] \in Int,
         \A y \in S : y # x => g[y] = f[y]
  PROVE  SumOver(g, S) = SumOver(f, S) - f[x] + g[x]
<1> DEFINE R == S \ {x}
<1>1. IsFiniteSet(R)
  BY FS_Subset
<1>2. SumOver(f, S) = f[x] + SumOver(f, R)
  BY SumLaw
<1>3. SumOver(g, S) = g[x] + SumOver(g, R)
  BY SumLaw
<1>4. SumOver(f, R) = SumOver(g, R)
  <2>1. \A y \in R : f[y] \in Int /\ f[y] = g[y]
    OBVIOUS
  <2> HIDE DEF R
  <2> QED BY <1>1, <2>1, SumCongruence
<1>5. SumOver(f, R) \in Int
  <2>1. \A y \in R : f[y] \in Int
    OBVIOUS
  <2> HIDE DEF R
  <2> QED BY <1>1, <2>1, SumLaw
<1> QED
  BY <1>2, <1>3, <1>4, <1>5

(* The sum of a pointwise sum is the sum of the sums.                      *)
LEMMA SumPointwise ==
  ASSUME NEW S, IsFiniteSet(S), NEW f, NEW g, NEW h,
         \A x \in S : f[x] \in Int /\ g[x] \in Int /\ h[x] = f[x] + g[x]
  PROVE  SumOver(h, S) = SumOver(f, S) + SumOver(g, S)
<1> DEFINE Bad == {U \in FiniteSubsetsOf(S) :
                     SumOver(h, U) # SumOver(f, U) + SumOver(g, U)}
<1>1. SUFFICES ASSUME Bad # {} PROVE FALSE
  BY DEF FiniteSubsetsOf
<1>2. Bad \subseteq FiniteSubsetsOf(S)
  OBVIOUS
<1>3. PICK U \in Bad : \A V \in Bad : V \subseteq U => V = U
  <2> HIDE DEF Bad
  <2> QED BY <1>1, <1>2, MinimalFiniteSet
<1>4. /\ U \subseteq S /\ IsFiniteSet(U)
      /\ SumOver(h, U) # SumOver(f, U) + SumOver(g, U)
  BY DEF FiniteSubsetsOf
<1>5. CASE U = {}
  <2>1. SumOver(h, U) = 0 /\ SumOver(f, U) = 0 /\ SumOver(g, U) = 0
    <3> HIDE DEF Bad
    <3> QED BY <1>4, <1>5, SumUnfold
  <2> QED BY <1>4, <2>1
<1>6. ASSUME NEW x \in U PROVE FALSE
  <2> DEFINE V == U \ {x}
  <2>1. IsFiniteSet(V) /\ V \subseteq U /\ V # U
    BY <1>4, <1>6, FS_Subset
  <2>2. V \in FiniteSubsetsOf(S)
    BY <1>4, <2>1 DEF FiniteSubsetsOf
  <2>3. SumOver(h, V) = SumOver(f, V) + SumOver(g, V)
    BY <1>3, <2>1, <2>2
  <2>4. \A y \in U : f[y] \in Int /\ g[y] \in Int /\ h[y] \in Int
    BY <1>4
  <2>5. SumOver(f, U) = f[x] + SumOver(f, V) /\ SumOver(g, U) = g[x] + SumOver(g, V)
    <3> HIDE DEF Bad
    <3> QED BY <1>4, <1>6, <2>4, SumLaw
  <2>6. SumOver(h, U) = h[x] + SumOver(h, V)
    <3> HIDE DEF Bad
    <3> QED BY <1>4, <1>6, <2>4, SumLaw
  <2>7. SumOver(f, V) \in Int /\ SumOver(g, V) \in Int
    <3>1. \A y \in V : f[y] \in Int /\ g[y] \in Int
      BY <2>4
    <3> HIDE DEF Bad, V
    <3> QED BY <2>1, <3>1, SumLaw
  <2>8. h[x] = f[x] + g[x] /\ f[x] \in Int /\ g[x] \in Int
    BY <1>4
  <2> HIDE DEF V, Bad
  <2> QED
    BY <1>4, <2>3, <2>5, <2>6, <2>7, <2>8
<1> QED
  BY <1>5, <1>6

(* The sum of zeros is zero.                                               *)
LEMMA SumZero ==
  ASSUME NEW S, IsFiniteSet(S), NEW f, \A x \in S : f[x] = 0
  PROVE  SumOver(f, S) = 0
<1>1. SumOver(f, S) = SumOver(f, S) + SumOver(f, S)
  <2>1. \A x \in S : f[x] \in Int /\ f[x] = f[x] + f[x]
    OBVIOUS
  <2> QED BY <2>1, SumPointwise
<1>2. SumOver(f, S) \in Int
  BY SumLaw
<1>3. \A n \in Int : n = n + n => n = 0
  OBVIOUS
<1> QED
  BY <1>1, <1>2, <1>3

(* The sum of naturals is a natural, and no term exceeds it.               *)
LEMMA SumOfNaturals ==
  ASSUME NEW S, IsFiniteSet(S), NEW f, \A x \in S : f[x] \in Nat
  PROVE  /\ SumOver(f, S) \in Nat
         /\ \A x \in S : f[x] <= SumOver(f, S)
<1> DEFINE Bad == {U \in FiniteSubsetsOf(S) : SumOver(f, U) \notin Nat}
<1>1. ASSUME NEW U \in FiniteSubsetsOf(S)
      PROVE  SumOver(f, U) \in Nat
  <2>1. SUFFICES ASSUME Bad # {} PROVE FALSE
    OBVIOUS
  <2>2. Bad \subseteq FiniteSubsetsOf(S)
    OBVIOUS
  <2>3. PICK W \in Bad : \A V \in Bad : V \subseteq W => V = W
    <3> HIDE DEF Bad
    <3> QED BY <2>1, <2>2, MinimalFiniteSet
  <2>4. W \subseteq S /\ IsFiniteSet(W) /\ SumOver(f, W) \notin Nat
    BY DEF FiniteSubsetsOf
  <2>5. CASE W = {}
    <3>1. SumOver(f, W) = 0
      BY <2>4, <2>5, SumUnfold
    <3> QED BY <2>4, <3>1
  <2>6. ASSUME NEW x \in W PROVE FALSE
    <3> DEFINE V == W \ {x}
    <3>1. IsFiniteSet(V) /\ V \subseteq W /\ V # W
      BY <2>4, <2>6, FS_Subset
    <3>2. V \in FiniteSubsetsOf(S)
      BY <2>4, <3>1 DEF FiniteSubsetsOf
    <3>3. SumOver(f, V) \in Nat
      BY <2>3, <3>1, <3>2
    <3>4. SumOver(f, W) = f[x] + SumOver(f, V)
      <4>1. \A y \in W : f[y] \in Int
        BY <2>4
      <4> HIDE DEF Bad
      <4> QED BY <2>4, <2>6, <4>1, SumLaw
    <3>5. f[x] \in Nat
      BY <2>4
    <3> HIDE DEF V, Bad
    <3> QED BY <2>4, <3>3, <3>4, <3>5
  <2> QED BY <2>5, <2>6
<1>2. SumOver(f, S) \in Nat
  BY <1>1 DEF FiniteSubsetsOf
<1>3. ASSUME NEW x \in S PROVE f[x] <= SumOver(f, S)
  <2>1. IsFiniteSet(S \ {x}) /\ S \ {x} \in FiniteSubsetsOf(S)
    BY FS_Subset DEF FiniteSubsetsOf
  <2>2. SumOver(f, S \ {x}) \in Nat
    BY <1>1, <2>1
  <2>3. SumOver(f, S) = f[x] + SumOver(f, S \ {x})
    BY SumLaw
  <2> QED BY <2>2, <2>3
<1> QED
  BY <1>2, <1>3

(* Entries that are zero outside a subset do not count.                    *)
LEMMA SumSupport ==
  ASSUME NEW S, IsFiniteSet(S), NEW T, T \subseteq S, NEW f, NEW g,
         \A x \in T : f[x] \in Int /\ g[x] = f[x],
         \A x \in S \ T : g[x] = 0
  PROVE  SumOver(g, S) = SumOver(f, T)
<1> DEFINE Bad == {U \in FiniteSubsetsOf(S \ T) : SumOver(g, T \cup U) # SumOver(g, T)}
<1>1. \A x \in S : g[x] \in Int
  OBVIOUS
<1>2. IsFiniteSet(T) /\ IsFiniteSet(S \ T)
  BY FS_Subset
<1>3. Bad = {}
  <2>1. SUFFICES ASSUME Bad # {} PROVE FALSE
    OBVIOUS
  <2>2. Bad \subseteq FiniteSubsetsOf(S \ T)
    OBVIOUS
  <2>3. PICK U \in Bad : \A V \in Bad : V \subseteq U => V = U
    <3> HIDE DEF Bad
    <3> QED  BY <2>1, <2>2, MinimalFiniteSet
  <2>4. U \subseteq S \ T /\ SumOver(g, T \cup U) # SumOver(g, T) /\ IsFiniteSet(U)
    BY DEF FiniteSubsetsOf
  <2>5. PICK x \in U : TRUE
    <3>1. U # {}
      <4>1. U = {} => T \cup U = T
        OBVIOUS
      <4> QED  BY <2>4, <4>1
    <3> QED  BY <3>1
  <2>6. U \ {x} \in FiniteSubsetsOf(S \ T) /\ U \ {x} \notin Bad
    <3>1. U \ {x} \in FiniteSubsetsOf(S \ T)
      BY <2>4, FS_Subset DEF FiniteSubsetsOf
    <3>2. U \ {x} \subseteq U /\ U \ {x} # U
      BY <2>5
    <3> QED  BY <2>3, <3>1, <3>2
  <2>7. SumOver(g, T \cup (U \ {x})) = SumOver(g, T)
    BY <2>6
  <2>8. SumOver(g, T \cup U) = g[x] + SumOver(g, (T \cup U) \ {x})
    <3>1. T \cup U \subseteq S /\ IsFiniteSet(T \cup U) /\ x \in T \cup U
      BY <2>4, <2>5, FS_Subset
    <3>2. \A y \in T \cup U : g[y] \in Int
      BY <1>1, <3>1
    <3> QED  BY <3>1, <3>2, SumLaw
  <2>9. (T \cup U) \ {x} = T \cup (U \ {x}) /\ g[x] = 0
    BY <2>4, <2>5
  <2>10. SumOver(g, T) \in Int
    BY <1>1, <1>2, SumLaw
  <2> QED
    <3>1. SumOver(g, (T \cup U) \ {x}) = SumOver(g, T)
      BY <2>7, <2>9
    <3>2. SumOver(g, T \cup U) = SumOver(g, T)
      BY <2>8, <2>9, <2>10, <3>1
    <3> QED  BY <2>4, <3>2
<1>4. S \ T \in FiniteSubsetsOf(S \ T) /\ T \cup (S \ T) = S
  BY <1>2 DEF FiniteSubsetsOf
<1>5. SumOver(g, S) = SumOver(g, T)
  BY <1>3, <1>4
<1>6. SumOver(g, T) = SumOver(f, T)
  <2>1. \A x \in T : g[x] \in Int /\ g[x] = f[x]
    OBVIOUS
  <2> QED  BY <1>2, <2>1, SumCongruence
<1> QED
  BY <1>5, <1>6

(* What some entries give to others, each to one of its own, is not lost.  *)
Transfers(S, f, g, J, m, v) ==
  /\ J \subseteq S
  /\ \A x \in S : f[x] \in Int /\ g[x] \in Int
  /\ \A d \in J : v[d] \in Int /\ m[d] \in S \ J
  /\ \A d, e \in J : m[d] = m[e] => d = e
  /\ \A d \in J : g[d] = f[d] - v[d] /\ g[m[d]] = f[m[d]] + v[d]
  /\ \A x \in S \ J : (\A d \in J : m[d] # x) => g[x] = f[x]

LEMMA SumTransfer ==
  ASSUME NEW S, IsFiniteSet(S), NEW f, NEW g, NEW J, NEW m, NEW v,
         Transfers(S, f, g, J, m, v)
  PROVE  SumOver(g, S) = SumOver(f, S)
<1> SUFFICES ASSUME J \subseteq S,
                    \A x \in S : f[x] \in Int /\ g[x] \in Int,
                    \A d \in J : v[d] \in Int /\ m[d] \in S \ J,
                    \A d, e \in J : m[d] = m[e] => d = e,
                    \A d \in J : g[d] = f[d] - v[d] /\ g[m[d]] = f[m[d]] + v[d],
                    \A x \in S \ J : (\A d \in J : m[d] # x) => g[x] = f[x]
             PROVE  SumOver(g, S) = SumOver(f, S)
  BY DEF Transfers
<1> DEFINE Moved(U) == U \cup {m[d] : d \in U}
           Part(U) == [x \in S |-> IF x \in Moved(U) THEN g[x] ELSE f[x]]
           Bad == {U \in FiniteSubsetsOf(J) : SumOver(Part(U), S) # SumOver(f, S)}
<1>1. SumOver(f, S) \in Int
  BY SumLaw
<1>2. Bad = {}
  <2>1. SUFFICES ASSUME Bad # {} PROVE FALSE
    OBVIOUS
  <2>2. Bad \subseteq FiniteSubsetsOf(J)
    OBVIOUS
  <2>3. PICK U \in Bad : \A V \in Bad : V \subseteq U => V = U
    <3> HIDE DEF Bad
    <3> QED  BY <2>1, <2>2, MinimalFiniteSet
  <2>4. U \subseteq J /\ SumOver(Part(U), S) # SumOver(f, S) /\ IsFiniteSet(U)
    BY DEF FiniteSubsetsOf
  <2>5. PICK d \in U : TRUE
    <3>1. U # {}
      <4>1. ASSUME U = {} PROVE SumOver(Part(U), S) = SumOver(f, S)
        <5>1. \A x \in S : Part(U)[x] \in Int /\ Part(U)[x] = f[x]
          BY <4>1
        <5> HIDE DEF Part
        <5> QED  BY <5>1, SumCongruence
      <4> QED  BY <2>4, <4>1
    <3> QED  BY <3>1
  <2> DEFINE R == U \ {d}
             h == [x \in S |-> IF x = d THEN g[d] ELSE Part(R)[x]]
  <2>6. R \in FiniteSubsetsOf(J) /\ R \notin Bad
    <3>1. R \in FiniteSubsetsOf(J)
      BY <2>4, FS_Subset DEF FiniteSubsetsOf
    <3>2. R \subseteq U /\ R # U
      BY <2>5
    <3> HIDE DEF Bad
    <3> QED  BY <2>3, <3>1, <3>2
  <2>7. SumOver(Part(R), S) = SumOver(f, S)
    BY <2>6
  <2>8. d \in S /\ m[d] \in S /\ d # m[d] /\ d \notin Moved(R) /\ m[d] \notin Moved(R)
    BY <2>4, <2>5
  <2>9. \A x \in S : /\ Part(R)[x] \in Int /\ h[x] \in Int /\ Part(U)[x] \in Int
                     /\ x # d => h[x] = Part(R)[x]
                     /\ x # m[d] => Part(U)[x] = h[x]
    <3> SUFFICES ASSUME NEW x \in S
                 PROVE  /\ Part(R)[x] \in Int /\ h[x] \in Int /\ Part(U)[x] \in Int
                        /\ x # d => h[x] = Part(R)[x]
                        /\ x # m[d] => Part(U)[x] = h[x]
      OBVIOUS
    <3>1. x # m[d] /\ x # d => (x \in Moved(U) <=> x \in Moved(R))
      OBVIOUS
    <3>2. d \in Moved(U)
      BY <2>5
    <3> HIDE DEF Moved
    <3> QED  BY <2>8, <3>1, <3>2
  <2>10. Part(R)[d] = f[d] /\ h[d] = g[d] /\ h[m[d]] = f[m[d]] /\ Part(U)[m[d]] = g[m[d]]
    <3>1. m[d] \in Moved(U)
      BY <2>5
    <3> HIDE DEF Moved
    <3> QED  BY <2>8, <3>1
  <2> HIDE DEF h, Part, R
  <2>11. SumOver(h, S) = SumOver(Part(R), S) - Part(R)[d] + h[d]
    BY <2>8, <2>9, SumUpdate
  <2>12. SumOver(Part(U), S) = SumOver(h, S) - h[m[d]] + Part(U)[m[d]]
    <3>1. PICK s \in S : s = m[d]
      BY <2>8
    <3>2. PICK k : k = Part(U)
      OBVIOUS
    <3>3. \A x \in S : h[x] \in Int /\ k[x] \in Int /\ (x # s => k[x] = h[x])
      BY <2>9, <3>1, <3>2
    <3>4. SumOver(k, S) = SumOver(h, S) - h[s] + k[s]
      BY <3>3, SumUpdate
    <3> QED  BY <3>1, <3>2, <3>4
  <2>13. d \in J /\ v[d] \in Int /\ f[d] \in Int /\ f[m[d]] \in Int
    BY <2>4, <2>5, <2>8
  <2>14. g[d] = f[d] - v[d] /\ g[m[d]] = f[m[d]] + v[d]
    BY <2>13
  <2> QED
    BY <1>1, <2>4, <2>7, <2>10, <2>11, <2>12, <2>13, <2>14
<1>3. J \in FiniteSubsetsOf(J)
  BY FS_Subset DEF FiniteSubsetsOf
<1>4. SumOver(Part(J), S) = SumOver(f, S)
  BY <1>2, <1>3
<1>5. \A x \in S : Part(J)[x] \in Int /\ Part(J)[x] = g[x]
  OBVIOUS
<1> HIDE DEF Part
<1>6. SumOver(Part(J), S) = SumOver(g, S)
  BY <1>5, SumCongruence
<1> QED
  BY <1>4, <1>6
=============================================================================
