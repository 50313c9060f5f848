-------------------------------- MODULE Sums --------------------------------
(***************************************************************************)
(* Facts about SumFunctionOnSet of the community modules: the sums of       *)
(* prices, fees, refunds, holds and rows the invariants about money are     *)
(* stated with. The sum over a finite set is a recursive function on its    *)
(* subsets; the proofs below are by induction on a finite set, which        *)
(* FiniteInduction derives from the well-foundedness of strict inclusion.   *)
(***************************************************************************)
EXTENDS Functions, FiniteSetTheorems, TLAPS

(* Induction on the subsets of a finite set: a set G that holds a subset    *)
(* as soon as it holds all the smaller ones holds every subset.             *)
LEMMA FiniteInduction ==
  ASSUME NEW S, IsFiniteSet(S), NEW G,
         \A T \in SUBSET S : (\A U \in SUBSET T : U # T => U \in G) => T \in G
  PROVE  \A T \in SUBSET S : T \in G
<1> DEFINE Bad == {T \in SUBSET S : T \notin G}
<1>1. IsWellFoundedOn(StrictSubsetOrdering(S), SUBSET S)
  BY FS_FiniteSubsetsOfFinite, FS_StrictSubsetOrderingWellFounded
<1>2. ASSUME Bad # {} PROVE FALSE
  <2>1. PICK T \in Bad : \A U \in Bad : ~ (<<U, T>> \in StrictSubsetOrdering(S))
    <3>1. Bad \subseteq SUBSET S OBVIOUS
    <3> HIDE DEF Bad
    <3> QED BY <1>1, <1>2, <3>1, WFMin
  <2>2. \A U \in SUBSET T : U # T => U \in G
    BY <2>1 DEF StrictSubsetOrdering
  <2> QED BY <2>1, <2>2
<1> QED BY <1>2

(* The equation of the recursive function behind the sum, with Pick(s) the  *)
(* element that is taken out of s first.                                    *)
Pick(s) == CHOOSE x \in s : TRUE
Unfold(f, g, s) == IF s = {} THEN 0 ELSE f[Pick(s)] + g[s \ {Pick(s)}]
SumsUp(f, S, g) == g = [s \in SUBSET S |-> Unfold(f, g, s)]

(* The sum is the value at S of a function that satisfies that equation.    *)
LEMMA SumIsChosen ==
  ASSUME NEW f, NEW S
  PROVE  SumFunctionOnSet(f, S) = (CHOOSE g : SumsUp(f, S, g))[S]
BY DEF SumFunctionOnSet, FoldFunctionOnSet, MapThenFoldSet, SumsUp, Unfold, Pick

(* Pick takes an element of a set that has one.                             *)
LEMMA PickIn == ASSUME NEW s, s # {} PROVE Pick(s) \in s
BY DEF Pick

(* Two solutions of the equation agree where both are defined.              *)
LEMMA SumsAgree ==
  ASSUME NEW f, NEW S, IsFiniteSet(S), NEW T \in SUBSET S,
         NEW g, SumsUp(f, S, g), NEW h, SumsUp(f, T, h)
  PROVE  \A s \in SUBSET T : g[s] = h[s]
<1> DEFINE G == {s \in SUBSET T : g[s] = h[s]}
<1>1. IsFiniteSet(T) BY FS_Subset
<1>2. ASSUME NEW s \in SUBSET T, \A u \in SUBSET s : u # s => u \in G
      PROVE  s \in G
  <2>1. g[s] = Unfold(f, g, s) /\ h[s] = Unfold(f, h, s)
    BY DEF SumsUp
  <2>2. CASE s = {} BY <2>1, <2>2 DEF Unfold
  <2>3. CASE s # {}
    <3>1. Pick(s) \in s BY <2>3, PickIn
    <3>2. s \ {Pick(s)} \in G BY <1>2, <3>1
    <3> QED BY <2>1, <2>3, <3>2 DEF Unfold
  <2> QED BY <2>2, <2>3
<1> HIDE DEF G
<1>3. \A s \in SUBSET T : s \in G BY <1>1, <1>2, FiniteInduction
<1> QED BY <1>3 DEF G

(* If the equation has a solution on every proper subset of T, the sums     *)
(* themselves are one on T.                                                 *)
LEMMA SumsExtend ==
  ASSUME NEW f, NEW T, IsFiniteSet(T),
         \A U \in SUBSET T : U # T => \E g : SumsUp(f, U, g)
  PROVE  \E g : SumsUp(f, T, g)
<1> DEFINE At(s) == SumFunctionOnSet(f, s)
           h == [s \in SUBSET T |->
                   IF s # T THEN At(s)
                   ELSE IF T = {} THEN 0 ELSE f[Pick(T)] + At(T \ {Pick(T)})]
<1>1. ASSUME NEW s \in SUBSET T, s # T PROVE At(s) = Unfold(f, h, s)
  <2> DEFINE k == CHOOSE g : SumsUp(f, s, g)
  <2>1. SumsUp(f, s, k) /\ At(s) = k[s]
    BY <1>1, SumIsChosen
  <2>2. CASE s = {} BY <2>1, <2>2 DEF SumsUp, Unfold
  <2>3. CASE s # {}
    <3> DEFINE u == s \ {Pick(s)}
               m == CHOOSE g : SumsUp(f, u, g)
    <3>1. Pick(s) \in s /\ u \in SUBSET s /\ u \in SUBSET T /\ u # T
      BY <2>3, PickIn
    <3>2. SumsUp(f, u, m) /\ At(u) = m[u]
      BY <3>1, SumIsChosen
    <3>3. IsFiniteSet(s) BY FS_Subset
    <3>4. k[u] = m[u]
      <4> HIDE DEF k, m, u
      <4> QED BY <2>1, <3>1, <3>2, <3>3, SumsAgree
    <3>5. k[s] = f[Pick(s)] + k[u]
      <4> HIDE DEF k
      <4> QED BY <2>1, <2>3 DEF SumsUp, Unfold
    <3>6. h[u] = At(u) BY <3>1
    <3> HIDE DEF h, k, m, At
    <3> QED BY <2>1, <2>3, <3>2, <3>4, <3>5, <3>6 DEF Unfold
  <2> QED BY <2>2, <2>3
<1>2. h[T] = Unfold(f, h, T)
  <2>1. CASE T = {} BY <2>1 DEF Unfold
  <2>2. CASE T # {}
    <3>1. T \ {Pick(T)} \in SUBSET T /\ T \ {Pick(T)} # T
      BY <2>2, PickIn
    <3>2. h[T \ {Pick(T)}] = At(T \ {Pick(T)}) BY <3>1
    <3>3. h[T] = f[Pick(T)] + At(T \ {Pick(T)}) BY <2>2
    <3> HIDE DEF h, At
    <3> QED BY <2>2, <3>2, <3>3 DEF Unfold
  <2> QED BY <2>1, <2>2
<1>3. \A s \in SUBSET T : h[s] = Unfold(f, h, s)
  <2>1. ASSUME NEW s \in SUBSET T, s # T PROVE h[s] = At(s) BY <2>1
  <2> HIDE DEF h, At
  <2> QED BY <1>1, <1>2, <2>1
<1>4. SumsUp(f, T, h)
  <2>1. h = [s \in SUBSET T |-> h[s]] OBVIOUS
  <2> HIDE DEF h
  <2> QED BY <1>3, <2>1 DEF SumsUp
<1> QED BY <1>4

(* The equation has a solution on every subset of a finite set.             *)
LEMMA SumsExist ==
  ASSUME NEW f, NEW S, IsFiniteSet(S)
  PROVE  \A T \in SUBSET S : \E g : SumsUp(f, T, g)
<1> DEFINE G == {T \in SUBSET S : \E g : SumsUp(f, T, g)}
<1>1. ASSUME NEW T \in SUBSET S, \A U \in SUBSET T : U # T => U \in G
      PROVE  T \in G
  <2>1. IsFiniteSet(T) BY FS_Subset
  <2> QED BY <1>1, <2>1, SumsExtend
<1> HIDE DEF G
<1>2. \A T \in SUBSET S : T \in G BY <1>1, FiniteInduction
<1> QED BY <1>2 DEF G

-----------------------------------------------------------------------------
(* What the sum over a finite set is: 0 for the empty one, and otherwise    *)
(* the value at one element added to the sum over the others.               *)
LEMMA SumUnfolds ==
  ASSUME NEW f, NEW S, IsFiniteSet(S)
  PROVE  SumFunctionOnSet(f, S)
           = IF S = {} THEN 0
             ELSE f[Pick(S)] + SumFunctionOnSet(f, S \ {Pick(S)})
<1> DEFINE k == CHOOSE g : SumsUp(f, S, g)
           u == S \ {Pick(S)}
           m == CHOOSE g : SumsUp(f, u, g)
<1>1. SumsUp(f, S, k) /\ SumFunctionOnSet(f, S) = k[S]
  BY SumsExist, SumIsChosen
<1>2. SumsUp(f, u, m) /\ SumFunctionOnSet(f, u) = m[u]
  <2>1. u \in SUBSET S OBVIOUS
  <2> QED BY <2>1, SumsExist, SumIsChosen
<1>3. k[u] = m[u]
  <2>1. u \in SUBSET S OBVIOUS
  <2> HIDE DEF k, m, u
  <2> QED BY <1>1, <1>2, <2>1, SumsAgree
<1>4. k[S] = IF S = {} THEN 0 ELSE f[Pick(S)] + k[u]
  <2> HIDE DEF k
  <2> QED BY <1>1 DEF SumsUp, Unfold
<1> HIDE DEF k, m
<1> QED BY <1>1, <1>2, <1>3, <1>4

(* The sum over the empty set.                                              *)
LEMMA SumEmpty == ASSUME NEW f PROVE SumFunctionOnSet(f, {}) = 0
BY FS_EmptySet, SumUnfolds

(* Sums of integers are integers.                                           *)
LEMMA SumType ==
  ASSUME NEW f, NEW S, IsFiniteSet(S), \A x \in S : f[x] \in Int
  PROVE  \A T \in SUBSET S : SumFunctionOnSet(f, T) \in Int
<1> DEFINE G == {T \in SUBSET S : SumFunctionOnSet(f, T) \in Int}
<1>1. ASSUME NEW T \in SUBSET S, \A U \in SUBSET T : U # T => U \in G
      PROVE  T \in G
  <2>1. IsFiniteSet(T) BY FS_Subset
  <2>2. CASE T = {} BY <2>2, SumEmpty
  <2>3. CASE T # {}
    <3>1. Pick(T) \in T BY <2>3, PickIn
    <3>2. SumFunctionOnSet(f, T \ {Pick(T)}) \in Int BY <1>1, <3>1
    <3> QED BY <2>1, <2>3, <3>1, <3>2, SumUnfolds
  <2> QED BY <2>2, <2>3
<1> HIDE DEF G
<1>2. \A T \in SUBSET S : T \in G BY <1>1, FiniteInduction
<1> QED BY <1>2 DEF G

(* Sums of naturals are naturals.                                           *)
LEMMA SumOfNaturals ==
  ASSUME NEW f, NEW S, IsFiniteSet(S), \A x \in S : f[x] \in Nat
  PROVE  SumFunctionOnSet(f, S) \in Nat
<1> DEFINE G == {T \in SUBSET S : SumFunctionOnSet(f, T) \in Nat}
<1>1. ASSUME NEW T \in SUBSET S, \A U \in SUBSET T : U # T => U \in G
      PROVE  T \in G
  <2>1. CASE T = {} BY <2>1, SumEmpty
  <2>2. CASE T # {}
    <3>1. Pick(T) \in T /\ IsFiniteSet(T) BY <2>2, PickIn, FS_Subset
    <3>2. SumFunctionOnSet(f, T \ {Pick(T)}) \in Nat BY <1>1, <3>1
    <3> QED BY <2>2, <3>1, <3>2, SumUnfolds
  <2> QED BY <2>1, <2>2
<1> HIDE DEF G
<1>2. \A T \in SUBSET S : T \in G BY <1>1, FiniteInduction
<1> QED BY <1>2 DEF G

(* Any element can be taken out first.                                      *)
LEMMA SumRemove ==
  ASSUME NEW f, NEW S, IsFiniteSet(S), \A x \in S : f[x] \in Int
  PROVE  \A T \in SUBSET S : \A x \in T :
           SumFunctionOnSet(f, T) = f[x] + SumFunctionOnSet(f, T \ {x})
<1> DEFINE Sum(T) == SumFunctionOnSet(f, T)
           G == {T \in SUBSET S : \A x \in T : Sum(T) = f[x] + Sum(T \ {x})}
<1>1. \A T \in SUBSET S : Sum(T) \in Int BY SumType
<1>2. ASSUME NEW T \in SUBSET S, \A U \in SUBSET T : U # T => U \in G
      PROVE  T \in G
  <2>1. SUFFICES ASSUME NEW x \in T PROVE Sum(T) = f[x] + Sum(T \ {x})
    OBVIOUS
  <2> DEFINE p == Pick(T)
  <2>2. p \in T BY PickIn
  <2>3. Sum(T) = f[p] + Sum(T \ {p}) BY FS_Subset, SumUnfolds
  <2>4. CASE x = p BY <2>3, <2>4
  <2>5. CASE x # p
    <3> DEFINE rest == T \ {p, x}
    <3>1. T \ {p} \in G /\ T \ {x} \in G BY <1>2, <2>2
    <3>2. (T \ {p}) \ {x} = rest /\ (T \ {x}) \ {p} = rest OBVIOUS
    <3>3. x \in T \ {p} /\ p \in T \ {x} BY <2>2, <2>5
    <3>4. Sum(T \ {p}) = f[x] + Sum(rest) BY <3>1, <3>2, <3>3
    <3>5. Sum(T \ {x}) = f[p] + Sum(rest) BY <3>1, <3>2, <3>3
    <3>6. f[x] \in Int /\ f[p] \in Int /\ Sum(rest) \in Int BY <1>1, <2>2
    <3> HIDE DEF Sum, rest, p
    <3> QED BY <2>3, <3>4, <3>5, <3>6
  <2> QED BY <2>4, <2>5
<1> HIDE DEF G
<1>3. \A T \in SUBSET S : T \in G BY <1>2, FiniteInduction
<1> QED BY <1>3 DEF G

(* An element more adds its value.                                          *)
LEMMA SumInsert ==
  ASSUME NEW f, NEW S, IsFiniteSet(S), NEW x, x \notin S,
         \A y \in S \cup {x} : f[y] \in Int
  PROVE  SumFunctionOnSet(f, S \cup {x}) = f[x] + SumFunctionOnSet(f, S)
<1>1. IsFiniteSet(S \cup {x}) BY FS_AddElement
<1>2. (S \cup {x}) \ {x} = S OBVIOUS
<1> QED BY <1>1, <1>2, SumRemove

(* Only the values on the set count.                                        *)
LEMMA SumSame ==
  ASSUME NEW f, NEW g, NEW S, IsFiniteSet(S), \A x \in S : f[x] = g[x]
  PROVE  SumFunctionOnSet(f, S) = SumFunctionOnSet(g, S)
<1> DEFINE G == {T \in SUBSET S : SumFunctionOnSet(f, T) = SumFunctionOnSet(g, T)}
<1>1. ASSUME NEW T \in SUBSET S, \A U \in SUBSET T : U # T => U \in G
      PROVE  T \in G
  <2>1. CASE T = {} BY <2>1, SumEmpty
  <2>2. CASE T # {}
    <3>1. Pick(T) \in T /\ IsFiniteSet(T) BY <2>2, PickIn, FS_Subset
    <3>2. T \ {Pick(T)} \in G BY <1>1, <3>1
    <3>3. f[Pick(T)] = g[Pick(T)] BY <3>1
    <3> QED BY <2>2, <3>1, <3>2, <3>3, SumUnfolds
  <2> QED BY <2>1, <2>2
<1> HIDE DEF G
<1>2. \A T \in SUBSET S : T \in G BY <1>1, FiniteInduction
<1> QED BY <1>2 DEF G

(* Changing the value at one element changes the sum by as much.            *)
LEMMA SumChange ==
  ASSUME NEW f, NEW g, NEW S, IsFiniteSet(S), NEW x \in S,
         \A y \in S : f[y] \in Int /\ g[y] \in Int,
         \A y \in S : y # x => g[y] = f[y]
  PROVE  SumFunctionOnSet(g, S) = SumFunctionOnSet(f, S) + g[x] - f[x]
<1>1. IsFiniteSet(S \ {x}) BY FS_Subset
<1>2. SumFunctionOnSet(f, S) = f[x] + SumFunctionOnSet(f, S \ {x})
  BY SumRemove
<1>3. SumFunctionOnSet(g, S) = g[x] + SumFunctionOnSet(g, S \ {x})
  BY SumRemove
<1>4. SumFunctionOnSet(f, S \ {x}) = SumFunctionOnSet(g, S \ {x})
  BY <1>1, SumSame
<1>5. SumFunctionOnSet(f, S \ {x}) \in Int BY SumType
<1> QED BY <1>2, <1>3, <1>4, <1>5

(* The sum of the sums of two functions.                                    *)
LEMMA SumPlus ==
  ASSUME NEW f, NEW g, NEW h, NEW S, IsFiniteSet(S),
         \A x \in S : f[x] \in Int /\ g[x] \in Int /\ h[x] = f[x] + g[x]
  PROVE  SumFunctionOnSet(h, S) = SumFunctionOnSet(f, S) + SumFunctionOnSet(g, S)
<1> DEFINE G == {T \in SUBSET S : SumFunctionOnSet(h, T)
                    = SumFunctionOnSet(f, T) + SumFunctionOnSet(g, T)}
<1>1. ASSUME NEW T \in SUBSET S, \A U \in SUBSET T : U # T => U \in G
      PROVE  T \in G
  <2>1. CASE T = {} BY <2>1, SumEmpty
  <2>2. CASE T # {}
    <3> DEFINE p == Pick(T)
               rest == T \ {p}
    <3>1. p \in T /\ IsFiniteSet(T) BY <2>2, PickIn, FS_Subset
    <3>2. rest \in G BY <1>1, <3>1
    <3>3. f[p] \in Int /\ g[p] \in Int /\ h[p] = f[p] + g[p] BY <3>1
    <3>4. SumFunctionOnSet(f, rest) \in Int /\ SumFunctionOnSet(g, rest) \in Int
      BY SumType
    <3>5. /\ SumFunctionOnSet(f, T) = f[p] + SumFunctionOnSet(f, rest)
          /\ SumFunctionOnSet(g, T) = g[p] + SumFunctionOnSet(g, rest)
          /\ SumFunctionOnSet(h, T) = h[p] + SumFunctionOnSet(h, rest)
      BY <2>2, <3>1, SumUnfolds
    <3>6. SumFunctionOnSet(h, rest)
            = SumFunctionOnSet(f, rest) + SumFunctionOnSet(g, rest)
      BY <3>2
    <3> HIDE DEF rest, p
    <3>7. SumFunctionOnSet(h, T) = SumFunctionOnSet(f, T) + SumFunctionOnSet(g, T)
      BY <3>3, <3>4, <3>5, <3>6
    <3> QED BY <3>7
  <2> QED BY <2>1, <2>2
<1> HIDE DEF G
<1>2. \A T \in SUBSET S : T \in G BY <1>1, FiniteInduction
<1> QED BY <1>2 DEF G

(* A sum of values none of which is smaller is no smaller.                  *)
LEMMA SumAtMost ==
  ASSUME NEW f, NEW g, NEW S, IsFiniteSet(S),
         \A x \in S : f[x] \in Int /\ g[x] \in Int /\ f[x] <= g[x]
  PROVE  SumFunctionOnSet(f, S) <= SumFunctionOnSet(g, S)
<1> DEFINE G == {T \in SUBSET S : SumFunctionOnSet(f, T) <= SumFunctionOnSet(g, T)}
<1>1. ASSUME NEW T \in SUBSET S, \A U \in SUBSET T : U # T => U \in G
      PROVE  T \in G
  <2>1. CASE T = {} BY <2>1, SumEmpty
  <2>2. CASE T # {}
    <3> DEFINE p == Pick(T)
               rest == T \ {p}
    <3>1. p \in T /\ IsFiniteSet(T) BY <2>2, PickIn, FS_Subset
    <3>2. SumFunctionOnSet(f, rest) <= SumFunctionOnSet(g, rest)
      BY <1>1, <3>1
    <3>3. f[p] \in Int /\ g[p] \in Int /\ f[p] <= g[p] BY <3>1
    <3>4. SumFunctionOnSet(f, rest) \in Int /\ SumFunctionOnSet(g, rest) \in Int
      BY SumType
    <3>5. /\ SumFunctionOnSet(f, T) = f[p] + SumFunctionOnSet(f, rest)
          /\ SumFunctionOnSet(g, T) = g[p] + SumFunctionOnSet(g, rest)
      BY <2>2, <3>1, SumUnfolds
    <3> HIDE DEF rest, p
    <3>6. SumFunctionOnSet(f, T) <= SumFunctionOnSet(g, T)
      BY <3>2, <3>3, <3>4, <3>5
    <3> QED BY <3>6
  <2> QED BY <2>1, <2>2
<1> HIDE DEF G
<1>2. \A T \in SUBSET S : T \in G BY <1>1, FiniteInduction
<1> QED BY <1>2 DEF G

(* A sum of zeros.                                                          *)
LEMMA SumZero ==
  ASSUME NEW f, NEW S, IsFiniteSet(S), \A x \in S : f[x] = 0
  PROVE  SumFunctionOnSet(f, S) = 0
<1> DEFINE total == SumFunctionOnSet(f, S)
<1>1. total = total + total BY SumPlus
<1>2. total \in Int
  <2>1. S \in SUBSET S /\ \A x \in S : f[x] \in Int OBVIOUS
  <2> QED BY <2>1, SumType
<1>3. total = 0
  <2> HIDE DEF total
  <2> QED BY <1>1, <1>2
<1> QED BY <1>3

(* A sum over a part of the set is a sum over the set, with zeros outside   *)
(* that part.                                                               *)
LEMMA SumPart ==
  ASSUME NEW f, NEW g, NEW S, IsFiniteSet(S), NEW T \in SUBSET S,
         \A x \in S : f[x] \in Int,
         \A x \in S : g[x] = IF x \in T THEN f[x] ELSE 0
  PROVE  SumFunctionOnSet(f, T) = SumFunctionOnSet(g, S)
<1> DEFINE G == {U \in SUBSET S : SumFunctionOnSet(f, T \cap U) = SumFunctionOnSet(g, U)}
<1>1. ASSUME NEW U \in SUBSET S, \A V \in SUBSET U : V # U => V \in G
      PROVE  U \in G
  <2>1. CASE U = {} BY <2>1, SumEmpty
  <2>2. CASE U # {}
    <3> DEFINE p == Pick(U)
               rest == U \ {p}
    <3>1. p \in U /\ IsFiniteSet(U) BY <2>2, PickIn, FS_Subset
    <3>2. SumFunctionOnSet(f, T \cap rest) = SumFunctionOnSet(g, rest)
      BY <1>1, <3>1
    <3>3. SumFunctionOnSet(g, U) = g[p] + SumFunctionOnSet(g, rest)
      BY <2>2, <3>1, SumUnfolds
    <3>4. SumFunctionOnSet(g, rest) \in Int
      BY SumType
    <3>5. CASE p \in T
      <4>1. (T \cap U) \ {p} = T \cap rest OBVIOUS
      <4>2. SumFunctionOnSet(f, T \cap U) = f[p] + SumFunctionOnSet(f, T \cap rest)
        BY <3>1, <3>5, <4>1, SumRemove
      <4> QED BY <3>1, <3>2, <3>3, <3>5, <4>2
    <3>6. CASE p \notin T
      <4>1. T \cap U = T \cap rest BY <3>6
      <4>2. g[p] = 0 BY <3>1, <3>6
      <4>3. SumFunctionOnSet(g, U) = SumFunctionOnSet(g, rest)
        <5> HIDE DEF p, rest
        <5> QED BY <3>3, <3>4, <4>2
      <4> QED BY <3>2, <4>1, <4>3
    <3> QED BY <3>5, <3>6
  <2> QED BY <2>1, <2>2
<1> HIDE DEF G
<1>2. \A U \in SUBSET S : U \in G BY <1>1, FiniteInduction
<1>3. T \cap S = T OBVIOUS
<1> QED BY <1>2, <1>3 DEF G
(* A part of a set of naturals sums up to no more than the whole.           *)
LEMMA SumSubset ==
  ASSUME NEW f, NEW S, IsFiniteSet(S), NEW T \in SUBSET S, \A x \in S : f[x] \in Nat
  PROVE  SumFunctionOnSet(f, T) <= SumFunctionOnSet(f, S)
<1> DEFINE g == [x \in S |-> IF x \in T THEN f[x] ELSE 0]
<1>1. \A x \in S : g[x] = IF x \in T THEN f[x] ELSE 0 OBVIOUS
<1>2. \A x \in S : f[x] \in Int /\ g[x] \in Int /\ g[x] <= f[x] OBVIOUS
<1> HIDE DEF g
<1>3. SumFunctionOnSet(f, T) = SumFunctionOnSet(g, S) BY <1>1, <1>2, SumPart
<1>4. SumFunctionOnSet(g, S) <= SumFunctionOnSet(f, S) BY <1>2, SumAtMost
<1> QED BY <1>3, <1>4

=============================================================================
