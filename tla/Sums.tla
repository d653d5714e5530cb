---------------------------------- MODULE Sums ----------------------------------
(***************************************************************************)
(* The sum of the values of a function over a finite set, which the models *)
(* add up money and stock with: it exists, whichever order the values are  *)
(* taken in, and an element that comes, goes or changes moves it by what   *)
(* its value says.                                                         *)
(***************************************************************************)
EXTENDS Functions, FiniteSetTheorems, TLAPS

\* The recursion that SumFunctionOnSet(f, S) runs on the subsets of S.
IsSum(g, f, S) ==
  g = [s \in SUBSET S |->
         IF s = {} THEN 0 ELSE LET x == CHOOSE x \in s : TRUE IN f[x] + g[s \ {x}]]

LEMMA SumIsFold ==
  ASSUME NEW f, NEW S
  PROVE  SumFunctionOnSet(f, S) = (CHOOSE g : IsSum(g, f, S))[S]
BY DEF SumFunctionOnSet, FoldFunctionOnSet, MapThenFoldSet, IsSum

\* Induction over a finite set: T has every subset of S whose proper subsets it has.
LEMMA SetInduction ==
  ASSUME NEW S, IsFiniteSet(S), NEW T,
         \A s \in SUBSET S : (\A u \in SUBSET s : u # s => u \in T) => s \in T
  PROVE  S \in T
<1> SUFFICES ASSUME S \notin T PROVE FALSE
  OBVIOUS
<1> DEFINE B == (SUBSET S) \ T
<1>1. B # {} /\ B \subseteq FiniteSubsetsOf(S)
  BY FS_FiniteSubsetsOfFinite
<1>2. IsWellFoundedOn(StrictSubsetOrdering(S), FiniteSubsetsOf(S))
  BY FS_StrictSubsetOrderingWellFounded
<1> HIDE DEF B
<1>3. PICK s \in B : \A u \in B : ~(<<u, s>> \in StrictSubsetOrdering(S))
  BY <1>1, <1>2, WFMin
<1>4. \A u \in SUBSET s : u # s => u \in T
  BY <1>3 DEF StrictSubsetOrdering, B
<1> QED
  BY <1>3, <1>4 DEF B

\* Induction over the numbers: T has every number.
LEMMA NatInductionOnSet ==
  ASSUME NEW T, 0 \in T, \A n \in Nat : n \in T => n + 1 \in T
  PROVE  \A n \in Nat : n \in T
<1> SUFFICES ASSUME Nat \ T # {} PROVE FALSE
  OBVIOUS
<1> PICK S : S = Nat \ T
  OBVIOUS
<1>1. PICK n \in S : \A m \in S : ~(<<m, n>> \in OpToRel(<, Nat))
  BY NatLessThanWellFounded, WFMin
<1>2. \A m \in S : ~(m < n)
  BY <1>1 DEF OpToRel
<1>3. n # 0 /\ n - 1 \in Nat /\ n - 1 \notin S
  BY <1>2
<1> QED
  BY <1>3

\* The smallest of some numbers.
LEMMA NatMin ==
  ASSUME NEW S \in SUBSET Nat, S # {}
  PROVE  \E n \in S : \A m \in S : n <= m
<1>1. PICK n \in S : \A m \in S : ~(<<m, n>> \in OpToRel(<, Nat))
  BY NatLessThanWellFounded, WFMin
<1>2. \A m \in S : ~(m < n)
  BY <1>1 DEF OpToRel
<1> QED
  BY <1>2

\* The element of a finite set with the smallest value.
LEMMA SetMin ==
  ASSUME NEW S, IsFiniteSet(S), S # {}, NEW f, \A x \in S : f[x] \in Int
  PROVE  \E x \in S : \A y \in S : f[x] <= f[y]
<1> DEFINE T == {s \in SUBSET S : s # {} => \E x \in s : \A y \in s : f[x] <= f[y]}
<1>1. ASSUME NEW s \in SUBSET S, \A u \in SUBSET s : u # s => u \in T
      PROVE  s \in T
  <2> SUFFICES ASSUME NEW e \in s PROVE \E x \in s : \A y \in s : f[x] <= f[y]
    OBVIOUS
  <2> PICK u : u = s \ {e}
    OBVIOUS
  <2>1. u \in T /\ f[e] \in Int
    BY <1>1
  <2>2. CASE u = {}
    BY <2>1, <2>2
  <2>3. CASE u # {}
    <3>1. PICK x \in u : \A y \in u : f[x] <= f[y]
      BY <2>1, <2>3
    <3>2. f[x] \in Int /\ \A y \in s : y = e \/ y \in u
      OBVIOUS
    <3>3. CASE f[e] <= f[x]
      <4>1. \A y \in u : f[y] \in Int /\ f[e] <= f[y]
        BY <2>1, <3>1, <3>2, <3>3
      <4> QED
        BY <2>1, <3>2, <4>1
    <3>4. CASE f[x] <= f[e]
      BY <3>1, <3>2, <3>4
    <3> QED
      BY <2>1, <3>2, <3>3, <3>4
  <2> QED
    BY <2>2, <2>3
<1> HIDE DEF T
<1>2. S \in T
  BY <1>1, SetInduction
<1> QED
  BY <1>2 DEF T

\* On the subsets that two recursions share, they agree.
LEMMA SumUnique ==
  ASSUME NEW f, NEW S, IsFiniteSet(S), NEW R, S \subseteq R,
         NEW g, IsSum(g, f, S), NEW h, IsSum(h, f, R)
  PROVE  g[S] = h[S]
<1> DEFINE T == {s \in SUBSET S : g[s] = h[s]}
<1>1. ASSUME NEW s \in SUBSET S, \A u \in SUBSET s : u # s => u \in T
      PROVE  s \in T
  <2>1. CASE s = {}
    BY <2>1 DEF IsSum
  <2>2. CASE s # {}
    <3> PICK x : x = CHOOSE y \in s : TRUE
      OBVIOUS
    <3>1. x \in s
      BY <2>2
    <3>2. g[s \ {x}] = h[s \ {x}]
      BY <1>1, <3>1
    <3>3. g[s] = f[x] + g[s \ {x}]
      BY <2>2 DEF IsSum
    <3>4. h[s] = f[x] + h[s \ {x}]
      BY <2>2 DEF IsSum
    <3> QED
      BY <3>2, <3>3, <3>4
  <2> QED
    BY <2>1, <2>2
<1> HIDE DEF T
<1>2. S \in T
  BY <1>1, SetInduction
<1> QED
  BY <1>2 DEF T

\* The solution for a set is one for its subsets.
LEMMA SumRestrict ==
  ASSUME NEW f, NEW S, NEW R \in SUBSET S, NEW g, IsSum(g, f, S)
  PROVE  \E h : IsSum(h, f, R) /\ h = [s \in SUBSET R |-> g[s]]
<1> PICK h : h = [s \in SUBSET R |-> g[s]]
  OBVIOUS
<1>1. \A s \in SUBSET R : s # {} => (CHOOSE x \in s : TRUE) \in s
  OBVIOUS
<1>2. ASSUME NEW s \in SUBSET R
      PROVE h[s] = IF s = {} THEN 0 ELSE LET x == CHOOSE x \in s : TRUE IN f[x] + h[s \ {x}]
  BY <1>1 DEF IsSum
<1>3. IsSum(h, f, R)
  BY <1>2 DEF IsSum
<1> QED
  BY <1>3

\* The recursion that the sum over a finite set is defined by has a solution.
LEMMA SumExists ==
  ASSUME NEW f, NEW S, IsFiniteSet(S)
  PROVE  \E g : IsSum(g, f, S)
<1> DEFINE T == {s \in SUBSET S : \E g : IsSum(g, f, s)}
<1>1. ASSUME NEW s \in SUBSET S, \A u \in SUBSET s : u # s => u \in T
      PROVE  s \in T
  <2> DEFINE G(u) == CHOOSE g : IsSum(g, f, u)
  <2>1. \A u \in SUBSET s : u # s => IsSum(G(u), f, u)
    BY <1>1
  <2> HIDE DEF G
  <2> PICK x : x = CHOOSE y \in s : TRUE
    OBVIOUS
  <2>2. \A u \in SUBSET s : IsFiniteSet(u)
    BY FS_Subset
  <2>3. ASSUME NEW u \in SUBSET s, u # s, NEW v \in SUBSET u
        PROVE  G(u)[v] = G(v)[v]
    <3>1. v # s /\ v \in SUBSET s
      BY <2>3
    <3> QED
      BY <2>1, <2>2, <2>3, <3>1, SumUnique
  <2> DEFINE g == [u \in SUBSET s |-> IF u # s THEN G(u)[u]
                                      ELSE IF u = {} THEN 0 ELSE f[x] + G(u \ {x})[u \ {x}]]
  <2>4. ASSUME NEW u \in SUBSET s
        PROVE  g[u] = IF u = {} THEN 0
                      ELSE LET y == CHOOSE y \in u : TRUE IN f[y] + g[u \ {y}]
    <3>1. CASE u = {}
      <4>1. u # s => G(u)[u] = 0
        BY <2>1, <3>1 DEF IsSum
      <4> QED
        BY <3>1, <4>1
    <3>2. CASE u # {}
      <4> PICK y : y = CHOOSE z \in u : TRUE
        OBVIOUS
      <4>1. y \in u /\ u \ {y} # s /\ u \ {y} \in SUBSET u /\ u \ {y} \in SUBSET s
        BY <3>2
      <4>2. g[u \ {y}] = G(u \ {y})[u \ {y}]
        BY <4>1
      <4>3. CASE u = s
        BY <3>2, <4>2, <4>3
      <4>4. CASE u # s
        <5>1. G(u)[u] = f[y] + G(u)[u \ {y}]
          BY ZenonT(40), <2>1, <3>2, <4>4 DEF IsSum
        <5>2. G(u)[u \ {y}] = G(u \ {y})[u \ {y}]
          BY <2>3, <4>1, <4>4
        <5> QED
          BY <3>2, <4>2, <4>4, <5>1, <5>2
      <4> QED
        BY <4>3, <4>4
    <3> QED
      BY <3>1, <3>2
  <2>5. IsSum(g, f, s)
    <3>1. g = [u \in SUBSET s |-> g[u]]
      OBVIOUS
    <3> HIDE DEF g
    <3> QED
      BY <2>4, <3>1 DEF IsSum
  <2> QED
    BY <2>5
<1> HIDE DEF T
<1>2. S \in T
  BY <1>1, SetInduction
<1> QED
  BY <1>2 DEF T

\* The sum takes an element of the set, and adds what the rest comes to.
LEMMA SumOfAny ==
  ASSUME NEW f, NEW S, IsFiniteSet(S)
  PROVE  /\ SumFunctionOnSet(f, {}) = 0
         /\ S # {} => \E x \in S :
              SumFunctionOnSet(f, S) = f[x] + SumFunctionOnSet(f, S \ {x})
<1> DEFINE G(u) == CHOOSE g : IsSum(g, f, u)
<1>1. \A u \in SUBSET S : IsSum(G(u), f, u) /\ SumFunctionOnSet(f, u) = G(u)[u]
  BY SumExists, SumIsFold, FS_Subset
<1> HIDE DEF G
<1>2. SumFunctionOnSet(f, {}) = 0
  BY <1>1 DEF IsSum
<1>3. ASSUME S # {} PROVE \E x \in S : SumFunctionOnSet(f, S) = f[x] + SumFunctionOnSet(f, S \ {x})
  <2> PICK x : x = CHOOSE y \in S : TRUE
    OBVIOUS
  <2>1. x \in S
    BY <1>3
  <2>2. G(S)[S] = f[x] + G(S)[S \ {x}]
    BY <1>1, <1>3 DEF IsSum
  <2>3. IsFiniteSet(S \ {x}) /\ S \ {x} \in SUBSET S
    BY FS_Subset
  <2>4. G(S \ {x})[S \ {x}] = G(S)[S \ {x}]
    BY <1>1, <2>3, SumUnique
  <2> QED
    BY <1>1, <2>1, <2>2, <2>3, <2>4
<1> QED
  BY <1>2, <1>3



LEMMA SumEmpty == ASSUME NEW f PROVE SumFunctionOnSet(f, {}) = 0
BY SumOfAny, FS_EmptySet

\* Integers add up to an integer.
LEMMA SumInt ==
  ASSUME NEW f, NEW S, IsFiniteSet(S), \A x \in S : f[x] \in Int
  PROVE  SumFunctionOnSet(f, S) \in Int
<1> DEFINE T == {s \in SUBSET S : SumFunctionOnSet(f, s) \in Int}
<1>1. ASSUME NEW s \in SUBSET S, \A u \in SUBSET s : u # s => u \in T
      PROVE  s \in T
  <2>1. IsFiniteSet(s)
    BY FS_Subset
  <2>2. \A x \in s : SumFunctionOnSet(f, s \ {x}) \in Int /\ f[x] \in Int
    BY <1>1
  <2>3. SumFunctionOnSet(f, {}) = 0
    BY SumEmpty
  <2>4. CASE s # {}
    <3>1. PICK x \in s : SumFunctionOnSet(f, s) = f[x] + SumFunctionOnSet(f, s \ {x})
      BY <2>1, <2>4, SumOfAny
    <3> QED
      BY <2>2, <3>1
  <2> QED
    BY <2>3, <2>4
<1> HIDE DEF T
<1>2. S \in T
  BY <1>1, SetInduction
<1> QED
  BY <1>2 DEF T

\* Whichever element is taken out, the sum is that element and the rest.
LEMMA SumRemove ==
  ASSUME NEW f, NEW S, IsFiniteSet(S), \A x \in S : f[x] \in Int, NEW e \in S
  PROVE  SumFunctionOnSet(f, S) = f[e] + SumFunctionOnSet(f, S \ {e})
<1> DEFINE Sm(s) == SumFunctionOnSet(f, s)
<1> DEFINE T == {s \in SUBSET S : \A y \in s : Sm(s) = f[y] + Sm(s \ {y})}
<1>0. \A s \in SUBSET S : /\ IsFiniteSet(s) /\ Sm(s) \in Int
                          /\ s # {} => \E x \in s : Sm(s) = f[x] + Sm(s \ {x})
  BY ZenonT(40), FS_Subset, SumInt, SumOfAny
<1> HIDE DEF Sm
<1>1. ASSUME NEW s \in SUBSET S, \A u \in SUBSET s : u # s => u \in T
      PROVE  s \in T
  <2> SUFFICES ASSUME NEW y \in s PROVE Sm(s) = f[y] + Sm(s \ {y})
    OBVIOUS
  <2>1. PICK x \in s : Sm(s) = f[x] + Sm(s \ {x})
    BY <1>0
  <2>2. CASE x = y
    BY <2>1, <2>2
  <2>3. CASE x # y
    <3> PICK rest : rest = s \ {x, y}
      OBVIOUS
    <3>1. (s \ {x}) \ {y} = rest /\ (s \ {y}) \ {x} = rest /\ rest \in SUBSET S
      OBVIOUS
    <3>2. s \ {x} \in T /\ s \ {y} \in T
      BY <1>1
    <3>3. Sm(s \ {x}) = f[y] + Sm(rest)
      BY <2>3, <3>1, <3>2
    <3>4. Sm(s \ {y}) = f[x] + Sm(rest)
      BY <2>3, <3>1, <3>2
    <3>5. f[x] \in Int /\ f[y] \in Int /\ Sm(rest) \in Int
      BY <1>0, <3>1
    <3> QED
      BY <2>1, <3>3, <3>4, <3>5
  <2> QED
    BY <2>2, <2>3
<1> HIDE DEF T
<1>2. S \in T
  BY <1>1, SetInduction
<1> QED
  BY <1>2 DEF T, Sm

\* The sum depends only on the values that are added.
LEMMA SumSame ==
  ASSUME NEW f, NEW g, NEW S, IsFiniteSet(S), \A x \in S : f[x] \in Int /\ g[x] = f[x]
  PROVE  SumFunctionOnSet(g, S) = SumFunctionOnSet(f, S)
<1> DEFINE T == {s \in SUBSET S : SumFunctionOnSet(g, s) = SumFunctionOnSet(f, s)}
<1>1. ASSUME NEW s \in SUBSET S, \A u \in SUBSET s : u # s => u \in T
      PROVE  s \in T
  <2>1. IsFiniteSet(s)
    BY FS_Subset
  <2>2. CASE s = {}
    BY <2>1, <2>2, SumOfAny
  <2>3. CASE s # {}
    <3>1. PICK x \in s : SumFunctionOnSet(g, s) = g[x] + SumFunctionOnSet(g, s \ {x})
      BY <2>1, <2>3, SumOfAny
    <3>2. SumFunctionOnSet(f, s) = f[x] + SumFunctionOnSet(f, s \ {x})
      BY <2>1, SumRemove
    <3>3. SumFunctionOnSet(g, s \ {x}) = SumFunctionOnSet(f, s \ {x})
      BY <1>1
    <3> QED
      BY <3>1, <3>2, <3>3
  <2> QED
    BY <2>2, <2>3
<1> HIDE DEF T
<1>2. S \in T
  BY <1>1, SetInduction
<1> QED
  BY <1>2 DEF T

\* Naturals add up to a natural.
LEMMA SumNat ==
  ASSUME NEW f, NEW S, IsFiniteSet(S), \A x \in S : f[x] \in Nat
  PROVE  SumFunctionOnSet(f, S) \in Nat
<1> DEFINE T == {s \in SUBSET S : SumFunctionOnSet(f, s) \in Nat}
<1>1. ASSUME NEW s \in SUBSET S, \A u \in SUBSET s : u # s => u \in T
      PROVE  s \in T
  <2>1. IsFiniteSet(s)
    BY FS_Subset
  <2>2. \A x \in s : SumFunctionOnSet(f, s \ {x}) \in Nat /\ f[x] \in Nat
    BY <1>1
  <2>3. SumFunctionOnSet(f, {}) = 0
    BY SumEmpty
  <2>4. CASE s # {}
    <3>1. PICK x \in s : SumFunctionOnSet(f, s) = f[x] + SumFunctionOnSet(f, s \ {x})
      BY <2>1, <2>4, SumOfAny
    <3> QED
      BY <2>2, <3>1
  <2> QED
    BY <2>3, <2>4
<1> HIDE DEF T
<1>2. S \in T
  BY <1>1, SetInduction
<1> QED
  BY <1>2 DEF T

\* An element more adds its value.
LEMMA SumAdd ==
  ASSUME NEW f, NEW S, IsFiniteSet(S), NEW e, e \notin S, \A x \in S \cup {e} : f[x] \in Int
  PROVE  SumFunctionOnSet(f, S \cup {e}) = SumFunctionOnSet(f, S) + f[e]
<1> PICK R : R = S \cup {e}
  OBVIOUS
<1>1. IsFiniteSet(R) /\ e \in R /\ R \ {e} = S /\ f[e] \in Int
  BY FS_AddElement
<1>2. SumFunctionOnSet(f, R) = f[e] + SumFunctionOnSet(f, S)
  BY <1>1, SumRemove
<1>3. SumFunctionOnSet(f, S) \in Int
  BY SumInt
<1> QED
  BY <1>1, <1>2, <1>3

\* One value that changes moves the sum by as much.
LEMMA SumChange ==
  ASSUME NEW f, NEW g, NEW S, IsFiniteSet(S), NEW e \in S,
         \A x \in S : f[x] \in Int /\ g[x] \in Int, \A x \in S : x # e => g[x] = f[x]
  PROVE  SumFunctionOnSet(g, S) = SumFunctionOnSet(f, S) - f[e] + g[e]
<1> PICK R : R = S \ {e}
  OBVIOUS
<1>1. IsFiniteSet(R) /\ \A x \in R : f[x] \in Int /\ g[x] = f[x]
  BY FS_Subset
<1>2. SumFunctionOnSet(g, S) = g[e] + SumFunctionOnSet(g, R)
  BY SumRemove
<1>3. SumFunctionOnSet(f, S) = f[e] + SumFunctionOnSet(f, R)
  BY SumRemove
<1>4. SumFunctionOnSet(g, R) = SumFunctionOnSet(f, R) /\ SumFunctionOnSet(f, R) \in Int
  BY <1>1, SumSame, SumInt
<1> QED
  BY <1>2, <1>3, <1>4


\* A part of the set adds no more than all of it.
LEMMA SumOfPart ==
  ASSUME NEW f, NEW S, IsFiniteSet(S), \A x \in S : f[x] \in Nat, NEW R \in SUBSET S
  PROVE  SumFunctionOnSet(f, R) <= SumFunctionOnSet(f, S)
<1> DEFINE T == {s \in SUBSET S : SumFunctionOnSet(f, R \cap s) <= SumFunctionOnSet(f, s)}
<1>1. ASSUME NEW s \in SUBSET S, \A u \in SUBSET s : u # s => u \in T
      PROVE  s \in T
  <2>1. IsFiniteSet(s) /\ IsFiniteSet(R \cap s)
    BY FS_Subset
  <2>2. CASE s = {}
    <3>1. R \cap s = s
      BY <2>2
    <3>2. SumFunctionOnSet(f, s) = 0
      BY <2>2, SumEmpty
    <3> QED
      BY <3>1, <3>2
  <2>3. ASSUME NEW x \in s PROVE s \in T
    <3> PICK u : u = s \ {x}
      OBVIOUS
    <3>1. u \in T /\ f[x] \in Nat
      BY <1>1
    <3>2. SumFunctionOnSet(f, s) = f[x] + SumFunctionOnSet(f, u)
      BY <2>1, SumRemove
    <3>3. SumFunctionOnSet(f, R \cap u) \in Nat /\ SumFunctionOnSet(f, u) \in Nat
      BY FS_Subset, SumNat
    <3> SUFFICES SumFunctionOnSet(f, R \cap s) <= SumFunctionOnSet(f, s)
      OBVIOUS
    <3>4. CASE x \in R
      <4>1. (R \cap s) \ {x} = R \cap u /\ x \in R \cap s
        BY <3>4
      <4>2. SumFunctionOnSet(f, R \cap s) = f[x] + SumFunctionOnSet(f, R \cap u)
        BY <2>1, <4>1, SumRemove
      <4> QED
        BY <3>1, <3>2, <3>3, <4>2
    <3>5. CASE x \notin R
      <4>1. R \cap s = R \cap u
        BY <3>5
      <4>2. SumFunctionOnSet(f, R \cap u) <= SumFunctionOnSet(f, u)
        BY <3>1
      <4>3. SumFunctionOnSet(f, R \cap s) = SumFunctionOnSet(f, R \cap u)
        BY <4>1, Zenon
      <4> QED
        BY <3>1, <3>2, <3>3, <4>2, <4>3
    <3> QED
      BY <3>4, <3>5
  <2> QED
    BY <2>2, <2>3
<1> HIDE DEF T
<1>2. S \in T
  BY <1>1, SetInduction
<1>3. R \cap S = R
  OBVIOUS
<1> QED
  BY <1>2, <1>3 DEF T

\* Sets that share nothing add their sums.
LEMMA SumUnion ==
  ASSUME NEW f, NEW S, IsFiniteSet(S), NEW R, IsFiniteSet(R), S \cap R = {},
         \A x \in S \cup R : f[x] \in Int
  PROVE  SumFunctionOnSet(f, S \cup R) = SumFunctionOnSet(f, S) + SumFunctionOnSet(f, R)
<1> DEFINE T == {s \in SUBSET S : SumFunctionOnSet(f, s \cup R)
                                   = SumFunctionOnSet(f, s) + SumFunctionOnSet(f, R)}
<1>0. SumFunctionOnSet(f, R) \in Int
  BY SumInt
<1>1. ASSUME NEW s \in SUBSET S, \A u \in SUBSET s : u # s => u \in T
      PROVE  s \in T
  <2>1. IsFiniteSet(s) /\ IsFiniteSet(s \cup R)
    BY FS_Subset, FS_Union
  <2>2. CASE s = {}
    <3>1. SumFunctionOnSet(f, s \cup R) = SumFunctionOnSet(f, R)
      <4>1. s \cup R = R
        BY <2>2
      <4> QED
        BY <4>1, Zenon
    <3>2. SumFunctionOnSet(f, s) = 0
      BY <2>2, SumEmpty
    <3> QED
      BY <1>0, <3>1, <3>2
  <2>3. ASSUME NEW x \in s PROVE s \in T
    <3> PICK u : u = s \ {x}
      OBVIOUS
    <3>1. u \in T /\ f[x] \in Int /\ (s \cup R) \ {x} = u \cup R
      BY <1>1
    <3>2. SumFunctionOnSet(f, s) = f[x] + SumFunctionOnSet(f, u)
      BY <2>1, SumRemove
    <3>3. SumFunctionOnSet(f, s \cup R) = f[x] + SumFunctionOnSet(f, u \cup R)
      BY <2>1, <3>1, SumRemove
    <3>4. SumFunctionOnSet(f, u) \in Int
      BY FS_Subset, SumInt
    <3> QED
      BY <1>0, <3>1, <3>2, <3>3, <3>4
  <2> QED
    BY <2>2, <2>3
<1> HIDE DEF T
<1>2. S \in T
  BY <1>1, SetInduction
<1> QED
  BY <1>2 DEF T


\* The same for two functions: the set grows by an element, and the values of
\* the others stay.
LEMMA SumGrow ==
  ASSUME NEW f, NEW g, NEW S, IsFiniteSet(S), NEW e, e \notin S,
         NEW R, \A x : x \in R <=> x \in S \/ x = e,
         \A x \in S : f[x] \in Int /\ g[x] = f[x], g[e] \in Int
  PROVE  IsFiniteSet(R) /\ SumFunctionOnSet(g, R) = SumFunctionOnSet(f, S) + g[e]
<1>1. SumFunctionOnSet(g, S) = SumFunctionOnSet(f, S)
  BY SumSame
<1>2. \A x \in S \cup {e} : g[x] \in Int
  OBVIOUS
<1>3. SumFunctionOnSet(g, S \cup {e}) = SumFunctionOnSet(g, S) + g[e]
  BY <1>2, SumAdd
<1>4. IsFiniteSet(S \cup {e})
  BY FS_AddElement
<1>5. R = S \cup {e}
  OBVIOUS
<1>6. IsFiniteSet(R) /\ SumFunctionOnSet(g, R) = SumFunctionOnSet(g, S) + g[e]
  BY <1>3, <1>4, <1>5, Zenon
<1> QED
  BY <1>1, <1>6

===============================================================================
