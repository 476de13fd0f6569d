---------------------------- MODULE SumTheorems ----------------------------
(***************************************************************************)
(* Sums over finite sets, for the modules whose state is counted: what      *)
(* SumFunctionOnSet computes, by induction over the subsets.                *)
(***************************************************************************)
EXTENDS Integers, Functions, FiniteSetTheorems, WellFoundedInduction, TLAPS

----------------------------------------------------------------------------
(* Induction *)

(* What holds of a set when it holds of all that are smaller, holds.  The   *)
(* sets of which it holds are given as a set.                               *)
LEMMA SmallerSetsFirst ==
    ASSUME NEW S, IsFiniteSet(S), NEW Good,
           \A T \in SUBSET S : (\A U \in SUBSET T : U # T => U \in Good) => T \in Good
    PROVE  S \in Good
<1> DEFINE Bad == {T \in SUBSET S : T \notin Good}
<1>1. SUFFICES ASSUME Bad # {} PROVE FALSE
  OBVIOUS
<1>2. FiniteSubsetsOf(S) = SUBSET S
  BY FS_FiniteSubsetsOfFinite
<1>3. PICK T \in Bad : \A U \in Bad : <<U, T>> \notin StrictSubsetOrdering(S)
  <2>1. Bad \subseteq FiniteSubsetsOf(S)
    BY <1>2
  <2>2. IsWellFoundedOn(StrictSubsetOrdering(S), FiniteSubsetsOf(S))
    BY FS_StrictSubsetOrderingWellFounded
  <2> HIDE DEF Bad
  <2>3. \E T \in Bad : \A U \in Bad : ~(<<U, T>> \in StrictSubsetOrdering(S))
    BY <1>1, <2>1, <2>2, WFMin
  <2> QED BY <2>3
<1>4. \A U \in SUBSET T : U # T => <<U, T>> \in StrictSubsetOrdering(S)
  BY DEF StrictSubsetOrdering
<1>5. \A U \in SUBSET T : U \in SUBSET S
  OBVIOUS
<1>6. ASSUME NEW U \in SUBSET T, U # T PROVE U \in Good
  <2>1. <<U, T>> \in StrictSubsetOrdering(S) /\ U \in SUBSET S
    BY <1>4, <1>5, <1>6
  <2> QED BY <1>3, <2>1
<1> QED BY <1>6

(* From the empty set, one element at a time. *)
LEMMA OneByOne ==
    ASSUME NEW S, IsFiniteSet(S), NEW Good, {} \in Good,
           \A T \in SUBSET S : \A x \in S \ T : T \in Good => T \cup {x} \in Good
    PROVE  S \in Good
<1>1. ASSUME NEW T \in SUBSET S, \A U \in SUBSET T : U # T => U \in Good
      PROVE  T \in Good
  <2>1. CASE T = {}
    BY <2>1
  <2>2. CASE T # {}
    <3>1. PICK x \in T : TRUE
      BY <2>2
    <3>2. T \ {x} \in Good /\ x \in S \ (T \ {x}) /\ (T \ {x}) \cup {x} = T
      BY <1>1, <3>1
    <3> QED BY <3>2
  <2> QED BY <2>1, <2>2
<1> QED BY <1>1, SmallerSetsFirst

(* A set of numbers has a least one, and a greatest one if it has a limit.  *)
LEMMA LeastOfNat ==
    ASSUME NEW S \in SUBSET Nat, S # {}
    PROVE  \E i \in S : \A j \in S : i <= j
<1>1. PICK i \in S : \A j \in S : <<j, i>> \notin OpToRel(<, Nat)
  BY NatLessThanWellFounded, WFMin, Zenon
<1>2. \A j \in S : j \in Nat /\ i \in Nat
  OBVIOUS
<1>3. \A j \in S : ~(j < i)
  BY <1>1, <1>2, Zenon DEF OpToRel
<1>4. \A j \in S : i <= j
  BY <1>2, <1>3
<1> QED BY <1>4

LEMMA GreatestOfNat ==
    ASSUME NEW n \in Nat, NEW S \in SUBSET (0 .. n), S # {}
    PROVE  \E i \in S : \A j \in S : j <= i
<1> DEFINE below == {n - i : i \in S}
<1>1. below \in SUBSET Nat /\ below # {}
  <2>1. \A i \in S : i \in Nat /\ n - i \in Nat
    OBVIOUS
  <2> QED BY <2>1
<1> HIDE DEF below
<1>2. PICK k \in below : \A j \in below : k <= j
  BY <1>1, LeastOfNat
<1>3. PICK i \in S : k = n - i
  BY DEF below
<1>4. ASSUME NEW j \in S PROVE j <= i
  <2>1. n - i <= n - j
    BY <1>2, <1>3 DEF below
  <2>2. i \in Nat /\ j \in Nat
    OBVIOUS
  <2> QED BY <2>1, <2>2
<1> QED BY <1>4

----------------------------------------------------------------------------
(* The sum *)

Some(s) == CHOOSE x \in s : TRUE
SumAt(f, G, s) == IF s = {} THEN 0 ELSE f[Some(s)] + G[s \ {Some(s)}]
IsSum(f, G, S) == G = [s \in SUBSET S |-> SumAt(f, G, s)]

(* There is one such function at most, whatever larger set it is for. *)
LEMMA SumsAgree ==
    ASSUME NEW f, NEW S, IsFiniteSet(S), NEW T, NEW G, NEW H, S \subseteq T,
           IsSum(f, G, S), IsSum(f, H, T)
    PROVE  G[S] = H[S]
<1> DEFINE Good == {U \in SUBSET S : G[U] = H[U]}
<1>1. ASSUME NEW U \in SUBSET S, \A V \in SUBSET U : V # U => V \in Good
      PROVE  U \in Good
  <2>1. G[U] = SumAt(f, G, U) /\ H[U] = SumAt(f, H, U)
    BY DEF IsSum
  <2>2. U # {} => U \ {Some(U)} \in SUBSET U /\ U \ {Some(U)} # U
    BY DEF Some
  <2>3. U # {} => G[U \ {Some(U)}] = H[U \ {Some(U)}]
    BY <1>1, <2>2
  <2> QED BY <2>1, <2>3 DEF SumAt
<1>2. S \in Good
  <2> HIDE DEF Good
  <2>1. \A U \in SUBSET S : (\A V \in SUBSET U : V # U => V \in Good) => U \in Good
    BY <1>1
  <2> QED BY <2>1, SmallerSetsFirst
<1> QED BY <1>2

LEMMA SumExists ==
    ASSUME NEW f, NEW S, IsFiniteSet(S)
    PROVE  \E G : IsSum(f, G, S)
<1> DEFINE Good == {T \in SUBSET S : \E G : IsSum(f, G, T)}
<1>1. ASSUME NEW T \in SUBSET S, \A U \in SUBSET T : U # T => U \in Good
      PROVE  T \in Good
  <2> DEFINE Of(U) == (CHOOSE G : IsSum(f, G, U))[U]
             least == T \ {Some(T)}
             G == [s \in SUBSET T |-> IF s # T THEN Of(s)
                                      ELSE IF T = {} THEN 0 ELSE f[Some(T)] + Of(least)]
  <2>1. ASSUME NEW s \in SUBSET T PROVE G[s] = SumAt(f, G, s)
    <3>1. CASE s = T
      <4>1. T # {} => least \in SUBSET T /\ least # T
        BY DEF Some
      <4>2. T # {} => G[least] = Of(least)
        BY <4>1
      <4> QED BY <3>1, <4>2 DEF SumAt
    <3>2. CASE s # T
      <4> DEFINE H == CHOOSE H : IsSum(f, H, s)
                 rest == s \ {Some(s)}
                 R == CHOOSE R : IsSum(f, R, rest)
      <4>1. IsSum(f, H, s)
        BY <1>1, <3>2
      <4>2. G[s] = SumAt(f, H, s)
        BY <3>2, <4>1 DEF IsSum
      <4>3. CASE s = {}
        BY <4>2, <4>3 DEF SumAt
      <4>4. CASE s # {}
        <5>1. rest \in SUBSET T /\ rest # T /\ rest \subseteq s
          BY <3>2, <4>4 DEF Some
        <5>2. IsSum(f, R, rest)
          BY <1>1, <5>1
        <5>3. IsFiniteSet(rest)
          BY <5>1, FS_Subset
        <5>4. R[rest] = H[rest]
          <6> HIDE DEF R, H, rest
          <6> QED BY <4>1, <5>1, <5>2, <5>3, SumsAgree
        <5>5. G[rest] = R[rest]
          BY <5>1
        <5> QED BY <4>2, <4>4, <5>4, <5>5 DEF SumAt
      <4> QED BY <4>3, <4>4
    <3> QED BY <3>1, <3>2
  <2>2. G = [s \in SUBSET T |-> G[s]]
    OBVIOUS
  <2> HIDE DEF G
  <2>3. IsSum(f, G, T)
    BY <2>1, <2>2 DEF IsSum
  <2> QED BY <2>3
<1>2. S \in Good
  <2> HIDE DEF Good
  <2>1. \A T \in SUBSET S : (\A U \in SUBSET T : U # T => U \in Good) => T \in Good
    BY <1>1
  <2> QED BY <2>1, SmallerSetsFirst
<1> QED BY <1>2

LEMMA SumIs ==
    ASSUME NEW f, NEW S, IsFiniteSet(S)
    PROVE  \E G : IsSum(f, G, S) /\ SumFunctionOnSet(f, S) = G[S]
<1> DEFINE G == CHOOSE G : IsSum(f, G, S)
<1>1. IsSum(f, G, S)
  BY SumExists
<1>2. SumFunctionOnSet(f, S) = G[S]
  BY DEF SumFunctionOnSet, FoldFunctionOnSet, MapThenFoldSet, IsSum, SumAt, Some
<1> QED BY <1>1, <1>2

(* The sum over nothing. *)
LEMMA SumEmpty == ASSUME NEW f PROVE SumFunctionOnSet(f, {}) = 0
<1>1. PICK G : IsSum(f, G, {}) /\ SumFunctionOnSet(f, {}) = G[{}]
  BY SumIs, FS_EmptySet
<1> QED BY <1>1 DEF IsSum, SumAt

(* The element that is chosen first. *)
LEMMA SumOfSome ==
    ASSUME NEW f, NEW S, IsFiniteSet(S), S # {}
    PROVE  SumFunctionOnSet(f, S) = f[Some(S)] + SumFunctionOnSet(f, S \ {Some(S)})
<1> DEFINE rest == S \ {Some(S)}
<1>1. rest \in SUBSET S /\ IsFiniteSet(rest)
  BY FS_Subset
<1>2. PICK G : IsSum(f, G, S) /\ SumFunctionOnSet(f, S) = G[S]
  BY SumIs
<1>3. PICK H : IsSum(f, H, rest) /\ SumFunctionOnSet(f, rest) = H[rest]
  BY <1>1, SumIs
<1>4. G[S] = f[Some(S)] + G[rest]
  BY <1>2 DEF IsSum, SumAt
<1> HIDE DEF rest
<1>5. H[rest] = G[rest]
  BY <1>1, <1>2, <1>3, SumsAgree
<1> QED BY <1>2, <1>3, <1>4, <1>5 DEF rest

(* Any element may be taken out first. *)
LEMMA SumRemove ==
    ASSUME NEW S, IsFiniteSet(S), NEW f, \A x \in S : f[x] \in Nat
    PROVE  /\ SumFunctionOnSet(f, S) \in Nat
           /\ \A x \in S : SumFunctionOnSet(f, S) = f[x] + SumFunctionOnSet(f, S \ {x})
<1> DEFINE Sum(T) == SumFunctionOnSet(f, T)
           Good == {T \in SUBSET S : Sum(T) \in Nat /\ \A x \in T : Sum(T) = f[x] + Sum(T \ {x})}
<1>1. ASSUME NEW T \in SUBSET S, \A U \in SUBSET T : U # T => U \in Good
      PROVE  T \in Good
  <2>1. CASE T = {}
    BY <2>1, SumEmpty
  <2>2. CASE T # {}
    <3> DEFINE c == Some(T)
    <3>1. c \in T /\ IsFiniteSet(T)
      BY <2>2, FS_Subset DEF Some
    <3>2. Sum(T) = f[c] + Sum(T \ {c})
      BY <2>2, <3>1, SumOfSome
    <3> HIDE DEF c, Sum
    <3>3. T \ {c} \in Good
      BY <1>1, <3>1
    <3>4. Sum(T \ {c}) \in Nat /\ f[c] \in Nat
      BY <3>1, <3>3
    <3>5. ASSUME NEW x \in T, x # c PROVE Sum(T) = f[x] + Sum(T \ {x})
      <4>1. T \ {x} \in Good /\ c \in T \ {x} /\ x \in T \ {c}
        BY <1>1, <3>1, <3>5
      <4>2. (T \ {x}) \ {c} = (T \ {c}) \ {x}
        OBVIOUS
      <4> DEFINE both == (T \ {c}) \ {x}
      <4>3. Sum(T \ {c}) = f[x] + Sum(both)
        BY <3>3, <4>1
      <4>4. Sum(T \ {x}) = f[c] + Sum(both)
        BY <4>1, <4>2
      <4>5. both \in Good
        <5>1. both \in SUBSET T /\ both # T
          BY <3>1
        <5> QED BY <1>1, <5>1
      <4>6. Sum(both) \in Nat /\ f[x] \in Nat
        BY <4>5
      <4> HIDE DEF both
      <4> QED BY <3>2, <3>4, <4>3, <4>4, <4>6
    <3> QED BY <3>2, <3>4, <3>5
  <2> QED BY <2>1, <2>2
<1>2. S \in Good
  <2> HIDE DEF Good
  <2>1. \A T \in SUBSET S : (\A U \in SUBSET T : U # T => U \in Good) => T \in Good
    BY <1>1
  <2> QED BY <2>1, SmallerSetsFirst
<1> QED BY <1>2

(* One more element. *)
LEMMA SumAdded ==
    ASSUME NEW S, IsFiniteSet(S), NEW x, x \notin S, NEW f, \A y \in S \cup {x} : f[y] \in Nat
    PROVE  SumFunctionOnSet(f, S \cup {x}) = f[x] + SumFunctionOnSet(f, S)
<1>1. IsFiniteSet(S \cup {x})
  BY FS_AddElement
<1>2. (S \cup {x}) \ {x} = S
  OBVIOUS
<1> QED BY <1>1, <1>2, SumRemove

(* What is less in each place is less in sum. *)
LEMMA SumAtMost ==
    ASSUME NEW S, IsFiniteSet(S), NEW f, NEW g,
           \A x \in S : f[x] \in Nat /\ g[x] \in Nat /\ f[x] <= g[x]
    PROVE  SumFunctionOnSet(f, S) <= SumFunctionOnSet(g, S)
<1> DEFINE F(T) == SumFunctionOnSet(f, T)
           G(T) == SumFunctionOnSet(g, T)
           Good == {T \in SUBSET S : F(T) <= G(T)}
<1>1. {} \in Good
  BY SumEmpty
<1>2. ASSUME NEW T \in SUBSET S, NEW x \in S \ T, T \in Good PROVE T \cup {x} \in Good
  <2>1. IsFiniteSet(T)
    BY FS_Subset
  <2>2. F(T \cup {x}) = f[x] + F(T) /\ G(T \cup {x}) = g[x] + G(T)
    BY <2>1, SumAdded
  <2>3. F(T) \in Nat /\ G(T) \in Nat
    BY <2>1, SumRemove
  <2> HIDE DEF F, G
  <2> QED BY <1>2, <2>2, <2>3
<1>3. S \in Good
  <2> HIDE DEF Good
  <2> QED BY <1>1, <1>2, OneByOne
<1> QED BY <1>3

(* Sums add up place by place. *)
LEMMA SumOfSums ==
    ASSUME NEW S, IsFiniteSet(S), NEW f, NEW g, NEW h,
           \A x \in S : f[x] \in Nat /\ g[x] \in Nat /\ h[x] = f[x] + g[x]
    PROVE  SumFunctionOnSet(h, S) = SumFunctionOnSet(f, S) + SumFunctionOnSet(g, S)
<1> DEFINE F(T) == SumFunctionOnSet(f, T)
           G(T) == SumFunctionOnSet(g, T)
           H(T) == SumFunctionOnSet(h, T)
           Good == {T \in SUBSET S : H(T) = F(T) + G(T)}
<1>1. {} \in Good
  BY SumEmpty
<1>2. ASSUME NEW T \in SUBSET S, NEW x \in S \ T, T \in Good PROVE T \cup {x} \in Good
  <2>1. IsFiniteSet(T) /\ \A y \in S : h[y] \in Nat
    BY FS_Subset
  <2>2. /\ F(T \cup {x}) = f[x] + F(T) /\ G(T \cup {x}) = g[x] + G(T)
        /\ H(T \cup {x}) = h[x] + H(T)
    BY <2>1, SumAdded
  <2>3. F(T) \in Nat /\ G(T) \in Nat
    BY <2>1, SumRemove
  <2> HIDE DEF F, G, H
  <2> QED BY <1>2, <2>2, <2>3
<1>3. S \in Good
  <2> HIDE DEF Good
  <2> QED BY <1>1, <1>2, OneByOne
<1> QED BY <1>3

(* Equal in each place, equal in sum. *)
LEMMA SumEqual ==
    ASSUME NEW S, IsFiniteSet(S), NEW f, NEW g, \A x \in S : f[x] \in Nat /\ g[x] = f[x]
    PROVE  SumFunctionOnSet(f, S) = SumFunctionOnSet(g, S)
<1>1. /\ SumFunctionOnSet(f, S) <= SumFunctionOnSet(g, S)
      /\ SumFunctionOnSet(g, S) <= SumFunctionOnSet(f, S)
  BY SumAtMost
<1>2. SumFunctionOnSet(f, S) \in Nat /\ SumFunctionOnSet(g, S) \in Nat
  BY SumRemove
<1> QED BY <1>1, <1>2

(* One place is changed. *)
LEMMA SumChanged ==
    ASSUME NEW S, IsFiniteSet(S), NEW f, NEW g, NEW x \in S, f[x] \in Nat, g[x] \in Nat,
           \A y \in S \ {x} : f[y] \in Nat /\ g[y] = f[y]
    PROVE  SumFunctionOnSet(g, S) + f[x] = SumFunctionOnSet(f, S) + g[x]
<1> DEFINE rest == S \ {x}
<1>1. IsFiniteSet(rest)
  BY FS_Subset
<1>2. /\ SumFunctionOnSet(f, S) = f[x] + SumFunctionOnSet(f, rest)
      /\ SumFunctionOnSet(g, S) = g[x] + SumFunctionOnSet(g, rest)
  BY SumRemove
<1>3. SumFunctionOnSet(f, rest) = SumFunctionOnSet(g, rest) /\ SumFunctionOnSet(f, rest) \in Nat
  BY <1>1, SumEqual, SumRemove
<1> HIDE DEF rest
<1> QED BY <1>2, <1>3

(* Places where there is nothing can be left out. *)
LEMMA SumWithoutZeros ==
    ASSUME NEW S, IsFiniteSet(S), NEW T \in SUBSET S, NEW f,
           \A x \in S : f[x] \in Nat, \A x \in S \ T : f[x] = 0
    PROVE  SumFunctionOnSet(f, S) = SumFunctionOnSet(f, T)
<1> DEFINE Sum(U) == SumFunctionOnSet(f, U)
           Good == {U \in SUBSET (S \ T) : Sum(T \cup U) = Sum(T)}
<1>1. {} \in Good
  BY DEF Sum
<1>2. ASSUME NEW U \in SUBSET (S \ T), NEW x \in (S \ T) \ U, U \in Good PROVE U \cup {x} \in Good
  <2> DEFINE V == T \cup U
  <2>1. V \in SUBSET S /\ x \notin V /\ x \in S /\ T \cup (U \cup {x}) = V \cup {x}
    OBVIOUS
  <2>2. IsFiniteSet(V) /\ \A y \in V \cup {x} : f[y] \in Nat
    BY <2>1, FS_Subset
  <2> HIDE DEF V
  <2>3. Sum(V \cup {x}) = f[x] + Sum(V) /\ Sum(V) \in Nat
    BY <2>1, <2>2, SumAdded, SumRemove
  <2>4. f[x] = 0 /\ Sum(V) = Sum(T)
    BY <1>2 DEF V
  <2> HIDE DEF Sum
  <2>5. Sum(V \cup {x}) = Sum(T)
    BY <2>3, <2>4
  <2>6. Sum(T \cup (U \cup {x})) = Sum(T)
    BY <2>1, <2>5
  <2> QED BY <2>6
<1>3. S \ T \in Good
  <2>1. IsFiniteSet(S \ T)
    BY FS_Subset
  <2> HIDE DEF Good
  <2> QED BY <1>1, <1>2, <2>1, OneByOne
<1>4. T \cup (S \ T) = S
  OBVIOUS
<1> QED BY <1>3, <1>4

(* A part is no more than the whole. *)
LEMMA SumOfPart ==
    ASSUME NEW S, IsFiniteSet(S), NEW T \in SUBSET S, NEW f, \A x \in S : f[x] \in Nat
    PROVE  SumFunctionOnSet(f, T) <= SumFunctionOnSet(f, S)
<1> DEFINE h == [x \in S |-> IF x \in T THEN f[x] ELSE 0]
<1>1. /\ \A x \in S : h[x] \in Nat /\ h[x] <= f[x]
      /\ \A x \in S \ T : h[x] = 0
      /\ \A x \in T : f[x] \in Nat /\ h[x] = f[x]
  OBVIOUS
<1>2. IsFiniteSet(T)
  BY FS_Subset
<1> HIDE DEF h
<1>3. SumFunctionOnSet(h, S) = SumFunctionOnSet(h, T)
  BY <1>1, SumWithoutZeros
<1>4. SumFunctionOnSet(f, T) = SumFunctionOnSet(h, T)
  BY <1>1, <1>2, SumEqual
<1>5. SumFunctionOnSet(h, S) <= SumFunctionOnSet(f, S)
  BY <1>1, SumAtMost
<1> QED BY <1>3, <1>4, <1>5

(* The same numbers under other names. *)
LEMMA SumRenamed ==
    ASSUME NEW S, IsFiniteSet(S), NEW at, NEW f, NEW g,
           \A x, y \in S : at[x] = at[y] => x = y,
           \A x \in S : g[at[x]] \in Nat /\ f[x] = g[at[x]]
    PROVE  SumFunctionOnSet(f, S) = SumFunctionOnSet(g, {at[x] : x \in S})
<1> DEFINE F(T) == SumFunctionOnSet(f, T)
           G(T) == SumFunctionOnSet(g, {at[x] : x \in T})
           Good == {T \in SUBSET S : IsFiniteSet({at[x] : x \in T}) /\ F(T) = G(T)}
<1>1. {} \in Good
  <2>1. {at[x] : x \in {}} = {}
    OBVIOUS
  <2> QED BY <2>1, SumEmpty, FS_EmptySet
<1>2. ASSUME NEW T \in SUBSET S, NEW x \in S \ T, T \in Good PROVE T \cup {x} \in Good
  <2> DEFINE image == {at[y] : y \in T}
  <2>1. {at[y] : y \in T \cup {x}} = image \cup {at[x]} /\ at[x] \notin image
    OBVIOUS
  <2>2. IsFiniteSet(T) /\ IsFiniteSet(image) /\ IsFiniteSet(image \cup {at[x]})
    BY <1>2, FS_Subset, FS_AddElement
  <2>3. (\A y \in T \cup {x} : f[y] \in Nat) /\ \A z \in image \cup {at[x]} : g[z] \in Nat
    OBVIOUS
  <2>4. F(T \cup {x}) = f[x] + F(T)
    BY <2>2, <2>3, SumAdded
  <2> DEFINE sum == SumFunctionOnSet(g, image \cup {at[x]})
  <2>5. sum = g[at[x]] + SumFunctionOnSet(g, image)
    <3> HIDE DEF image
    <3> QED BY <2>1, <2>2, <2>3, SumAdded
  <2>6. G(T \cup {x}) = sum
    BY <2>1
  <2>7. F(T) = SumFunctionOnSet(g, image)
    BY <1>2
  <2> HIDE DEF F, sum
  <2>8. F(T \cup {x}) = sum
    BY <2>4, <2>5, <2>7
  <2>9. T \cup {x} \in SUBSET S /\ IsFiniteSet({at[y] : y \in T \cup {x}})
    BY <2>1, <2>2
  <2> HIDE DEF G
  <2> QED BY <2>6, <2>8, <2>9
<1>3. S \in Good
  <2> HIDE DEF Good
  <2> QED BY <1>1, <1>2, OneByOne
<1> QED BY <1>3
=============================================================================
