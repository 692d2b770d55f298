------------------------------ MODULE SumProofs ------------------------------
(***************************************************************************)
(* Finite sums, and induction over finite sets and natural numbers.        *)
(*                                                                         *)
(* SumFunction of the community modules is a fold: a recursive function on *)
(* the subsets of the domain that takes one member at a time, whichever    *)
(* CHOOSE names.  It is shown to unfold so (SumUnfolds); that any member   *)
(* may be taken (SumTakes), and that sums add up, match along a bijection  *)
(* and grow with their terms, then goes by induction on the subsets of the *)
(* domain.  A property of subsets is the set of those that have it.        *)
(***************************************************************************)
EXTENDS Integers, FiniteSetsExt, FiniteSetTheorems, WellFoundedInduction, TLAPS

(* What holds of {}, and of each set that it holds of without any one of   *)
(* its members, holds of every finite set.                                 *)
LEMMA FiniteInduction ==
  ASSUME NEW S, IsFiniteSet(S), NEW P, {} \in P,
         \A T \in SUBSET S : T # {} /\ (\A x \in T : T \ {x} \in P) => T \in P
  PROVE  S \in P
<1> DEFINE Bad == {T \in SUBSET S : T \notin P}
<1>1. SUFFICES ASSUME Bad # {} PROVE FALSE
  <2>1. S \notin Bad
    BY <1>1
  <2> QED
    BY <2>1
<1>2. IsWellFoundedOn(StrictSubsetOrdering(S), SUBSET S)
  BY FS_StrictSubsetOrderingWellFounded, FS_FiniteSubsetsOfFinite
<1>3. PICK U \in Bad : \A V \in Bad : ~ (<<V, U>> \in StrictSubsetOrdering(S))
  <2>1. Bad \subseteq SUBSET S
    OBVIOUS
  <2> HIDE DEF Bad
  <2> QED
    BY <1>1, <1>2, <2>1, WFMin
<1>4. ASSUME NEW x \in U
      PROVE  U \ {x} \in P
  <2>1. U \ {x} \in SUBSET S /\ U \ {x} # U
    BY <1>4
  <2>2. <<U \ {x}, U>> \in StrictSubsetOrdering(S)
    BY <2>1 DEF StrictSubsetOrdering
  <2> QED
    BY <1>3, <2>1, <2>2
<1> QED
  BY <1>4

(* What holds of 0, and of n + 1 if of n, holds of every natural number.   *)
LEMMA NaturalInduction ==
  ASSUME NEW P, 0 \in P, \A n \in Nat : n \in P => n + 1 \in P
  PROVE  \A n \in Nat : n \in P
<1> DEFINE Bad == {n \in Nat : n \notin P}
<1>1. SUFFICES ASSUME Bad # {} PROVE FALSE
  OBVIOUS
<1>2. PICK n \in Bad : \A m \in Bad : ~ (<<m, n>> \in OpToRel(<, Nat))
  <2>1. Bad \subseteq Nat
    OBVIOUS
  <2> HIDE DEF Bad
  <2> QED
    BY <1>1, <2>1, WFMin, NatLessThanWellFounded
<1>3. n # 0 /\ n - 1 \in Nat /\ n - 1 < n
  OBVIOUS
<1>4. n - 1 \notin Bad
  BY <1>2, <1>3 DEF OpToRel
<1> QED
  BY <1>3, <1>4

Picked(s) == CHOOSE x \in s : TRUE

SumsUpTo(f, S, it) ==
  it = [s \in SUBSET S |-> IF s = {} THEN 0 ELSE LET x == Picked(s) IN f[x] + it[s \ {x}]]

(* SumFunctionOnSet is the fold on all of the set.                         *)
LEMMA SumIs == \A f, S : SumFunctionOnSet(f, S) = (CHOOSE it : SumsUpTo(f, S, it))[S]
BY DEF SumsUpTo, SumFunctionOnSet, FoldFunctionOnSet, MapThenFoldSet, Picked

(* A fold on the subsets of S is one on those of a subset.                 *)
LEMMA SumsRestrict ==
  ASSUME NEW f, NEW S, NEW T \in SUBSET S, NEW it, SumsUpTo(f, S, it),
         NEW on, on = [s \in SUBSET T |-> it[s]]
  PROVE  SumsUpTo(f, T, on)
<1>1. \A s \in SUBSET T : s \in SUBSET S /\ (s # {} => s \ {Picked(s)} \in SUBSET T)
  OBVIOUS
<1>2. \A s \in SUBSET S : it[s] = IF s = {} THEN 0 ELSE f[Picked(s)] + it[s \ {Picked(s)}]
  BY DEF SumsUpTo
<1>3. \A s \in SUBSET T :
        on[s] = IF s = {} THEN 0 ELSE f[Picked(s)] + on[s \ {Picked(s)}]
  BY <1>1, <1>2
<1>4. on = [s \in SUBSET T |-> IF s = {} THEN 0 ELSE f[Picked(s)] + on[s \ {Picked(s)}]]
  BY <1>3
<1> QED
  BY <1>4 DEF SumsUpTo

(* Two folds on the subsets of a finite set agree.                         *)
LEMMA SumsUnique ==
  ASSUME NEW f, NEW S, IsFiniteSet(S), NEW g, NEW h, SumsUpTo(f, S, g), SumsUpTo(f, S, h)
  PROVE  g[S] = h[S]
<1> DEFINE P == {T \in SUBSET S : g[T] = h[T]}
<1>1. \A s \in SUBSET S : /\ g[s] = IF s = {} THEN 0 ELSE f[Picked(s)] + g[s \ {Picked(s)}]
                          /\ h[s] = IF s = {} THEN 0 ELSE f[Picked(s)] + h[s \ {Picked(s)}]
  BY DEF SumsUpTo
<1>2. {} \in P
  BY <1>1
<1>3. ASSUME NEW T \in SUBSET S, T # {}, \A x \in T : T \ {x} \in P
      PROVE  T \in P
  <2>1. Picked(T) \in T
    BY <1>3 DEF Picked
  <2> QED
    BY <1>1, <1>3, <2>1
<1>4. S \in P
  <2> HIDE DEF P
  <2> QED
    BY <1>2, <1>3, FiniteInduction
<1> QED
  BY <1>4

SumsTo(f, s) == CHOOSE it : SumsUpTo(f, s, it)

(* There is one.                                                           *)
LEMMA SumsExist ==
  ASSUME NEW f, NEW S, IsFiniteSet(S)
  PROVE  \E it : SumsUpTo(f, S, it)
<1> DEFINE P == {T \in SUBSET S : \E it : SumsUpTo(f, T, it)}
<1>1. {} \in P
  <2>1. SumsUpTo(f, {}, [s \in SUBSET {} |-> 0])
    BY DEF SumsUpTo
  <2> QED
    BY <2>1
<1>2. ASSUME NEW T \in SUBSET S, T # {}, \A x \in T : T \ {x} \in P
      PROVE  T \in P
  <2> DEFINE it == [s \in SUBSET T |-> IF s = {} THEN 0
                      ELSE f[Picked(s)] + SumsTo(f, s \ {Picked(s)})[s \ {Picked(s)}]]
  <2>1. \A s \in SUBSET T : s # T => SumsUpTo(f, s, SumsTo(f, s))
    <3> SUFFICES ASSUME NEW s \in SUBSET T, s # T
                 PROVE  \E on : SumsUpTo(f, s, on)
      BY DEF SumsTo
    <3>1. PICK x \in T : x \notin s
      OBVIOUS
    <3>2. PICK on : SumsUpTo(f, T \ {x}, on)
      BY <1>2
    <3>3. s \in SUBSET (T \ {x})
      BY <3>1
    <3> QED
      BY <3>2, <3>3, SumsRestrict
  <2>2. ASSUME NEW u \in SUBSET T, u # T
        PROVE  it[u] = SumsTo(f, u)[u]
    <3> DEFINE y == Picked(u)
               on == [s \in SUBSET (u \ {y}) |-> SumsTo(f, u)[s]]
    <3>1. SumsTo(f, u)[u] = IF u = {} THEN 0 ELSE f[y] + SumsTo(f, u)[u \ {y}]
      BY <2>1, <2>2 DEF SumsUpTo
    <3>2. CASE u = {}
      BY <3>1, <3>2
    <3>3. CASE u # {}
      <4> DEFINE w == u \ {y}
      <4>1. w \in SUBSET u /\ w \in SUBSET T /\ w # T
        BY <2>2
      <4>2. SumsUpTo(f, w, on)
        <5>1. on = [s \in SUBSET w |-> SumsTo(f, u)[s]]
          OBVIOUS
        <5>2. SumsUpTo(f, u, SumsTo(f, u))
          BY <2>1, <2>2
        <5> HIDE DEF y, on, it, w
        <5> QED
          BY <4>1, <5>1, <5>2, SumsRestrict
      <4>3. SumsUpTo(f, u \ {y}, SumsTo(f, u \ {y}))
        BY <2>1, <4>1
      <4>4. IsFiniteSet(u \ {y})
        BY FS_Subset, <4>1
      <4>5. on[u \ {y}] = SumsTo(f, u \ {y})[u \ {y}]
        <5> HIDE DEF y, on
        <5> QED
          BY <4>2, <4>3, <4>4, SumsUnique
      <4>6. on[u \ {y}] = SumsTo(f, u)[u \ {y}]
        OBVIOUS
      <4> QED
        BY <3>1, <3>3, <4>5, <4>6
    <3> QED
      BY <3>2, <3>3
  <2>3. ASSUME NEW s \in SUBSET T
        PROVE  it[s] = IF s = {} THEN 0 ELSE f[Picked(s)] + it[s \ {Picked(s)}]
    <3>1. CASE s = {}
      BY <3>1
    <3>2. CASE s # {}
      <4>1. Picked(s) \in s
        BY <3>2 DEF Picked
      <4>2. s \ {Picked(s)} \in SUBSET T /\ s \ {Picked(s)} # T
        BY <4>1
      <4>3. it[s \ {Picked(s)}] = SumsTo(f, s \ {Picked(s)})[s \ {Picked(s)}]
        BY <2>2, <4>2
      <4>4. it[s] = f[Picked(s)] + SumsTo(f, s \ {Picked(s)})[s \ {Picked(s)}]
        BY <3>2
      <4> QED
        BY <3>2, <4>3, <4>4
    <3> QED
      BY <3>1, <3>2
  <2>4. it = [s \in SUBSET T |-> IF s = {} THEN 0 ELSE f[Picked(s)] + it[s \ {Picked(s)}]]
    <3>1. \A s \in SUBSET T : it[s] = IF s = {} THEN 0 ELSE f[Picked(s)] + it[s \ {Picked(s)}]
      BY <2>3
    <3>2. it = [s \in SUBSET T |-> it[s]]
      OBVIOUS
    <3> HIDE DEF it
    <3> QED
      BY <3>1, <3>2
  <2>5. SumsUpTo(f, T, it)
    <3> HIDE DEF it
    <3> QED
      BY <2>4 DEF SumsUpTo
  <2> QED
    BY <2>5
<1>3. S \in P
  <2> HIDE DEF P
  <2> QED
    BY <1>1, <1>2, FiniteInduction
<1> QED
  BY <1>3

Sum(f, S) == SumFunctionOnSet(f, S)

(* A sum is the term of one member and the sum of the others.              *)
LEMMA SumUnfolds ==
  ASSUME NEW f, NEW S, IsFiniteSet(S)
  PROVE  Sum(f, S) = IF S = {} THEN 0 ELSE f[Picked(S)] + Sum(f, S \ {Picked(S)})
<1>1. \A T : Sum(f, T) = SumsTo(f, T)[T]
  BY SumIs DEF Sum, SumsTo
<1>2. SumsUpTo(f, S, SumsTo(f, S))
  BY SumsExist DEF SumsTo
<1>3. SumsTo(f, S)[S] = IF S = {} THEN 0 ELSE f[Picked(S)] + SumsTo(f, S)[S \ {Picked(S)}]
  BY <1>2 DEF SumsUpTo
<1>4. CASE S = {}
  BY <1>1, <1>3, <1>4
<1>5. CASE S # {}
  <2> DEFINE T == S \ {Picked(S)}
             on == [s \in SUBSET T |-> SumsTo(f, S)[s]]
  <2>1. T \in SUBSET S /\ IsFiniteSet(T)
    BY FS_Subset
  <2> HIDE DEF T
  <2>2. SumsUpTo(f, T, on)
    <3>1. on = [s \in SUBSET T |-> SumsTo(f, S)[s]]
      OBVIOUS
    <3> HIDE DEF on
    <3> QED
      BY <1>2, <2>1, <3>1, SumsRestrict
  <2>3. SumsUpTo(f, T, SumsTo(f, T))
    BY <2>1, SumsExist DEF SumsTo
  <2>4. on[T] = SumsTo(f, T)[T]
    <3>1. on[T] = SumsTo(f, S)[T]
      OBVIOUS
    <3> HIDE DEF on
    <3> QED
      BY <2>1, <2>2, <2>3, SumsUnique
  <2>5. on[T] = SumsTo(f, S)[T]
    OBVIOUS
  <2> QED
    BY <1>1, <1>3, <1>5, <2>4, <2>5 DEF T
<1> QED
  BY <1>4, <1>5

(* The empty sum.                                                          *)
LEMMA SumEmpty == \A f : Sum(f, {}) = 0
BY SumUnfolds, FS_EmptySet

(* Sums are numbers.                                                       *)
LEMMA SumType ==
  ASSUME NEW f, NEW S, IsFiniteSet(S), \A x \in S : f[x] \in Int
  PROVE  Sum(f, S) \in Int
<1> DEFINE P == {T \in SUBSET S : Sum(f, T) \in Int}
<1>1. {} \in P
  BY SumEmpty
<1>2. ASSUME NEW T \in SUBSET S, T # {}, \A x \in T : T \ {x} \in P
      PROVE  T \in P
  <2>1. Picked(T) \in T
    BY <1>2 DEF Picked
  <2>2. Sum(f, T) = f[Picked(T)] + Sum(f, T \ {Picked(T)})
    BY <1>2, FS_Subset, SumUnfolds
  <2>3. f[Picked(T)] \in Int /\ Sum(f, T \ {Picked(T)}) \in Int
    BY <1>2, <2>1
  <2>4. Sum(f, T) \in Int
    BY <2>2, <2>3
  <2> QED
    BY <2>4
<1>3. S \in P
  <2> HIDE DEF P
  <2> QED
    BY <1>1, <1>2, FiniteInduction
<1> QED
  BY <1>3

(* Any member can be taken out.                                            *)
LEMMA SumTakes ==
  ASSUME NEW f, NEW S, IsFiniteSet(S), \A x \in S : f[x] \in Int
  PROVE  \A x \in S : Sum(f, S) = f[x] + Sum(f, S \ {x})
<1> DEFINE P == {T \in SUBSET S : \A x \in T : Sum(f, T) = f[x] + Sum(f, T \ {x})}
<1>1. {} \in P
  OBVIOUS
<1>2. ASSUME NEW T \in SUBSET S, T # {}, \A x \in T : T \ {x} \in P
      PROVE  T \in P
  <2> DEFINE y == Picked(T)
  <2>1. y \in T
    BY <1>2 DEF Picked
  <2>2. Sum(f, T) = f[y] + Sum(f, T \ {y})
    BY <1>2, FS_Subset, SumUnfolds
  <2> HIDE DEF y
  <2>3. ASSUME NEW x \in T, x # y
        PROVE  Sum(f, T) = f[x] + Sum(f, T \ {x})
    <3> DEFINE rest == (T \ {y}) \ {x}
    <3>1. Sum(f, T \ {y}) = f[x] + Sum(f, rest)
      BY <1>2, <2>1, <2>3
    <3>2. (T \ {x}) \ {y} = rest
      OBVIOUS
    <3>3. Sum(f, T \ {x}) = f[y] + Sum(f, rest)
      <4>1. y \in T \ {x} /\ T \ {x} \in P
        BY <1>2, <2>1, <2>3
      <4> QED
        BY <3>2, <4>1
    <3>4. rest \in SUBSET S /\ IsFiniteSet(rest)
      BY FS_Subset
    <3> HIDE DEF rest
    <3>5. Sum(f, rest) \in Int
      BY <3>4, SumType
    <3>6. f[x] \in Int /\ f[y] \in Int
      BY <2>1
    <3> QED
      BY <2>2, <3>1, <3>3, <3>5, <3>6
  <2> QED
    BY <2>2, <2>3
<1>3. S \in P
  <2> HIDE DEF P
  <2> QED
    BY <1>1, <1>2, FiniteInduction
<1> QED
  BY <1>3

(* Terms that match one by one sum up to the same.                         *)
LEMMA SumMatches ==
  ASSUME NEW f, NEW S, IsFiniteSet(S), \A x \in S : f[x] \in Int,
         NEW g, NEW T, IsFiniteSet(T), NEW h \in Bijection(S, T), \A x \in S : f[x] = g[h[x]]
  PROVE  Sum(f, S) = Sum(g, T)
<1> DEFINE Image(U) == {h[x] : x \in U}
           P == {U \in SUBSET S : Sum(f, U) = Sum(g, Image(U))}
<1>1. /\ \A x \in S : h[x] \in T
      /\ \A x, y \in S : h[x] = h[y] => x = y
      /\ \A z \in T : \E x \in S : h[x] = z
  BY DEF Bijection, Injection, Surjection, IsInjective
<1>2. {} \in P
  <2>1. Image({}) = {}
    OBVIOUS
  <2> QED
    BY <2>1, SumEmpty
<1>3. \A z \in T : g[z] \in Int
  BY <1>1
<1>4. ASSUME NEW U \in SUBSET S, U # {}, \A x \in U : U \ {x} \in P
      PROVE  U \in P
  <2>1. PICK x \in U : TRUE
    BY <1>4
  <2>2. Sum(f, U) = f[x] + Sum(f, U \ {x})
    BY <2>1, FS_Subset, SumTakes
  <2>3. Image(U) \in SUBSET T /\ h[x] \in Image(U)
    BY <1>1
  <2>4. Image(U \ {x}) = Image(U) \ {h[x]}
    BY <1>1
  <2>5. Sum(f, U \ {x}) = Sum(g, Image(U \ {x}))
    BY <1>4
  <2> HIDE DEF Image
  <2>6. Sum(g, Image(U)) = g[h[x]] + Sum(g, Image(U) \ {h[x]})
    BY <1>3, <2>3, FS_Subset, SumTakes
  <2> QED
    BY <2>2, <2>4, <2>5, <2>6
<1>5. S \in P
  <2> HIDE DEF P
  <2> QED
    BY <1>2, <1>4, FiniteInduction
<1>6. Image(S) = T
  BY <1>1
<1> QED
  BY <1>5, <1>6

(* Two sets of terms without a term in common.                             *)
LEMMA SumSplits ==
  ASSUME NEW f, NEW S, IsFiniteSet(S), \A x \in S : f[x] \in Int, NEW T \in SUBSET S
  PROVE  Sum(f, S) = Sum(f, T) + Sum(f, S \ T)
<1> DEFINE P == {U \in SUBSET S : Sum(f, U) = Sum(f, U \cap T) + Sum(f, U \ T)}
<1>1. {} \in P
  <2>1. {} \cap T = {} /\ {} \ T = {}
    OBVIOUS
  <2> QED
    BY <2>1, SumEmpty
<1>2. ASSUME NEW U \in SUBSET S, U # {}, \A x \in U : U \ {x} \in P
      PROVE  U \in P
  <2>1. PICK x \in U : TRUE
    BY <1>2
  <2> DEFINE A == U \cap T
             B == U \ T
  <2>2. IsFiniteSet(U) /\ IsFiniteSet(A) /\ IsFiniteSet(B)
    BY FS_Subset
  <2>3. f[x] \in Int /\ Sum(f, A \ {x}) \in Int /\ Sum(f, B \ {x}) \in Int
    BY FS_Subset, SumType
  <2>4. (U \ {x}) \cap T = A \ {x} /\ (U \ {x}) \ T = B \ {x}
    OBVIOUS
  <2>5. Sum(f, U \ {x}) = Sum(f, A \ {x}) + Sum(f, B \ {x})
    BY <1>2, <2>4
  <2>6. Sum(f, U) = f[x] + Sum(f, U \ {x})
    BY <2>2, SumTakes
  <2>7. ASSUME x \in T
        PROVE  Sum(f, U) = Sum(f, A) + Sum(f, B)
    <3>1. B \ {x} = B /\ x \in A
      BY <2>7
    <3>2. Sum(f, A) = f[x] + Sum(f, A \ {x})
      BY <2>2, <3>1, SumTakes
    <3> HIDE DEF A, B
    <3>3. Sum(f, B \ {x}) = Sum(f, B)
      BY <3>1
    <3> QED
      BY <2>3, <2>5, <2>6, <3>2, <3>3
  <2>8. ASSUME x \notin T
        PROVE  Sum(f, U) = Sum(f, A) + Sum(f, B)
    <3>1. A \ {x} = A /\ x \in B
      BY <2>8
    <3>2. Sum(f, B) = f[x] + Sum(f, B \ {x})
      BY <2>2, <3>1, SumTakes
    <3> HIDE DEF A, B
    <3>3. Sum(f, A \ {x}) = Sum(f, A)
      BY <3>1
    <3> QED
      BY <2>3, <2>5, <2>6, <3>2, <3>3
  <2> QED
    BY <2>7, <2>8
<1>3. S \in P
  <2> HIDE DEF P
  <2> QED
    BY <1>1, <1>2, FiniteInduction
<1>4. S \cap T = T
  OBVIOUS
<1> QED
  BY <1>3, <1>4

(* A sum of sums.                                                          *)
LEMMA SumAdds ==
  ASSUME NEW f, NEW g, NEW h, NEW S, IsFiniteSet(S),
         \A x \in S : f[x] \in Int /\ g[x] \in Int /\ h[x] = f[x] + g[x]
  PROVE  Sum(h, S) = Sum(f, S) + Sum(g, S)
<1> DEFINE P == {U \in SUBSET S : Sum(h, U) = Sum(f, U) + Sum(g, U)}
<1>1. {} \in P
  BY SumEmpty
<1>2. ASSUME NEW U \in SUBSET S, U # {}, \A x \in U : U \ {x} \in P
      PROVE  U \in P
  <2>1. PICK x \in U : TRUE
    BY <1>2
  <2>2. IsFiniteSet(U) /\ IsFiniteSet(U \ {x})
    BY FS_Subset
  <2>3. /\ f[x] \in Int /\ g[x] \in Int /\ h[x] = f[x] + g[x]
        /\ Sum(f, U \ {x}) \in Int /\ Sum(g, U \ {x}) \in Int
    BY <2>2, SumType
  <2>4. /\ Sum(f, U) = f[x] + Sum(f, U \ {x})
        /\ Sum(g, U) = g[x] + Sum(g, U \ {x})
        /\ Sum(h, U) = h[x] + Sum(h, U \ {x})
    BY <2>2, SumTakes
  <2>5. Sum(h, U \ {x}) = Sum(f, U \ {x}) + Sum(g, U \ {x})
    BY <1>2
  <2> QED
    BY <2>3, <2>4, <2>5
<1>3. S \in P
  <2> HIDE DEF P
  <2> QED
    BY <1>1, <1>2, FiniteInduction
<1> QED
  BY <1>3

(* Terms that are not negative.                                            *)
LEMMA SumOfNaturals ==
  ASSUME NEW f, NEW S, IsFiniteSet(S), \A x \in S : f[x] \in Nat
  PROVE  Sum(f, S) \in Nat
<1> DEFINE P == {T \in SUBSET S : Sum(f, T) \in Nat}
<1>1. {} \in P
  BY SumEmpty
<1>2. ASSUME NEW T \in SUBSET S, T # {}, \A x \in T : T \ {x} \in P
      PROVE  T \in P
  <2>1. PICK x \in T : TRUE
    BY <1>2
  <2>2. Sum(f, T) = f[x] + Sum(f, T \ {x})
    BY <2>1, FS_Subset, SumTakes
  <2>3. f[x] \in Nat /\ Sum(f, T \ {x}) \in Nat
    BY <1>2, <2>1
  <2> QED
    BY <2>2, <2>3
<1>3. S \in P
  <2> HIDE DEF P
  <2> QED
    BY <1>1, <1>2, FiniteInduction
<1> QED
  BY <1>3

(* A sum of zeros.                                                         *)
LEMMA SumOfZeros ==
  ASSUME NEW f, NEW S, IsFiniteSet(S), \A x \in S : f[x] = 0
  PROVE  Sum(f, S) = 0
<1> DEFINE P == {T \in SUBSET S : Sum(f, T) = 0}
<1>1. {} \in P
  BY SumEmpty
<1>2. ASSUME NEW T \in SUBSET S, T # {}, \A x \in T : T \ {x} \in P
      PROVE  T \in P
  <2>1. PICK x \in T : TRUE
    BY <1>2
  <2>2. Sum(f, T) = f[x] + Sum(f, T \ {x})
    BY <2>1, FS_Subset, SumTakes
  <2> QED
    BY <1>2, <2>1, <2>2
<1>3. S \in P
  <2> HIDE DEF P
  <2> QED
    BY <1>1, <1>2, FiniteInduction
<1> QED
  BY <1>3
(* Terms that agree sum up to the same.                                    *)
LEMMA SumSame ==
  ASSUME NEW f, NEW g, NEW S, IsFiniteSet(S), \A x \in S : f[x] \in Int /\ g[x] = f[x]
  PROVE  Sum(g, S) = Sum(f, S)
<1> DEFINE z == [x \in S |-> 0]
<1>1. \A x \in S : f[x] \in Int /\ z[x] \in Int /\ g[x] = f[x] + z[x] /\ z[x] = 0
  OBVIOUS
<1> HIDE DEF z
<1>2. Sum(g, S) = Sum(f, S) + Sum(z, S)
  BY <1>1, SumAdds
<1>3. Sum(z, S) = 0
  BY <1>1, SumOfZeros
<1>4. Sum(f, S) \in Int
  BY SumType
<1> QED
  BY <1>2, <1>3, <1>4

(* Opposite terms have opposite sums.                                      *)
LEMMA SumNegates ==
  ASSUME NEW f, NEW g, NEW S, IsFiniteSet(S), \A x \in S : f[x] \in Int /\ g[x] = -f[x]
  PROVE  Sum(g, S) = -Sum(f, S)
<1> DEFINE z == [x \in S |-> 0]
<1>1. \A x \in S : f[x] \in Int /\ g[x] \in Int /\ z[x] = f[x] + g[x] /\ z[x] = 0
  OBVIOUS
<1> HIDE DEF z
<1>2. Sum(z, S) = Sum(f, S) + Sum(g, S)
  BY <1>1, SumAdds
<1>3. Sum(z, S) = 0
  BY <1>1, SumOfZeros
<1>4. Sum(f, S) \in Int /\ Sum(g, S) \in Int
  BY <1>1, SumType
<1> QED
  BY <1>2, <1>3, <1>4

(* Terms that are zero can be left out.                                    *)
LEMMA SumOfSome ==
  ASSUME NEW f, NEW S, IsFiniteSet(S), NEW T \in SUBSET S,
         \A x \in S : f[x] \in Int, \A x \in S \ T : f[x] = 0
  PROVE  Sum(f, S) = Sum(f, T)
<1>1. IsFiniteSet(S \ T) /\ IsFiniteSet(T)
  BY FS_Subset
<1>2. Sum(f, S) = Sum(f, T) + Sum(f, S \ T)
  BY SumSplits
<1>3. Sum(f, S \ T) = 0
  BY <1>1, SumOfZeros
<1>4. Sum(f, T) \in Int
  BY <1>1, SumType
<1> QED
  BY <1>2, <1>3, <1>4

-----------------------------------------------------------------------------
(* A finite set of integers has a greatest.                                *)
LEMMA HasGreatest ==
  ASSUME NEW S \in SUBSET Int, IsFiniteSet(S), S # {}
  PROVE  \E m \in S : \A x \in S : x <= m
<1> DEFINE P == {T \in SUBSET S : T # {} => \E m \in T : \A x \in T : x <= m}
<1>1. {} \in P
  OBVIOUS
<1>2. ASSUME NEW T \in SUBSET S, T # {}, \A x \in T : T \ {x} \in P
      PROVE  T \in P
  <2>1. PICK y \in T : TRUE
    BY <1>2
  <2>2. CASE T \ {y} = {}
    <3>1. T = {y} /\ y \in Int
      BY <2>1, <2>2
    <3> QED
      BY <3>1
  <2>3. CASE T \ {y} # {}
    <3>1. PICK m \in T \ {y} : \A x \in T \ {y} : x <= m
      BY <1>2, <2>3
    <3>2. m \in Int /\ y \in Int /\ \A x \in T : x \in Int
      OBVIOUS
    <3>3. CASE y <= m
      BY <3>1, <3>3
    <3>4. CASE m < y
      BY <3>1, <3>2, <3>4
    <3> QED
      BY <3>2, <3>3, <3>4
  <2> QED
    BY <2>2, <2>3
<1>3. S \in P
  <2> HIDE DEF P
  <2> QED
    BY <1>1, <1>2, FiniteInduction
<1> QED
  BY <1>3

Increasing(s) == \A i, j \in DOMAIN s : i < j => s[i] < s[j]

(* A finite set of integers can be put in order.                           *)
LEMMA CanBeOrdered ==
  ASSUME NEW S \in SUBSET Int, IsFiniteSet(S)
  PROVE  \E s \in [1..Cardinality(S) -> S] : Increasing(s)
<1> DEFINE P == {T \in SUBSET S : \E s \in [1..Cardinality(T) -> T] : Increasing(s)}
<1>1. {} \in P
  <2>1. Cardinality({}) = 0 /\ 1..0 = {}
    BY FS_EmptySet
  <2>2. [i \in {} |-> 0] \in [1..Cardinality({}) -> {}] /\ Increasing([i \in {} |-> 0])
    BY <2>1 DEF Increasing
  <2> QED
    BY <2>2
<1>2. ASSUME NEW T \in SUBSET S, T # {}, \A x \in T : T \ {x} \in P
      PROVE  T \in P
  <2>1. IsFiniteSet(T)
    BY FS_Subset
  <2>2. PICK m \in T : \A x \in T : x <= m
    BY <1>2, <2>1, HasGreatest
  <2>3. PICK s \in [1..Cardinality(T \ {m}) -> T \ {m}] : Increasing(s)
    BY <1>2
  <2> DEFINE n == Cardinality(T)
             t == [i \in 1..n |-> IF i = n THEN m ELSE s[i]]
  <2>4. n \in Nat /\ n # 0 /\ Cardinality(T \ {m}) = n - 1
    BY <1>2, <2>1, FS_CardinalityType, FS_RemoveElement, FS_EmptySet
  <2> HIDE DEF n
  <2>5. \A i \in 1..n : i # n => i \in 1..(n - 1) /\ s[i] \in T \ {m}
    <3>1. \A i \in 1..n : i # n => i \in 1..(n - 1)
      BY <2>4
    <3>2. s \in [1..(n - 1) -> T \ {m}]
      BY <2>3, <2>4
    <3> QED
      BY <3>1, <3>2
  <2>6. t \in [1..n -> T]
    <3>1. \A i \in 1..n : (IF i = n THEN m ELSE s[i]) \in T
      BY <2>2, <2>5
    <3> QED
      BY <3>1
  <2>7. \A i, j \in 1..n : i < j => t[i] < t[j]
    <3> SUFFICES ASSUME NEW i \in 1..n, NEW j \in 1..n, i < j
                 PROVE  t[i] < t[j]
      OBVIOUS
    <3>1. i # n
      BY <2>4
    <3>a. t[i] = s[i] /\ s[i] \in T \ {m} /\ i \in 1..(n - 1)
      BY <2>5, <3>1
    <3>2. CASE j = n
      <4>1. t[j] = m
        BY <3>2
      <4>2. s[i] \in T /\ s[i] # m /\ s[i] \in Int /\ m \in Int
        BY <2>2, <3>a
      <4>3. s[i] <= m
        BY <2>2, <4>2
      <4> QED
        BY <3>a, <4>1, <4>2, <4>3
    <3>3. CASE j # n
      <4>1. t[j] = s[j] /\ j \in 1..(n - 1)
        BY <2>5, <3>3
      <4>2. DOMAIN s = 1..(n - 1)
        BY <2>3, <2>4
      <4>3. s[i] < s[j]
        BY <2>3, <3>a, <4>1, <4>2 DEF Increasing
      <4> QED
        BY <3>a, <4>1, <4>3
    <3> QED
      BY <3>2, <3>3
  <2>8. Increasing(t) /\ t \in [1..Cardinality(T) -> T]
    BY <2>6, <2>7 DEF Increasing, n
  <2> QED
    BY <2>8
<1>3. S \in P
  <2> HIDE DEF P
  <2> QED
    BY <1>1, <1>2, FiniteInduction
<1> QED
  BY <1>3

(* An ordering of a set goes through all of it, once.                      *)
LEMMA OrderingIsBijection ==
  ASSUME NEW S \in SUBSET Int, IsFiniteSet(S),
         NEW s \in [1..Cardinality(S) -> S], Increasing(s)
  PROVE  s \in Bijection(1..Cardinality(S), S)
<1> DEFINE n == Cardinality(S)
<1>1. n \in Nat
  BY FS_CardinalityType
<1> HIDE DEF n
<1>2. \A i, j \in 1..n : s[i] = s[j] => i = j
  <2> SUFFICES ASSUME NEW i \in 1..n, NEW j \in 1..n, i < j
               PROVE  s[i] # s[j]
    BY <1>1 DEF n
  <2>1. s[i] < s[j] /\ s[i] \in Int /\ s[j] \in Int
    BY DEF Increasing, n
  <2> QED
    BY <2>1
<1>3. s \in Injection(1..n, S)
  BY <1>2 DEF Injection, IsInjective, n
<1>4. IsFiniteSet(1..n) /\ Cardinality(1..n) = n
  BY <1>1, FS_Interval
<1>5. s \in Surjection(1..n, S)
  BY <1>3, <1>4, FS_Injection DEF n
<1> QED
  BY <1>3, <1>5 DEF Bijection, n

=============================================================================
