------------------------------ MODULE SumProofs ------------------------------
(***************************************************************************)
(* Sums of a function over a finite set, as the desks of a trip take them: *)
(* seats, kilometres, litres and money.  An induction over a finite set is *)
(* stated for a set of its subsets, so that the lemmas are about every     *)
(* function and every set.                                                 *)
(***************************************************************************)
EXTENDS Integers, Functions, FiniteSetTheorems, WellFoundedInduction, TLAPS

LEMMA LeastNatural ==
  ASSUME NEW Q, Q \subseteq Nat, Q # {}
  PROVE  \E n \in Q : \A m \in Q : n <= m
<1>. DEFINE R == {ss \in Nat \X Nat : ss[1] < ss[2]}
<1>1. IsWellFoundedOn(R, Nat)
  BY NatLessThanWellFounded, Zenon DEF OpToRel
<1>. HIDE DEF R
<1>2. PICK n \in Q : \A m \in Q : ~(<<m, n>> \in R)
  BY <1>1, WFMin
<1>3. ASSUME NEW m \in Q PROVE n <= m
  <2>1. <<m, n>> \in Nat \X Nat /\ <<m, n>> \notin R
    BY <1>2, <1>3
  <2>. QED
    BY <2>1 DEF R
<1>. QED
  BY <1>3

\* A set of sets that holds whatever lacks one element only of what it holds has
\* every subset of a finite set.
LEMMA SubsetInduction ==
  ASSUME NEW S, IsFiniteSet(S), NEW Q,
         \A T \in SUBSET S : (\A x \in T : T \ {x} \in Q) => T \in Q
  PROVE  S \in Q /\ \A T \in SUBSET S : T \in Q
<1>. DEFINE sizes == {Cardinality(T) : T \in (SUBSET S) \ Q}
<1>1. ASSUME NEW T \in SUBSET S, T \notin Q
      PROVE  FALSE
  <2>1. \A U \in SUBSET S : IsFiniteSet(U) /\ Cardinality(U) \in Nat
    BY FS_Subset, FS_CardinalityType
  <2>2. sizes \subseteq Nat /\ sizes # {}
    BY <1>1, <2>1
  <2>3. PICK n \in sizes : \A m \in sizes : n <= m
    BY <2>2, LeastNatural
  <2>4. PICK U \in (SUBSET S) \ Q : Cardinality(U) = n
    OBVIOUS
  <2>5. ASSUME NEW x \in U PROVE U \ {x} \in Q
    <3>1. Cardinality(U \ {x}) = Cardinality(U) - 1 /\ U \ {x} \in SUBSET S
      BY <2>1, <2>4, FS_RemoveElement
    <3>2. Cardinality(U \ {x}) \notin sizes
      BY <2>1, <2>3, <2>4, <3>1
    <3>. QED
      BY <3>1, <3>2
  <2>. QED
    BY <2>4, <2>5
<1>. QED
  BY <1>1

-------------------------------------------------------------------------------
(***************************************************************************)
(* The recursion of the community module is well-founded                   *)
(***************************************************************************)

Integral(f, S) == \A x \in S : f[x] \in Int

\* One unfolding of the sum.
Unfolded(f, s, g) ==
  IF s = {} THEN 0 ELSE f[CHOOSE x \in s : TRUE] + g[s \ {CHOOSE x \in s : TRUE}]
SumsUpTo(f, D, g) == g \in [D -> Int] /\ \A s \in D : g[s] = Unfolded(f, s, g)

LEMMA SumIsChosen ==
  ASSUME NEW f, NEW S
  PROVE  SumFunctionOnSet(f, S) = (CHOOSE g : g = [s \in SUBSET S |-> Unfolded(f, s, g)])[S]
BY DEF SumFunctionOnSet, FoldFunctionOnSet, MapThenFoldSet, Unfolded

LEMMA SumsExist ==
  ASSUME NEW f, NEW S, IsFiniteSet(S), Integral(f, S)
  PROVE  \E g : SumsUpTo(f, SUBSET S, g)
<1>. DEFINE D(n) == {s \in SUBSET S : Cardinality(s) <= n}
            bad == {n \in Nat : ~\E g : SumsUpTo(f, D(n), g)}
<1>1. \A s \in SUBSET S : /\ IsFiniteSet(s) /\ Cardinality(s) \in Nat
                          /\ Cardinality(s) <= Cardinality(S)
                          /\ Cardinality(s) = 0 <=> s = {}
  BY FS_Subset, FS_CardinalityType, FS_EmptySet
<1>2. ASSUME NEW s \in SUBSET S, s # {}
      PROVE  /\ (CHOOSE x \in s : TRUE) \in s
             /\ s \ {CHOOSE x \in s : TRUE} \in SUBSET S
             /\ Cardinality(s \ {CHOOSE x \in s : TRUE}) = Cardinality(s) - 1
  <2>1. (CHOOSE x \in s : TRUE) \in s
    BY <1>2
  <2>. QED
    BY <1>1, <2>1, FS_RemoveElement
<1>3. 0 \notin bad
  <2>. DEFINE g == [s \in D(0) |-> 0]
  <2>1. \A s \in D(0) : s = {}
    BY <1>1
  <2>2. SumsUpTo(f, D(0), g)
    BY <2>1 DEF SumsUpTo, Unfolded
  <2>. QED
    BY <2>2
<1>4. ASSUME NEW n \in Nat, n \notin bad
      PROVE  n + 1 \notin bad
  <2>1. PICK g : SumsUpTo(f, D(n), g)
    BY <1>4
  <2>. DEFINE h == [s \in D(n + 1) |-> Unfolded(f, s, g)]
  <2>2. ASSUME NEW s \in D(n + 1) PROVE h[s] \in Int /\ h[s] = Unfolded(f, s, h)
    <3>1. CASE s = {}
      BY <2>2, <3>1 DEF Unfolded
    <3>2. CASE s # {}
      <4>. DEFINE x == CHOOSE y \in s : TRUE
      <4>1. x \in s /\ s \ {x} \in D(n) /\ s \ {x} \in D(n + 1)
        BY <1>1, <1>2, <2>2, <3>2
      <4>. HIDE DEF x
      <4>2. g[s \ {x}] \in Int /\ f[x] \in Int
        BY <2>1, <2>2, <4>1 DEF SumsUpTo, Integral
      <4>3. h[s \ {x}] = g[s \ {x}]
        BY <2>1, <4>1 DEF SumsUpTo
      <4>4. h[s] = f[x] + g[s \ {x}] /\ Unfolded(f, s, h) = f[x] + h[s \ {x}]
        BY <2>2, <3>2 DEF Unfolded, x
      <4>. QED
        BY <4>2, <4>3, <4>4
    <3>. QED
      BY <3>1, <3>2
  <2>3. SumsUpTo(f, D(n + 1), h)
    <3>. HIDE DEF D
    <3>. QED
      BY <2>2 DEF SumsUpTo
  <2>. QED
    BY <2>3
<1>5. bad = {}
  <2>1. ASSUME bad # {} PROVE FALSE
    <3>. HIDE DEF bad
    <3>1. bad \subseteq Nat
      BY DEF bad
    <3>2. PICK n \in bad : \A m \in bad : n <= m
      BY <2>1, <3>1, LeastNatural
    <3>3. n # 0 /\ n - 1 \in Nat /\ n - 1 \notin bad
      BY <1>3, <3>1, <3>2
    <3>4. (n - 1) + 1 \notin bad
      BY <1>4, <3>3
    <3>. QED
      BY <3>1, <3>2, <3>4
  <2>. QED
    BY <2>1
<1>6. Cardinality(S) \in Nat /\ D(Cardinality(S)) = SUBSET S
  BY <1>1
<1>7. \E g : SumsUpTo(f, D(Cardinality(S)), g)
  BY <1>5, <1>6
<1>. QED
  <2>. HIDE DEF D
  <2>. QED
    BY <1>6, <1>7

LEMMA SumsAgree ==
  ASSUME NEW f, NEW S, IsFiniteSet(S), NEW T \in SUBSET S, NEW g, NEW h,
         SumsUpTo(f, SUBSET S, g), SumsUpTo(f, SUBSET T, h)
  PROVE  g[T] = h[T]
<1>. DEFINE Q == {U \in SUBSET T : g[U] = h[U]}
<1>1. ASSUME NEW U \in SUBSET T, \A x \in U : U \ {x} \in Q
      PROVE  U \in Q
  <2>1. CASE U = {}
    BY <2>1 DEF SumsUpTo, Unfolded
  <2>2. CASE U # {}
    <3>. DEFINE x == CHOOSE y \in U : TRUE
    <3>1. x \in U
      BY <2>2
    <3>2. g[U \ {x}] = h[U \ {x}]
      BY <1>1, <3>1
    <3>3. g[U] = f[x] + g[U \ {x}] /\ h[U] = f[x] + h[U \ {x}]
      BY <2>2 DEF SumsUpTo, Unfolded
    <3>. QED
      BY <3>2, <3>3
  <2>. QED
    BY <2>1, <2>2
<1>2. IsFiniteSet(T)
  BY FS_Subset
<1>. HIDE DEF Q
<1>3. T \in Q
  BY <1>1, <1>2, SubsetInduction
<1>. QED
  BY <1>3 DEF Q

LEMMA SumIsUnfolded ==
  ASSUME NEW f, NEW S, IsFiniteSet(S), Integral(f, S)
  PROVE  \E g : SumsUpTo(f, SUBSET S, g) /\ SumFunctionOnSet(f, S) = g[S]
<1>. DEFINE P(g) == g = [s \in SUBSET S |-> Unfolded(f, s, g)]
            chosen == CHOOSE g : P(g)
<1>1. PICK g : SumsUpTo(f, SUBSET S, g)
  BY SumsExist
<1>2. P(g)
  BY <1>1 DEF SumsUpTo
<1>3. P(chosen)
  <2>. HIDE DEF P
  <2>. QED
    BY <1>2
<1>4. SumFunctionOnSet(f, S) = chosen[S]
  BY SumIsChosen
<1>. DEFINE Q == {U \in SUBSET S : chosen[U] \in Int}
<1>5. ASSUME NEW U \in SUBSET S, \A x \in U : U \ {x} \in Q
      PROVE  U \in Q
  <2>. HIDE DEF chosen
  <2>1. chosen[U] = Unfolded(f, U, chosen)
    BY <1>3
  <2>2. CASE U = {}
    BY <2>1, <2>2 DEF Unfolded
  <2>3. CASE U # {}
    <3>. DEFINE x == CHOOSE y \in U : TRUE
    <3>1. x \in U
      BY <2>3
    <3>2. chosen[U \ {x}] \in Int /\ f[x] \in Int
      BY <1>5, <3>1 DEF Integral
    <3>3. chosen[U] = f[x] + chosen[U \ {x}]
      BY <2>1, <2>3 DEF Unfolded
    <3>. QED
      BY <3>2, <3>3
  <2>. QED
    BY <2>2, <2>3
<1>6. \A U \in SUBSET S : U \in Q
  <2>. HIDE DEF Q
  <2>. QED
    BY <1>5, SubsetInduction
<1>7. SumsUpTo(f, SUBSET S, chosen)
  <2>. HIDE DEF chosen
  <2>1. \A U \in SUBSET S : chosen[U] \in Int /\ chosen[U] = Unfolded(f, U, chosen)
    BY <1>3, <1>6
  <2>2. chosen \in [SUBSET S -> Int]
    BY <1>3, <2>1
  <2>. QED
    BY <2>1, <2>2 DEF SumsUpTo
<1>. QED
  BY <1>4, <1>7

-------------------------------------------------------------------------------
(***************************************************************************)
(* What the proofs use of a sum                                            *)
(***************************************************************************)

LEMMA SumOfNone ==
  ASSUME NEW f
  PROVE  SumFunctionOnSet(f, {}) = 0
<1>1. IsFiniteSet({}) /\ Integral(f, {})
  BY FS_EmptySet DEF Integral
<1>2. PICK g : SumsUpTo(f, SUBSET {}, g) /\ SumFunctionOnSet(f, {}) = g[{}]
  BY <1>1, SumIsUnfolded
<1>3. {} \in SUBSET {}
  OBVIOUS
<1>4. g[{}] = Unfolded(f, {}, g)
  BY <1>2, <1>3 DEF SumsUpTo
<1>. QED
  BY <1>2, <1>4 DEF Unfolded

LEMMA SumUnfolds ==
  ASSUME NEW f, NEW S, IsFiniteSet(S), Integral(f, S), S # {}
  PROVE  \E x \in S : SumFunctionOnSet(f, S) = f[x] + SumFunctionOnSet(f, S \ {x})
<1>. DEFINE x == CHOOSE y \in S : TRUE
<1>1. x \in S /\ S \ {x} \in SUBSET S
  OBVIOUS
<1>. HIDE DEF x
<1>2. IsFiniteSet(S \ {x}) /\ Integral(f, S \ {x})
  BY <1>1, FS_Subset DEF Integral
<1>3. PICK g : SumsUpTo(f, SUBSET S, g) /\ SumFunctionOnSet(f, S) = g[S]
  BY SumIsUnfolded
<1>4. PICK h : /\ SumsUpTo(f, SUBSET (S \ {x}), h)
               /\ SumFunctionOnSet(f, S \ {x}) = h[S \ {x}]
  BY <1>2, SumIsUnfolded
<1>5. g[S \ {x}] = h[S \ {x}]
  <2>. DEFINE T == S \ {x}
  <2>1. T \in SUBSET S /\ SumsUpTo(f, SUBSET T, h)
    BY <1>1, <1>4
  <2>. HIDE DEF T
  <2>2. g[T] = h[T]
    BY <1>3, <2>1, SumsAgree
  <2>. QED
    BY <2>2 DEF T
<1>6. g[S] = f[x] + g[S \ {x}]
  BY <1>3 DEF SumsUpTo, Unfolded, x
<1>. QED
  BY <1>1, <1>3, <1>4, <1>5, <1>6

LEMMA SumIsInt ==
  ASSUME NEW f, NEW S, IsFiniteSet(S), Integral(f, S)
  PROVE  SumFunctionOnSet(f, S) \in Int
<1>1. PICK g : SumsUpTo(f, SUBSET S, g) /\ SumFunctionOnSet(f, S) = g[S]
  BY SumIsUnfolded
<1>. QED
  BY <1>1 DEF SumsUpTo

\* Any element may be taken first.
LEMMA SumTakes ==
  ASSUME NEW f, NEW S, IsFiniteSet(S), Integral(f, S), NEW x \in S
  PROVE  SumFunctionOnSet(f, S) = f[x] + SumFunctionOnSet(f, S \ {x})
<1>. DEFINE Takes(T) == \A y \in T :
              SumFunctionOnSet(f, T) = f[y] + SumFunctionOnSet(f, T \ {y})
            Q == {T \in SUBSET S : Takes(T)}
<1>1. ASSUME NEW T \in SUBSET S PROVE IsFiniteSet(T) /\ Integral(f, T)
  BY FS_Subset DEF Integral
<1>2. ASSUME NEW T \in SUBSET S, \A y \in T : T \ {y} \in Q, NEW y \in T
      PROVE  SumFunctionOnSet(f, T) = f[y] + SumFunctionOnSet(f, T \ {y})
  <2>1. PICK z \in T : SumFunctionOnSet(f, T) = f[z] + SumFunctionOnSet(f, T \ {z})
    BY <1>1, <1>2, SumUnfolds
  <2>2. CASE y = z
    BY <2>1, <2>2
  <2>3. CASE y # z
    <3>. DEFINE rest == (T \ {z}) \ {y}
    <3>1. rest = (T \ {y}) \ {z} /\ rest \in SUBSET S
      OBVIOUS
    <3>2. SumFunctionOnSet(f, T \ {z}) = f[y] + SumFunctionOnSet(f, rest)
      BY <1>2, <2>3
    <3>3. SumFunctionOnSet(f, T \ {y}) = f[z] + SumFunctionOnSet(f, rest)
      BY <1>2, <2>3, <3>1
    <3>4. SumFunctionOnSet(f, rest) \in Int /\ f[y] \in Int /\ f[z] \in Int
      BY <1>1, <1>2, <3>1, SumIsInt DEF Integral
    <3>. QED
      BY <2>1, <3>2, <3>3, <3>4
  <2>. QED
    BY <2>2, <2>3
<1>3. \A T \in SUBSET S : (\A y \in T : T \ {y} \in Q) => T \in Q
  BY <1>2
<1>. HIDE DEF Q
<1>4. S \in Q
  BY <1>3, SubsetInduction
<1>. QED
  BY <1>4 DEF Q

LEMMA SumAtMost ==
  ASSUME NEW f, NEW g, NEW S, IsFiniteSet(S), Integral(f, S), Integral(g, S),
         \A x \in S : f[x] <= g[x]
  PROVE  SumFunctionOnSet(f, S) <= SumFunctionOnSet(g, S)
<1>. DEFINE Q == {T \in SUBSET S : SumFunctionOnSet(f, T) <= SumFunctionOnSet(g, T)}
<1>1. ASSUME NEW T \in SUBSET S, \A x \in T : T \ {x} \in Q
      PROVE  SumFunctionOnSet(f, T) <= SumFunctionOnSet(g, T)
  <2>1. CASE T = {}
    BY <2>1, SumOfNone
  <2>2. CASE T # {}
    <3>1. PICK x \in T : TRUE
      BY <2>2
    <3>2. IsFiniteSet(T) /\ IsFiniteSet(T \ {x})
      BY FS_Subset, FS_RemoveElement
    <3>3. Integral(f, T) /\ Integral(g, T) /\ Integral(f, T \ {x}) /\ Integral(g, T \ {x})
      BY DEF Integral
    <3>4. /\ SumFunctionOnSet(f, T) = f[x] + SumFunctionOnSet(f, T \ {x})
          /\ SumFunctionOnSet(g, T) = g[x] + SumFunctionOnSet(g, T \ {x})
      BY <3>2, <3>3, SumTakes
    <3>5. SumFunctionOnSet(f, T \ {x}) \in Int /\ SumFunctionOnSet(g, T \ {x}) \in Int
      BY <3>2, <3>3, SumIsInt
    <3>6. SumFunctionOnSet(f, T \ {x}) <= SumFunctionOnSet(g, T \ {x})
      BY <1>1
    <3>7. f[x] \in Int /\ g[x] \in Int /\ f[x] <= g[x]
      BY DEF Integral
    <3>. QED
      BY <3>4, <3>5, <3>6, <3>7
  <2>. QED
    BY <2>1, <2>2
<1>2. \A T \in SUBSET S : (\A x \in T : T \ {x} \in Q) => T \in Q
  BY <1>1
<1>. HIDE DEF Q
<1>3. S \in Q
  BY <1>2, SubsetInduction
<1>. QED
  BY <1>3 DEF Q

\* Only the values on the set matter.
LEMMA SumOfSame ==
  ASSUME NEW f, NEW g, NEW S, IsFiniteSet(S), Integral(f, S),
         \A x \in S : f[x] = g[x]
  PROVE  SumFunctionOnSet(f, S) = SumFunctionOnSet(g, S)
<1>1. Integral(g, S)
  BY DEF Integral
<1>2. \A x \in S : f[x] <= g[x] /\ g[x] <= f[x]
  BY DEF Integral
<1>3. SumFunctionOnSet(f, S) <= SumFunctionOnSet(g, S) /\ SumFunctionOnSet(g, S) <= SumFunctionOnSet(f, S)
  BY <1>1, <1>2, SumAtMost
<1>. QED
  BY <1>1, <1>3, SumIsInt

LEMMA SumIsNat ==
  ASSUME NEW f, NEW S, IsFiniteSet(S), \A x \in S : f[x] \in Nat
  PROVE  SumFunctionOnSet(f, S) \in Nat
<1>. DEFINE Q == {T \in SUBSET S : SumFunctionOnSet(f, T) \in Nat}
<1>1. ASSUME NEW T \in SUBSET S, \A x \in T : T \ {x} \in Q
      PROVE  SumFunctionOnSet(f, T) \in Nat
  <2>1. CASE T = {}
    BY <2>1, SumOfNone
  <2>2. CASE T # {}
    <3>1. PICK x \in T : TRUE
      BY <2>2
    <3>2. IsFiniteSet(T) /\ Integral(f, T)
      BY FS_Subset DEF Integral
    <3>3. SumFunctionOnSet(f, T) = f[x] + SumFunctionOnSet(f, T \ {x})
      BY <3>2, SumTakes
    <3>4. SumFunctionOnSet(f, T \ {x}) \in Nat /\ f[x] \in Nat
      BY <1>1
    <3>. QED
      BY <3>3, <3>4
  <2>. QED
    BY <2>1, <2>2
<1>2. \A T \in SUBSET S : (\A x \in T : T \ {x} \in Q) => T \in Q
  BY <1>1
<1>. HIDE DEF Q
<1>3. S \in Q
  BY <1>2, SubsetInduction
<1>. QED
  BY <1>3 DEF Q

\* What adds nothing may be left out.
LEMMA SumOverSubset ==
  ASSUME NEW f, NEW S, IsFiniteSet(S), Integral(f, S), NEW U \in SUBSET S,
         \A x \in S \ U : f[x] = 0
  PROVE  SumFunctionOnSet(f, U) = SumFunctionOnSet(f, S)
<1>. DEFINE Q == {T \in SUBSET S : SumFunctionOnSet(f, T \cap U) = SumFunctionOnSet(f, T)}
<1>1. ASSUME NEW T \in SUBSET S, \A x \in T : T \ {x} \in Q
      PROVE  SumFunctionOnSet(f, T \cap U) = SumFunctionOnSet(f, T)
  <2>1. CASE T = {}
    <3>1. T \cap U = T
      BY <2>1
    <3>. QED
      BY <3>1
  <2>2. CASE T # {}
    <3>1. PICK x \in T : TRUE
      BY <2>2
    <3>2. /\ IsFiniteSet(T) /\ Integral(f, T)
          /\ IsFiniteSet(T \ {x}) /\ Integral(f, T \ {x})
          /\ IsFiniteSet(T \cap U) /\ Integral(f, T \cap U)
      BY FS_Subset DEF Integral
    <3>3. SumFunctionOnSet(f, T) = f[x] + SumFunctionOnSet(f, T \ {x})
      BY <3>2, SumTakes
    <3>4. SumFunctionOnSet(f, (T \ {x}) \cap U) = SumFunctionOnSet(f, T \ {x})
      BY <1>1
    <3>5. CASE x \in U
      <4>1. x \in T \cap U /\ (T \cap U) \ {x} = (T \ {x}) \cap U
        BY <3>5
      <4>2. SumFunctionOnSet(f, T \cap U) = f[x] + SumFunctionOnSet(f, (T \cap U) \ {x})
        BY <3>2, <4>1, SumTakes
      <4>. QED
        BY <3>3, <3>4, <4>1, <4>2
    <3>6. CASE x \notin U
      <4>1. T \cap U = (T \ {x}) \cap U /\ f[x] = 0
        BY <3>6
      <4>2. SumFunctionOnSet(f, T \ {x}) \in Int
        BY <3>2, SumIsInt
      <4>. QED
        BY <3>3, <3>4, <4>1, <4>2
    <3>. QED
      BY <3>5, <3>6
  <2>. QED
    BY <2>1, <2>2
<1>2. \A T \in SUBSET S : (\A x \in T : T \ {x} \in Q) => T \in Q
  BY <1>1
<1>. HIDE DEF Q
<1>3. S \in Q
  BY <1>2, SubsetInduction
<1>4. S \cap U = U
  OBVIOUS
<1>. QED
  BY <1>3, <1>4 DEF Q

LEMMA SumScales ==
  ASSUME NEW f, NEW g, NEW S, IsFiniteSet(S), Integral(g, S), NEW k \in Int,
         \A x \in S : f[x] = k * g[x]
  PROVE  SumFunctionOnSet(f, S) = k * SumFunctionOnSet(g, S)
<1>. DEFINE Q == {T \in SUBSET S : SumFunctionOnSet(f, T) = k * SumFunctionOnSet(g, T)}
<1>1. ASSUME NEW T \in SUBSET S, \A x \in T : T \ {x} \in Q
      PROVE  SumFunctionOnSet(f, T) = k * SumFunctionOnSet(g, T)
  <2>1. CASE T = {}
    BY <2>1, SumOfNone
  <2>2. CASE T # {}
    <3>1. PICK x \in T : TRUE
      BY <2>2
    <3>2. \A y \in T : f[y] \in Int /\ g[y] \in Int
      BY DEF Integral
    <3>3. /\ IsFiniteSet(T) /\ Integral(f, T) /\ Integral(g, T)
          /\ IsFiniteSet(T \ {x}) /\ Integral(g, T \ {x})
      BY <3>2, FS_Subset, FS_RemoveElement DEF Integral
    <3>4. /\ SumFunctionOnSet(f, T) = f[x] + SumFunctionOnSet(f, T \ {x})
          /\ SumFunctionOnSet(g, T) = g[x] + SumFunctionOnSet(g, T \ {x})
      BY <3>3, SumTakes
    <3>5. SumFunctionOnSet(g, T \ {x}) \in Int /\ g[x] \in Int
      BY <3>2, <3>3, SumIsInt
    <3>6. SumFunctionOnSet(f, T \ {x}) = k * SumFunctionOnSet(g, T \ {x}) /\ f[x] = k * g[x]
      BY <1>1
    <3>7. \A a, b \in Int : k * a + k * b = k * (a + b)
      OBVIOUS
    <3>. QED
      BY <3>4, <3>5, <3>6, <3>7
  <2>. QED
    BY <2>1, <2>2
<1>2. \A T \in SUBSET S : (\A x \in T : T \ {x} \in Q) => T \in Q
  BY <1>1
<1>. HIDE DEF Q
<1>3. S \in Q
  BY <1>2, SubsetInduction
<1>. QED
  BY <1>3 DEF Q

\* The same values under other names.
LEMMA SumRenames ==
  ASSUME NEW f, NEW g, NEW h, NEW S, IsFiniteSet(S), Integral(f, S),
         \A x \in S : f[x] = g[h[x]],
         \A x, y \in S : h[x] = h[y] => x = y
  PROVE  SumFunctionOnSet(f, S) = SumFunctionOnSet(g, {h[x] : x \in S})
<1>. DEFINE Named(T) == {h[x] : x \in T}
            Q == {T \in SUBSET S : /\ IsFiniteSet(Named(T))
                                   /\ SumFunctionOnSet(f, T) = SumFunctionOnSet(g, Named(T))}
<1>1. ASSUME NEW T \in SUBSET S, \A x \in T : T \ {x} \in Q
      PROVE  /\ IsFiniteSet(Named(T))
             /\ SumFunctionOnSet(f, T) = SumFunctionOnSet(g, Named(T))
  <2>1. CASE T = {}
    <3>1. Named(T) = {}
      BY <2>1
    <3>. QED
      BY <2>1, <3>1, SumOfNone, FS_EmptySet
  <2>2. CASE T # {}
    <3>1. PICK x \in T : TRUE
      BY <2>2
    <3>. DEFINE whole == Named(T)
                less == Named(T \ {x})
                n == h[x]
    <3>2. IsFiniteSet(less) /\ SumFunctionOnSet(f, T \ {x}) = SumFunctionOnSet(g, less)
      BY <1>1
    <3>3. n \in whole /\ whole = less \cup {n} /\ whole \ {n} = less
      OBVIOUS
    <3>4. Integral(g, whole) /\ g[n] = f[x]
      BY DEF Integral
    <3>5. IsFiniteSet(T) /\ Integral(f, T)
      BY FS_Subset DEF Integral
    <3>. HIDE DEF whole, less, n
    <3>6. IsFiniteSet(whole)
      BY <3>2, <3>3, FS_AddElement
    <3>7. SumFunctionOnSet(g, whole) = g[n] + SumFunctionOnSet(g, less)
      BY <3>3, <3>4, <3>6, SumTakes
    <3>8. SumFunctionOnSet(f, T) = f[x] + SumFunctionOnSet(f, T \ {x})
      BY <3>5, SumTakes
    <3>9. IsFiniteSet(whole) /\ SumFunctionOnSet(f, T) = SumFunctionOnSet(g, whole)
      BY <3>2, <3>4, <3>6, <3>7, <3>8
    <3>. QED
      BY <3>9 DEF whole
  <2>. QED
    BY <2>1, <2>2
<1>2. \A T \in SUBSET S : (\A x \in T : T \ {x} \in Q) => T \in Q
  BY <1>1
<1>. HIDE DEF Q
<1>3. S \in Q
  BY <1>2, SubsetInduction
<1>. QED
  BY <1>3 DEF Q

\* The sum of a sum.
LEMMA SumAdds ==
  ASSUME NEW f, NEW g, NEW h, NEW S, IsFiniteSet(S), Integral(f, S), Integral(g, S),
         \A x \in S : h[x] = f[x] + g[x]
  PROVE  SumFunctionOnSet(h, S) = SumFunctionOnSet(f, S) + SumFunctionOnSet(g, S)
<1>. DEFINE Q == {T \in SUBSET S : SumFunctionOnSet(h, T)
                                     = SumFunctionOnSet(f, T) + SumFunctionOnSet(g, T)}
<1>1. ASSUME NEW T \in SUBSET S, \A x \in T : T \ {x} \in Q
      PROVE  SumFunctionOnSet(h, T) = SumFunctionOnSet(f, T) + SumFunctionOnSet(g, T)
  <2>1. CASE T = {}
    BY <2>1, SumOfNone
  <2>2. CASE T # {}
    <3>1. PICK x \in T : TRUE
      BY <2>2
    <3>2. \A y \in T : f[y] \in Int /\ g[y] \in Int /\ h[y] \in Int
      BY DEF Integral
    <3>3. /\ IsFiniteSet(T) /\ Integral(f, T) /\ Integral(g, T) /\ Integral(h, T)
          /\ IsFiniteSet(T \ {x}) /\ Integral(f, T \ {x}) /\ Integral(g, T \ {x})
      BY <3>2, FS_Subset, FS_RemoveElement DEF Integral
    <3>4. /\ SumFunctionOnSet(f, T) = f[x] + SumFunctionOnSet(f, T \ {x})
          /\ SumFunctionOnSet(g, T) = g[x] + SumFunctionOnSet(g, T \ {x})
          /\ SumFunctionOnSet(h, T) = h[x] + SumFunctionOnSet(h, T \ {x})
      BY <3>3, SumTakes
    <3>5. /\ SumFunctionOnSet(f, T \ {x}) \in Int /\ SumFunctionOnSet(g, T \ {x}) \in Int
          /\ f[x] \in Int /\ g[x] \in Int
      BY <3>2, <3>3, SumIsInt
    <3>6. /\ SumFunctionOnSet(h, T \ {x}) = SumFunctionOnSet(f, T \ {x}) + SumFunctionOnSet(g, T \ {x})
          /\ h[x] = f[x] + g[x]
      BY <1>1
    <3>. QED
      BY <3>4, <3>5, <3>6
  <2>. QED
    BY <2>1, <2>2
<1>2. \A T \in SUBSET S : (\A x \in T : T \ {x} \in Q) => T \in Q
  BY <1>1
<1>. HIDE DEF Q
<1>3. S \in Q
  BY <1>2, SubsetInduction
<1>. QED
  BY <1>3 DEF Q

\* A sum over two sets that have nothing in common.
LEMMA SumOfBoth ==
  ASSUME NEW f, NEW S, IsFiniteSet(S), Integral(f, S), NEW U \in SUBSET S
  PROVE  SumFunctionOnSet(f, S) = SumFunctionOnSet(f, U) + SumFunctionOnSet(f, S \ U)
<1>. DEFINE inside == [x \in S |-> IF x \in U THEN f[x] ELSE 0]
            outside == [x \in S |-> IF x \in U THEN 0 ELSE f[x]]
<1>1. /\ IsFiniteSet(U) /\ IsFiniteSet(S \ U) /\ S \ U \in SUBSET S
      /\ Integral(f, U) /\ Integral(f, S \ U) /\ \A x \in S : f[x] \in Int
  BY FS_Subset DEF Integral
<1>2. Integral(inside, S) /\ Integral(outside, S) /\ \A x \in S : f[x] = inside[x] + outside[x]
  BY <1>1 DEF Integral
<1>3. /\ \A x \in S \ U : inside[x] = 0
      /\ \A x \in S \ (S \ U) : outside[x] = 0
      /\ \A x \in U : f[x] = inside[x]
      /\ \A x \in S \ U : f[x] = outside[x]
  OBVIOUS
<1>. HIDE DEF inside, outside
<1>4. SumFunctionOnSet(f, S) = SumFunctionOnSet(inside, S) + SumFunctionOnSet(outside, S)
  BY <1>2, SumAdds
<1>5. SumFunctionOnSet(inside, U) = SumFunctionOnSet(inside, S)
  BY <1>2, <1>3, SumOverSubset
<1>6. SumFunctionOnSet(outside, S \ U) = SumFunctionOnSet(outside, S)
  BY <1>1, <1>2, <1>3, SumOverSubset
<1>7. SumFunctionOnSet(f, U) = SumFunctionOnSet(inside, U)
  BY <1>1, <1>3, SumOfSame
<1>8. SumFunctionOnSet(f, S \ U) = SumFunctionOnSet(outside, S \ U)
  BY <1>1, <1>3, SumOfSame
<1>. QED
  BY <1>4, <1>5, <1>6, <1>7, <1>8

\* One term.
LEMMA SumOfOne ==
  ASSUME NEW f, NEW x, f[x] \in Int
  PROVE  SumFunctionOnSet(f, {x}) = f[x]
<1>1. IsFiniteSet({x}) /\ Integral(f, {x}) /\ {x} \ {x} = {}
  BY FS_Singleton DEF Integral
<1>2. SumFunctionOnSet(f, {x}) = f[x] + SumFunctionOnSet(f, {x} \ {x})
  BY <1>1, SumTakes
<1>. QED
  BY <1>1, <1>2, SumOfNone

\* All terms but one are nothing.
LEMMA SumIsOfOne ==
  ASSUME NEW f, NEW S, IsFiniteSet(S), Integral(f, S), NEW x \in S,
         \A y \in S : y # x => f[y] = 0
  PROVE  SumFunctionOnSet(f, S) = f[x]
<1>1. {x} \in SUBSET S /\ \A y \in S \ {x} : f[y] = 0
  OBVIOUS
<1>2. SumFunctionOnSet(f, {x}) = SumFunctionOnSet(f, S)
  BY <1>1, SumOverSubset
<1>3. f[x] \in Int
  BY DEF Integral
<1>. QED
  BY <1>2, <1>3, SumOfOne

LEMMA SumOfNothing ==
  ASSUME NEW f, NEW S, IsFiniteSet(S), \A x \in S : f[x] = 0
  PROVE  SumFunctionOnSet(f, S) = 0
<1>1. {} \in SUBSET S /\ Integral(f, S) /\ \A x \in S \ {} : f[x] = 0
  BY DEF Integral
<1>2. SumFunctionOnSet(f, {}) = SumFunctionOnSet(f, S)
  BY <1>1, SumOverSubset
<1>. QED
  BY <1>2, SumOfNone

\* Terms that are all the same.
LEMMA SumOfConstant ==
  ASSUME NEW f, NEW S, IsFiniteSet(S), NEW k \in Int, \A x \in S : f[x] = k
  PROVE  SumFunctionOnSet(f, S) = k * Cardinality(S)
<1>. DEFINE Q == {T \in SUBSET S : SumFunctionOnSet(f, T) = k * Cardinality(T)}
<1>1. ASSUME NEW T \in SUBSET S, \A x \in T : T \ {x} \in Q
      PROVE  SumFunctionOnSet(f, T) = k * Cardinality(T)
  <2>1. CASE T = {}
    <3>1. Cardinality(T) = 0
      BY <2>1, FS_EmptySet
    <3>. QED
      BY <2>1, <3>1, SumOfNone
  <2>2. CASE T # {}
    <3>1. PICK x \in T : TRUE
      BY <2>2
    <3>2. IsFiniteSet(T) /\ Integral(f, T) /\ f[x] = k
      BY FS_Subset DEF Integral
    <3>3. SumFunctionOnSet(f, T) = f[x] + SumFunctionOnSet(f, T \ {x})
      BY <3>2, SumTakes
    <3>4. Cardinality(T \ {x}) = Cardinality(T) - 1
      BY <3>2, FS_RemoveElement
    <3>5. Cardinality(T) \in Nat
      BY <3>2, FS_CardinalityType
    <3>6. SumFunctionOnSet(f, T \ {x}) = k * Cardinality(T \ {x})
      BY <1>1
    <3>7. \A n \in Int : k + k * (n - 1) = k * n
      OBVIOUS
    <3>. QED
      BY <3>2, <3>3, <3>4, <3>5, <3>6, <3>7
  <2>. QED
    BY <2>1, <2>2
<1>2. \A T \in SUBSET S : (\A x \in T : T \ {x} \in Q) => T \in Q
  BY <1>1
<1>. HIDE DEF Q
<1>3. S \in Q
  BY <1>2, SubsetInduction
<1>. QED
  BY <1>3 DEF Q

\* A sum taken key by key.
UnderKey(S, key, k) == {x \in S : key[x] = k}

LEMMA SumByKey ==
  ASSUME NEW f, NEW S, IsFiniteSet(S), Integral(f, S), NEW key, NEW K, IsFiniteSet(K),
         \A x \in S : key[x] \in K, NEW parts,
         \A k \in K : parts[k] = SumFunctionOnSet(f, UnderKey(S, key, k))
  PROVE  Integral(parts, K) /\ SumFunctionOnSet(parts, K) = SumFunctionOnSet(f, S)
<1>. DEFINE Under(T) == {x \in S : key[x] \in T}
            Q == {T \in SUBSET K : SumFunctionOnSet(parts, T) = SumFunctionOnSet(f, Under(T))}
<1>1. ASSUME NEW T \in SUBSET S PROVE IsFiniteSet(T) /\ Integral(f, T)
  BY FS_Subset DEF Integral
<1>2. Integral(parts, K)
  <2>1. ASSUME NEW k \in K PROVE parts[k] \in Int
    <3>1. UnderKey(S, key, k) \in SUBSET S
      BY DEF UnderKey
    <3>2. SumFunctionOnSet(f, UnderKey(S, key, k)) \in Int
      BY <1>1, <3>1, SumIsInt
    <3>. QED
      BY <3>2
  <2>. QED
    BY <2>1 DEF Integral
<1>3. ASSUME NEW T \in SUBSET K, \A k \in T : T \ {k} \in Q
      PROVE  SumFunctionOnSet(parts, T) = SumFunctionOnSet(f, Under(T))
  <2>1. CASE T = {}
    <3>1. Under(T) = {}
      BY <2>1
    <3>. QED
      BY <2>1, <3>1, SumOfNone
  <2>2. CASE T # {}
    <3>1. PICK k \in T : TRUE
      BY <2>2
    <3>2. IsFiniteSet(T) /\ Integral(parts, T)
      BY <1>2, FS_Subset DEF Integral
    <3>3. SumFunctionOnSet(parts, T) = parts[k] + SumFunctionOnSet(parts, T \ {k})
      BY <3>2, SumTakes
    <3>4. SumFunctionOnSet(parts, T \ {k}) = SumFunctionOnSet(f, Under(T \ {k}))
      BY <1>3
    <3>. DEFINE all == Under(T)
                less == Under(T \ {k})
                own == UnderKey(S, key, k)
    <3>5. all \in SUBSET S /\ less \in SUBSET S /\ less \in SUBSET all /\ all \ less = own
      BY DEF UnderKey
    <3>. HIDE DEF all, less, own
    <3>6. SumFunctionOnSet(f, all) = SumFunctionOnSet(f, less) + SumFunctionOnSet(f, own)
      BY <1>1, <3>5, SumOfBoth
    <3>7. parts[k] = SumFunctionOnSet(f, own) /\ parts[k] \in Int
      BY <1>2 DEF Integral, own
    <3>8. SumFunctionOnSet(f, less) \in Int
      BY <1>1, <3>5, SumIsInt
    <3>9. SumFunctionOnSet(parts, T) = SumFunctionOnSet(f, all)
      BY <3>3, <3>4, <3>6, <3>7, <3>8 DEF less
    <3>. QED
      BY <3>9 DEF all
  <2>. QED
    BY <2>1, <2>2
<1>4. \A T \in SUBSET K : (\A k \in T : T \ {k} \in Q) => T \in Q
  BY <1>3
<1>. HIDE DEF Q
<1>5. K \in Q
  BY <1>4, SubsetInduction
<1>6. Under(K) = S
  OBVIOUS
<1>. QED
  BY <1>2, <1>5, <1>6 DEF Q

\* A fold that adds to what it has.
Added(f, s, g) ==
  IF s = {} THEN 0 ELSE g[s \ {CHOOSE x \in s : TRUE}] + f[CHOOSE x \in s : TRUE]
IsSumOf(f, S, g) == g = [s \in SUBSET S |-> Added(f, s, g)]

LEMMA SumIsAdded ==
  ASSUME NEW f, NEW S, IsFiniteSet(S), Integral(f, S)
  PROVE  (\E g : IsSumOf(f, S, g)) /\ (\A g : IsSumOf(f, S, g) => g[S] = SumFunctionOnSet(f, S))
<1>1. PICK g : SumsUpTo(f, SUBSET S, g) /\ SumFunctionOnSet(f, S) = g[S]
  BY SumIsUnfolded
<1>2. IsSumOf(f, S, g)
  <2>1. g \in [SUBSET S -> Int] /\ \A s \in SUBSET S : g[s] = Unfolded(f, s, g)
    BY <1>1 DEF SumsUpTo
  <2>2. ASSUME NEW s \in SUBSET S PROVE g[s] = Added(f, s, g)
    <3>. DEFINE x == CHOOSE y \in s : TRUE
    <3>1. CASE s = {}
      BY <2>1, <3>1 DEF Unfolded, Added
    <3>2. CASE s # {}
      <4>1. x \in s /\ s \ {x} \in SUBSET S
        BY <3>2
      <4>2. f[x] \in Int /\ g[s \ {x}] \in Int
        BY <2>1, <4>1 DEF Integral
      <4>3. g[s] = f[x] + g[s \ {x}]
        BY <2>1, <3>2 DEF Unfolded
      <4>4. Added(f, s, g) = g[s \ {x}] + f[x]
        BY <3>2 DEF Added
      <4>. QED
        BY <4>2, <4>3, <4>4
    <3>. QED
      BY <3>1, <3>2
  <2>. QED
    BY <2>1, <2>2 DEF IsSumOf
<1>3. ASSUME NEW h, IsSumOf(f, S, h) PROVE h[S] = g[S]
  <2>. DEFINE Q == {s \in SUBSET S : h[s] = g[s]}
  <2>1. ASSUME NEW s \in SUBSET S, \A x \in s : s \ {x} \in Q
        PROVE  s \in Q
    <3>1. h[s] = Added(f, s, h) /\ g[s] = Added(f, s, g)
      BY <1>2, <1>3 DEF IsSumOf
    <3>2. CASE s = {}
      BY <3>1, <3>2 DEF Added
    <3>3. CASE s # {}
      <4>. DEFINE x == CHOOSE y \in s : TRUE
      <4>1. x \in s
        BY <3>3
      <4>2. h[s \ {x}] = g[s \ {x}]
        BY <2>1, <4>1
      <4>. QED
        BY <3>1, <3>3, <4>2 DEF Added
    <3>. QED
      BY <3>2, <3>3
  <2>. HIDE DEF Q
  <2>2. S \in Q
    BY <2>1, SubsetInduction
  <2>. QED
    BY <2>2 DEF Q
<1>. QED
  BY <1>1, <1>2, <1>3

==============================================================================
