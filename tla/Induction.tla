----------------------------- MODULE Induction -----------------------------
(***************************************************************************)
(* Facts that need induction, proved with sets in the place of predicates:  *)
(* least and greatest numbers, functions defined by iteration, and the sum  *)
(* of a function over a set of indices.                                     *)
(***************************************************************************)
EXTENDS FiniteSetTheorems, Functions, TLAPS

\* Every set of naturals that has a number has a least one.
LEMMA LeastNumber ==
  ASSUME NEW T \in SUBSET Nat, T # {}
  PROVE  \E m \in T : \A n \in T : m <= n
<1> DEFINE R == OpToRel(<, Nat)
<1>1. IsWellFoundedOn(R, Nat)
  BY NatLessThanWellFounded
<1>2. \A x, y \in Nat : x < y => <<x, y>> \in R
  BY DEF OpToRel
<1> HIDE DEF R
<1>3. PICK m \in T : \A n \in T : ~ (<<n, m>> \in R)
  BY <1>1, WFMin
<1>4. \A n \in T : ~ (n < m)
  BY <1>2, <1>3
<1> QED
  BY <1>4, SMT

\* A bounded one has a greatest.
LEMMA GreatestNumber ==
  ASSUME NEW T \in SUBSET Nat, T # {}, NEW bound \in Nat, \A n \in T : n <= bound
  PROVE  \E m \in T : \A n \in T : m >= n
<1> DEFINE U == {k \in Nat : \A n \in T : n <= k}
<1>1. PICK m \in U : \A k \in U : m <= k
  BY LeastNumber
<1>2. m \in T
  <2>1. SUFFICES ASSUME m \notin T PROVE FALSE
    OBVIOUS
  <2>2. \A n \in T : n <= m - 1
    BY <1>1, <2>1, SMT
  <2>3. m - 1 \in Nat
    <3>1. PICK n \in T : n <= m - 1
      BY <2>2
    <3> QED
      BY <3>1, <1>1, SMT
  <2>4. m - 1 \in U
    BY <2>2, <2>3
  <2> QED
    BY <1>1, <2>3, <2>4, SMT
<1> QED
  BY <1>1, <1>2

\* Induction over the naturals.
LEMMA NaturalsAll ==
  ASSUME NEW S, 0 \in S, \A n \in Nat : n \in S => n + 1 \in S
  PROVE  \A n \in Nat : n \in S
<1> SUFFICES ASSUME Nat \ S # {} PROVE FALSE
  OBVIOUS
<1>1. PICK m \in Nat \ S : \A n \in Nat \ S : m <= n
  BY LeastNumber
<1>2. m - 1 \in Nat /\ m - 1 \in S
  BY <1>1, SMT
<1> QED
  BY <1>1, <1>2

\* What a step makes of x0 when it is repeated.
IsIteration(f, X, x0, step, N) ==
  /\ f \in [0..N -> X]
  /\ f = [n \in 0..N |-> IF n = 0 THEN x0 ELSE step[f[n - 1]]]

LEMMA Iterates ==
  ASSUME NEW X, NEW x0 \in X, NEW step \in [X -> X]
  PROVE  \A N \in Nat : \E f : IsIteration(f, X, x0, step, N)
<1> DEFINE S == {N \in Nat : \E f : IsIteration(f, X, x0, step, N)}
<1>1. 0 \in S
  <2> DEFINE f == [n \in 0..0 |-> x0]
  <2>1. IsIteration(f, X, x0, step, 0)
    BY DEF IsIteration
  <2> QED
    BY <2>1
<1>2. ASSUME NEW N \in Nat, N \in S
      PROVE  N + 1 \in S
  <2>1. PICK f : IsIteration(f, X, x0, step, N)
    BY <1>2
  <2> DEFINE g == [n \in 0..N + 1 |-> IF n = N + 1 THEN step[f[N]] ELSE f[n]]
  <2>2. f[N] \in X /\ \A n \in 0..N : f[n] \in X /\ f[n] = IF n = 0 THEN x0 ELSE step[f[n - 1]]
    BY <2>1 DEF IsIteration
  <2>3. g \in [0..N + 1 -> X]
    BY <2>2
  <2>4. \A n \in 0..N + 1 : g[n] = IF n = 0 THEN x0 ELSE step[g[n - 1]]
    <3> TAKE n \in 0..N + 1
    <3>1. CASE n = N + 1
      BY <3>1, <2>2
    <3>2. CASE n # N + 1
      <4>1. n \in 0..N /\ (n # 0 => n - 1 \in 0..N)
        BY <3>2
      <4> QED
        BY <4>1, <2>2, <3>2
    <3> QED
      BY <3>1, <3>2
  <2>5. IsIteration(g, X, x0, step, N + 1)
    BY <2>3, <2>4 DEF IsIteration
  <2> QED
    BY <2>5
<1>3. \A N \in Nat : N \in S
  BY <1>1, <1>2, NaturalsAll
<1> QED
  BY <1>3

-----------------------------------------------------------------------------
(* The sum of a function over a set of indices.                             *)

\* s gives the sum of F over each set of indices up to N: it is the same in
\* whatever order the indices are taken.
IsSum(s, F, N) ==
  /\ s \in [SUBSET (1..N) -> Int]
  /\ s[{}] = 0
  /\ \A S \in SUBSET (1..N) : \A x \in S : s[S] = F[x] + s[S \ {x}]

LEMMA SumsExist ==
  ASSUME NEW F \in [Nat -> Int]
  PROVE  \A N \in Nat : \E s : IsSum(s, F, N)
<1> DEFINE K == {N \in Nat : \E s : IsSum(s, F, N)}
<1>1. 0 \in K
  <2> DEFINE s == [S \in SUBSET (1..0) |-> 0]
  <2>1. 1..0 = {}
    OBVIOUS
  <2>2. IsSum(s, F, 0)
    BY <2>1 DEF IsSum
  <2> QED
    BY <2>2
<1>2. ASSUME NEW N \in Nat, N \in K
      PROVE  N + 1 \in K
  <2>1. PICK s : IsSum(s, F, N)
    BY <1>2
  <2> DEFINE last == N + 1
             t == [S \in SUBSET (1..last) |->
                     IF last \in S THEN F[last] + s[S \ {last}] ELSE s[S]]
  <2>2. last \in Nat /\ last \notin 1..N /\ F[last] \in Int
    OBVIOUS
  <2>3. \A S \in SUBSET (1..last) :
          /\ S \ {last} \in SUBSET (1..N)
          /\ last \notin S => S \in SUBSET (1..N)
    <3>1. 1..last = (1..N) \cup {last}
      OBVIOUS
    <3> HIDE DEF last
    <3> QED
      BY <3>1
  <2>4. \A S \in SUBSET (1..N) : s[S] \in Int
    BY <2>1 DEF IsSum
  <2> HIDE DEF last
  <2>5. t \in [SUBSET (1..last) -> Int]
    <3> SUFFICES ASSUME NEW S \in SUBSET (1..last) PROVE t[S] \in Int
      OBVIOUS
    <3>1. s[S \ {last}] \in Int /\ (last \notin S => s[S] \in Int)
      BY <2>3, <2>4
    <3> QED
      BY <3>1, <2>2
  <2>6. t[{}] = 0
    BY <2>1 DEF IsSum
  <2>7. ASSUME NEW S \in SUBSET (1..last), NEW x \in S
        PROVE  t[S] = F[x] + t[S \ {x}]
    <3>1. S \ {x} \in SUBSET (1..last)
      OBVIOUS
    <3>2. CASE last \notin S
      <4>1. S \in SUBSET (1..N) /\ last \notin S \ {x}
        BY <3>2, <2>3
      <4>2. s[S] = F[x] + s[S \ {x}]
        BY <4>1, <2>1 DEF IsSum
      <4> QED
        BY <3>1, <3>2, <4>1, <4>2
    <3>3. CASE x = last
      <4>1. last \notin S \ {x}
        BY <3>3
      <4> QED
        BY <3>1, <3>3, <4>1
    <3>4. CASE last \in S /\ x # last
      <4> DEFINE R == S \ {last}
      <4>1. R \in SUBSET (1..N) /\ x \in R /\ (S \ {x}) \ {last} = R \ {x} /\ last \in S \ {x}
        BY <3>4, <2>3
      <4>2. s[R] = F[x] + s[R \ {x}]
        BY <4>1, <2>1 DEF IsSum
      <4>3. t[S] = F[last] + s[R] /\ t[S \ {x}] = F[last] + s[R \ {x}]
        BY <3>1, <3>4, <4>1
      <4>4. x \in Nat /\ F[x] \in Int /\ s[R \ {x}] \in Int
        BY <4>1, <2>4
      <4> HIDE DEF R, t
      <4> QED
        BY <4>2, <4>3, <4>4, <2>2, SMT
    <3> QED
      BY <3>2, <3>3, <3>4
  <2>8. IsSum(t, F, last)
    <3> HIDE DEF t
    <3> QED
      BY <2>5, <2>6, <2>7 DEF IsSum
  <2> QED
    BY <2>2, <2>8 DEF last
<1>3. \A N \in Nat : N \in K
  <2> HIDE DEF K
  <2> QED
    BY <1>1, <1>2, NaturalsAll
<1> QED
  BY <1>3

\* g adds f up over each set of indices, taking them in the order CHOOSE gives.
AddsUp(g, f) ==
  g = [S \in SUBSET DOMAIN f |->
         IF S = {} THEN 0
         ELSE LET x == CHOOSE x \in S : TRUE IN f[x] + g[S \ {x}]]

\* The fold of the community modules is such a sum.
SumOf(f) == FoldFunction(+, 0, f)

LEMMA FoldAddsUp ==
  ASSUME NEW f
  PROVE  SumOf(f) = (CHOOSE g : AddsUp(g, f))[DOMAIN f]
BY DEF SumOf, FoldFunction, FoldFunctionOnSet, MapThenFoldSet, AddsUp

LEMMA FoldIsSum ==
  ASSUME NEW N \in Nat, NEW f, NEW F, NEW s, DOMAIN f \subseteq 1..N,
         \A x \in DOMAIN f : F[x] = f[x], IsSum(s, F, N)
  PROVE  SumOf(f) = s[DOMAIN f]
<1> DEFINE D == DOMAIN f
           g == CHOOSE g : AddsUp(g, f)
           r == [S \in SUBSET D |-> s[S]]
<1>1. \A S \in SUBSET D : S # {} => (CHOOSE x \in S : TRUE) \in S
  OBVIOUS
<1>2. \A S \in SUBSET D : \A x \in S : s[S] = f[x] + s[S \ {x}]
  BY DEF IsSum
<1>3. AddsUp(r, f)
  <2> SUFFICES \A S \in SUBSET D :
                 r[S] = IF S = {} THEN 0
                        ELSE LET x == CHOOSE x \in S : TRUE IN f[x] + r[S \ {x}]
    BY DEF AddsUp
  <2> TAKE S \in SUBSET D
  <2>1. CASE S = {}
    BY <2>1 DEF IsSum
  <2>2. CASE S # {}
    BY <2>2, <1>1, <1>2
  <2> QED
    BY <2>1, <2>2
<1>4. AddsUp(g, f)
  BY <1>3
<1> DEFINE differ == {S \in SUBSET D : g[S] # s[S]}
           sizes  == {Cardinality(S) : S \in differ}
<1>5. \A S \in SUBSET D : IsFiniteSet(S) /\ Cardinality(S) \in Nat
  <2>1. IsFiniteSet(1..N)
    BY FS_Interval
  <2> QED
    BY <2>1, FS_Subset, FS_CardinalityType
<1>6. differ = {}
  <2> SUFFICES ASSUME differ # {} PROVE FALSE
    OBVIOUS
  <2>1. sizes \in SUBSET Nat /\ sizes # {}
    BY <1>5
  <2>2. PICK m \in sizes : \A n \in sizes : m <= n
    <3> HIDE DEF sizes
    <3> QED
      BY <2>1, LeastNumber
  <2>3. PICK S \in differ : m = Cardinality(S)
    BY <2>2
  <2>4. S # {}
    <3> SUFFICES ASSUME S = {} PROVE FALSE
      OBVIOUS
    <3>1. g[{}] = 0
      BY <1>4 DEF AddsUp
    <3> QED
      BY <3>1, <2>3 DEF IsSum
  <2> DEFINE x == CHOOSE x \in S : TRUE
  <2>5. x \in S /\ S \in SUBSET D /\ S \ {x} \in SUBSET D
    BY <2>4, <1>1
  <2>6. Cardinality(S \ {x}) = Cardinality(S) - 1
    BY <2>5, <1>5, FS_RemoveElement
  <2>7. S \ {x} \notin differ
    <3> SUFFICES ASSUME S \ {x} \in differ PROVE FALSE
      OBVIOUS
    <3>1. Cardinality(S \ {x}) \in sizes
      OBVIOUS
    <3>2. Cardinality(S) \in Nat
      BY <2>5, <1>5
    <3> HIDE DEF sizes, differ, x
    <3> QED
      BY <2>2, <2>3, <2>6, <3>1, <3>2
  <2>8. g[S \ {x}] = s[S \ {x}]
    BY <2>5, <2>7
  <2>9. g[S] = f[x] + g[S \ {x}]
    <3> HIDE DEF g
    <3> QED
      BY <1>4, <2>4, <2>5 DEF AddsUp
  <2>10. s[S] = f[x] + s[S \ {x}]
    BY <1>2, <2>5
  <2> QED
    BY <2>3, <2>8, <2>9, <2>10
<1>7. g[D] = s[D]
  BY <1>6
<1> QED
  BY <1>7, FoldAddsUp

\* An index more adds its value.
LEMMA SumExtends ==
  ASSUME NEW N \in Nat, NEW D \in SUBSET (1..N), NEW d \in 1..N, d \notin D,
         NEW g \in [D \cup {d} -> Int], NEW f \in [D -> Int],
         \A x \in D : g[x] = f[x]
  PROVE  /\ SumOf(g) = SumOf(f) + g[d]
         /\ SumOf(f) \in Int
<1> DEFINE F == [n \in Nat |-> IF n \in D \cup {d} THEN g[n] ELSE 0]
<1>1. F \in [Nat -> Int]
  OBVIOUS
<1>2. PICK s : IsSum(s, F, N)
  <2> HIDE DEF F
  <2> QED
    BY <1>1, SumsExist
<1>3. /\ \A x \in D \cup {d} : F[x] = g[x]
      /\ \A x \in D : F[x] = f[x]
  OBVIOUS
<1> HIDE DEF F
<1>4. SumOf(g) = s[D \cup {d}]
  <2>1. DOMAIN g = D \cup {d} /\ DOMAIN g \subseteq 1..N
    OBVIOUS
  <2>2. \A x \in DOMAIN g : F[x] = g[x]
    BY <1>3
  <2> QED
    BY <2>1, <2>2, <1>2, FoldIsSum
<1>5. SumOf(f) = s[D]
  <2>1. DOMAIN f = D /\ DOMAIN f \subseteq 1..N
    OBVIOUS
  <2>2. \A x \in DOMAIN f : F[x] = f[x]
    BY <1>3
  <2>3. SumOf(f) = s[DOMAIN f]
    BY <2>1, <2>2, <1>2, FoldIsSum, ZenonT(30)
  <2> QED
    BY <2>1, <2>3
<1>6. s[D \cup {d}] = g[d] + s[D] /\ s[D] \in Int
  <2>1. D \cup {d} \in SUBSET (1..N) /\ (D \cup {d}) \ {d} = D /\ F[d] = g[d]
    BY <1>3
  <2> QED
    BY <2>1, <1>2 DEF IsSum
<1> QED
  BY <1>4, <1>5, <1>6

\* Nothing adds up to nothing.
LEMMA EmptySum ==
  ASSUME NEW f, DOMAIN f = {}
  PROVE  SumOf(f) = 0
<1>1. [n \in Nat |-> 0] \in [Nat -> Int]
  OBVIOUS
<1>2. PICK s : IsSum(s, [n \in Nat |-> 0], 0)
  BY <1>1, SumsExist
<1>3. SumOf(f) = s[{}]
  BY <1>2, FoldIsSum
<1> QED
  BY <1>2, <1>3 DEF IsSum
=============================================================================
