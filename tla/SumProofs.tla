----------------------------- MODULE SumProofs ------------------------------
(***************************************************************************)
(* Lemmas about finite sums, which the community module Functions defines  *)
(* by recursion over the subsets of a finite set, and about counting in a  *)
(* sequence.  Induction is over a set of subsets instead of a predicate,   *)
(* so that no operator is a parameter.                                     *)
(***************************************************************************)
EXTENDS Functions, Sequences, FiniteSetTheorems, WellFoundedInduction, TLAPS

-----------------------------------------------------------------------------
\* A family of finite sets has a minimal one.
LEMMA MinimalSet ==
  ASSUME NEW S, NEW F, F \subseteq FiniteSubsetsOf(S), F # {}
  PROVE  \E T \in F : \A U \in F : ~(U \subseteq T /\ U # T)
<1>1. IsWellFoundedOn(StrictSubsetOrdering(S), FiniteSubsetsOf(S))
      BY FS_StrictSubsetOrderingWellFounded
<1>2. \E T \in F : \A U \in F : <<U, T>> \notin StrictSubsetOrdering(S)
      BY <1>1, WFMin
<1>3. QED  BY <1>2 DEF StrictSubsetOrdering, FiniteSubsetsOf

\* Induction over the subsets of a finite set.
LEMMA SubsetInduction ==
  ASSUME NEW S, IsFiniteSet(S), NEW F,
         \A T \in SUBSET S : (\A x \in T : T \ {x} \in F) => T \in F
  PROVE  \A T \in SUBSET S : T \in F
<1> DEFINE Bad == (SUBSET S) \ F
<1>1. SUFFICES ASSUME Bad # {} PROVE FALSE
      OBVIOUS
<1>2. Bad \subseteq FiniteSubsetsOf(S)
      BY FS_Subset DEF FiniteSubsetsOf
<1> HIDE DEF Bad
<1>3. PICK T \in Bad : \A U \in Bad : ~(U \subseteq T /\ U # T)
      BY <1>1, <1>2, MinimalSet
<1>4. \A x \in T : T \ {x} \in F
      BY <1>3 DEF Bad
<1>5. QED  BY <1>3, <1>4 DEF Bad

\* Induction over the natural numbers.
LEMMA NumberInduction ==
  ASSUME NEW F, 0 \in F, \A n \in Nat : n \in F => n + 1 \in F
  PROVE  \A n \in Nat : n \in F
<1> DEFINE Bad == {0 .. n : n \in Nat \ F}
<1>1. SUFFICES ASSUME Nat \ F # {} PROVE FALSE
      OBVIOUS
<1>2. \A n \in Nat : 0 .. n \in FiniteSubsetsOf(Nat)
      BY FS_Interval DEF FiniteSubsetsOf
<1>3. PICK T \in Bad : \A U \in Bad : ~(U \subseteq T /\ U # T)
  <2>1. Bad \subseteq FiniteSubsetsOf(Nat) /\ Bad # {}
        BY <1>1, <1>2
  <2> HIDE DEF Bad
  <2>2. QED  BY <2>1, MinimalSet
<1>4. PICK n \in Nat \ F : T = 0 .. n
      BY <1>3
<1>5. n - 1 \in Nat /\ n - 1 \notin F
  <2>1. n # 0  BY <1>4
  <2>2. n - 1 \in Nat /\ (n - 1) + 1 = n  BY <2>1
  <2>3. QED  BY <2>2, <1>4
<1>6. 0 .. n - 1 \in Bad  BY <1>5
<1>7. 0 .. n - 1 \subseteq T /\ 0 .. n - 1 # T
      BY <1>4, <1>5
<1>8. QED  BY <1>3, <1>6, <1>7

-----------------------------------------------------------------------------
\* g adds up f over each of the subsets of S.
pick(T) == CHOOSE x \in T : TRUE

SumsUp(f, g, S) ==
  g = [T \in SUBSET S |-> IF T = {} THEN 0 ELSE f[pick(T)] + g[T \ {pick(T)}]]

LEMMA SumDef ==
  ASSUME NEW f, NEW S
  PROVE  SumFunctionOnSet(f, S) = (CHOOSE g : SumsUp(f, g, S))[S]
BY DEF SumFunctionOnSet, FoldFunctionOnSet, MapThenFoldSet, SumsUp, pick

\* Two such functions agree on the finite sets both add up.
LEMMA SumsUpUnique ==
  ASSUME NEW f, NEW A, NEW g, SumsUp(f, g, A), NEW B, NEW h, SumsUp(f, h, B),
         NEW S, IsFiniteSet(S), S \subseteq A, S \subseteq B
  PROVE  g[S] = h[S]
<1> DEFINE F == {T \in SUBSET S : g[T] = h[T]}
<1>1. ASSUME NEW T \in SUBSET S, \A x \in T : T \ {x} \in F
      PROVE  T \in F
  <2>1. CASE T = {}
        BY <2>1 DEF SumsUp
  <2>2. CASE T # {}
    <3>1. pick(T) \in T  BY <2>2 DEF pick
    <3>2. g[T \ {pick(T)}] = h[T \ {pick(T)}]  BY <3>1, <1>1
    <3>3. /\ g[T] = f[pick(T)] + g[T \ {pick(T)}]
          /\ h[T] = f[pick(T)] + h[T \ {pick(T)}]
          BY <2>2 DEF SumsUp
    <3>4. QED  BY <3>2, <3>3
  <2>3. QED  BY <2>1, <2>2
<1> HIDE DEF F
<1>2. \A T \in SUBSET S : T \in F  BY <1>1, SubsetInduction
<1>3. QED  BY <1>2 DEF F

\* There is such a function for every finite set.
LEMMA SumsUpExists ==
  ASSUME NEW f, NEW S, IsFiniteSet(S)
  PROVE  \E g : SumsUp(f, g, S)
<1> DEFINE F == {T \in SUBSET S : \E g : SumsUp(f, g, T)}
<1>1. ASSUME NEW T \in SUBSET S, \A x \in T : T \ {x} \in F
      PROVE  T \in F
  <2>1. CASE T = {}
    <3> DEFINE g == [U \in SUBSET T |-> 0]
    <3>1. SumsUp(f, g, T)
      <4>1. \A U \in SUBSET T : U = {}  BY <2>1
      <4>2. QED  BY <4>1 DEF SumsUp
    <3>2. QED  BY <3>1
  <2>2. CASE T # {}
    <3> DEFINE G(x) == CHOOSE g : SumsUp(f, g, T \ {x})
               out(U) == CHOOSE x \in T : x \notin U
               rest(U) == U \ {pick(U)}
               below(U) == G(out(U))[U]
               g == [U \in SUBSET T |->
                      IF U = T THEN f[pick(U)] + below(rest(U)) ELSE below(U)]
    <3>1. \A x \in T : SumsUp(f, G(x), T \ {x})
          BY <1>1
    <3> HIDE DEF G
    <3>2. \A U \in SUBSET T : U # T => out(U) \in T /\ out(U) \notin U
          OBVIOUS
    <3>3. ASSUME NEW U \in SUBSET T, U # T
          PROVE  below(U) = IF U = {} THEN 0 ELSE f[pick(U)] + below(rest(U))
      <4> DEFINE x == out(U)
                 y == out(rest(U))
      <4>1. x \in T /\ U \in SUBSET (T \ {x})  BY <3>2, <3>3
      <4> HIDE DEF x
      <4>2. G(x)[U] = IF U = {} THEN 0 ELSE f[pick(U)] + G(x)[rest(U)]
            BY <3>1, <4>1 DEF SumsUp
      <4>3. rest(U) \in SUBSET T /\ rest(U) # T  BY <3>3
      <4>4. y \in T /\ rest(U) \subseteq T \ {y}  BY <3>2, <4>3
      <4>5. IsFiniteSet(rest(U)) /\ rest(U) \subseteq T \ {x}  BY <4>1, <4>3, FS_Subset
      <4> HIDE DEF y
      <4>6. G(x)[rest(U)] = G(y)[rest(U)]
        <5>1. SumsUp(f, G(x), T \ {x}) /\ SumsUp(f, G(y), T \ {y})
              BY <3>1, <4>1, <4>4
        <5> HIDE DEF rest
        <5>2. QED  BY <4>4, <4>5, <5>1, SumsUpUnique
      <4>7. QED  BY <4>2, <4>6 DEF x, y
    <3>4. \A U \in SUBSET T : g[U] = IF U = {} THEN 0 ELSE f[pick(U)] + g[rest(U)]
      <4> TAKE U \in SUBSET T
      <4>1. rest(U) \in SUBSET T /\ (U # {} => rest(U) # T)
        <5>1. U # {} => pick(U) \in U  BY DEF pick
        <5>2. QED  BY <5>1
      <4> HIDE DEF rest, below
      <4>2. CASE U = T  BY <2>2, <4>1, <4>2
      <4>3. CASE U # T  BY <3>3, <4>1, <4>3
      <4>4. QED  BY <4>2, <4>3
    <3>5. SumsUp(f, g, T)
      <4> HIDE DEF below
      <4>1. g = [U \in SUBSET T |-> g[U]]  OBVIOUS
      <4> HIDE DEF g
      <4>2. QED  BY <3>4, <4>1 DEF SumsUp
    <3>6. QED  BY <3>5
  <2>3. QED  BY <2>1, <2>2
<1> HIDE DEF F
<1>2. \A T \in SUBSET S : T \in F  BY <1>1, SubsetInduction
<1>3. QED  BY <1>2 DEF F

-----------------------------------------------------------------------------
\* The sum over the empty set, and one step of the recursion.
LEMMA SumEmpty ==
  ASSUME NEW f
  PROVE  SumFunctionOnSet(f, {}) = 0
<1>1. PICK g : SumsUp(f, g, {})  BY FS_EmptySet, SumsUpExists
<1>2. SumsUp(f, CHOOSE h : SumsUp(f, h, {}), {})  BY <1>1
<1> DEFINE c == CHOOSE h : SumsUp(f, h, {})
<1>3. c[{}] = 0
  <2> HIDE DEF c
  <2>1. SumsUp(f, c, {})  BY <1>2 DEF c
  <2>2. QED  BY <2>1 DEF SumsUp
<1>4. QED  BY <1>3, SumDef

LEMMA SumPick ==
  ASSUME NEW f, NEW S, IsFiniteSet(S), S # {}
  PROVE  SumFunctionOnSet(f, S) = f[pick(S)] + SumFunctionOnSet(f, S \ {pick(S)})
<1> DEFINE R == S \ {pick(S)}
           g == CHOOSE h : SumsUp(f, h, S)
           r == CHOOSE h : SumsUp(f, h, R)
<1>1. IsFiniteSet(R)  BY FS_RemoveElement
<1>2. SumFunctionOnSet(f, S) = g[S] /\ SumFunctionOnSet(f, R) = r[R]  BY SumDef
<1>3. SumsUp(f, g, S) /\ SumsUp(f, r, R)  BY <1>1, SumsUpExists
<1> HIDE DEF g, r
<1>4. g[S] = f[pick(S)] + g[R]  BY <1>3 DEF SumsUp
<1>5. R \subseteq S /\ R \subseteq R  OBVIOUS
<1> HIDE DEF R
<1>6. g[R] = r[R]  BY <1>1, <1>3, <1>5, SumsUpUnique
<1>7. QED  BY <1>2, <1>4, <1>6 DEF R

\* The sum of integers is an integer.
LEMMA SumInt ==
  ASSUME NEW f, NEW S, IsFiniteSet(S), \A x \in S : f[x] \in Int
  PROVE  SumFunctionOnSet(f, S) \in Int
<1> DEFINE F == {T \in SUBSET S : SumFunctionOnSet(f, T) \in Int}
<1>1. ASSUME NEW T \in SUBSET S, \A x \in T : T \ {x} \in F
      PROVE  T \in F
  <2>1. CASE T = {}
        BY <2>1, SumEmpty
  <2>2. CASE T # {}
    <3>1. pick(T) \in T  BY <2>2 DEF pick
    <3>2. IsFiniteSet(T)  BY FS_Subset
    <3>3. SumFunctionOnSet(f, T) = f[pick(T)] + SumFunctionOnSet(f, T \ {pick(T)})
          BY <2>2, <3>2, SumPick
    <3>4. SumFunctionOnSet(f, T \ {pick(T)}) \in Int /\ f[pick(T)] \in Int
          BY <1>1, <3>1
    <3>5. QED  BY <3>3, <3>4
  <2>3. QED  BY <2>1, <2>2
<1> HIDE DEF F
<1>2. \A T \in SUBSET S : T \in F  BY <1>1, SubsetInduction
<1>3. QED  BY <1>2 DEF F

\* Any element can be the first one that is added.
LEMMA SumRemove ==
  ASSUME NEW f, NEW S, IsFiniteSet(S), \A x \in S : f[x] \in Int
  PROVE  \A x \in S : SumFunctionOnSet(f, S) = f[x] + SumFunctionOnSet(f, S \ {x})
<1> DEFINE sum(T) == SumFunctionOnSet(f, T)
           F == {T \in SUBSET S : \A x \in T : sum(T) = f[x] + sum(T \ {x})}
<1>1. ASSUME NEW T \in SUBSET S, \A x \in T : T \ {x} \in F
      PROVE  T \in F
  <2> DEFINE p == pick(T)
  <2>1. SUFFICES ASSUME NEW x \in T PROVE sum(T) = f[x] + sum(T \ {x})
        OBVIOUS
  <2>2. p \in T  BY DEF pick
  <2>3. sum(T) = f[p] + sum(T \ {p})  BY SumPick, FS_Subset
  <2> HIDE DEF p
  <2>4. ASSUME x # p
        PROVE  sum(T) = f[x] + sum(T \ {x})
    <3> DEFINE both == (T \ {p}) \ {x}
    <3>1. both = (T \ {x}) \ {p}  OBVIOUS
    <3>2. sum(both) \in Int
      <4>1. both \in SUBSET S  OBVIOUS
      <4> HIDE DEF both
      <4>2. IsFiniteSet(both) /\ \A z \in both : f[z] \in Int  BY <4>1, FS_Subset
      <4>3. QED  BY <4>2, SumInt
    <3> HIDE DEF sum
    <3>3. sum(T \ {p}) = f[x] + sum(both)  BY <1>1, <2>2, <2>4
    <3>4. sum(T \ {x}) = f[p] + sum(both)  BY <1>1, <2>2, <2>4, <3>1
    <3>5. QED  BY <2>2, <2>3, <3>2, <3>3, <3>4
  <2>5. QED  BY <2>3, <2>4
<1> HIDE DEF F
<1>2. \A T \in SUBSET S : T \in F  BY <1>1, SubsetInduction
<1>3. S \in F  BY <1>2
<1>4. QED  BY <1>3 DEF F

\* Only the values on the set matter.
LEMMA SumEqual ==
  ASSUME NEW f, NEW h, NEW S, IsFiniteSet(S), \A x \in S : f[x] = h[x]
  PROVE  SumFunctionOnSet(f, S) = SumFunctionOnSet(h, S)
<1> DEFINE F == {T \in SUBSET S : SumFunctionOnSet(f, T) = SumFunctionOnSet(h, T)}
<1>1. ASSUME NEW T \in SUBSET S, \A x \in T : T \ {x} \in F
      PROVE  T \in F
  <2>1. CASE T = {}
        BY <2>1, SumEmpty
  <2>2. CASE T # {}
    <3>1. pick(T) \in T  BY <2>2 DEF pick
    <3>2. IsFiniteSet(T)  BY FS_Subset
    <3>3. /\ SumFunctionOnSet(f, T) = f[pick(T)] + SumFunctionOnSet(f, T \ {pick(T)})
          /\ SumFunctionOnSet(h, T) = h[pick(T)] + SumFunctionOnSet(h, T \ {pick(T)})
          BY <2>2, <3>2, SumPick
    <3>4. f[pick(T)] = h[pick(T)]  BY <3>1
    <3>5. QED  BY <1>1, <3>1, <3>3, <3>4
  <2>3. QED  BY <2>1, <2>2
<1> HIDE DEF F
<1>2. \A T \in SUBSET S : T \in F  BY <1>1, SubsetInduction
<1>3. S \in F  BY <1>2
<1>4. QED  BY <1>3 DEF F

\* A change of one value changes the sum by as much.
LEMMA SumChange ==
  ASSUME NEW f, NEW h, NEW S, IsFiniteSet(S),
         \A x \in S : f[x] \in Int /\ h[x] \in Int,
         NEW y \in S, \A x \in S \ {y} : f[x] = h[x]
  PROVE  SumFunctionOnSet(h, S) = SumFunctionOnSet(f, S) - f[y] + h[y]
<1>1. IsFiniteSet(S \ {y})  BY FS_RemoveElement
<1>2. SumFunctionOnSet(f, S \ {y}) = SumFunctionOnSet(h, S \ {y})
      BY <1>1, SumEqual
<1>3. /\ SumFunctionOnSet(f, S) = f[y] + SumFunctionOnSet(f, S \ {y})
      /\ SumFunctionOnSet(h, S) = h[y] + SumFunctionOnSet(h, S \ {y})
      BY SumRemove
<1>4. SumFunctionOnSet(f, S \ {y}) \in Int  BY <1>1, SumInt
<1>5. QED  BY <1>2, <1>3, <1>4

\* A sum of natural numbers is at least each of them.
LEMMA SumNat ==
  ASSUME NEW f, NEW S, IsFiniteSet(S), \A x \in S : f[x] \in Nat
  PROVE  /\ SumFunctionOnSet(f, S) \in Nat
         /\ \A x \in S : f[x] <= SumFunctionOnSet(f, S)
<1> DEFINE F == {T \in SUBSET S : SumFunctionOnSet(f, T) \in Nat}
<1>1. ASSUME NEW T \in SUBSET S, \A x \in T : T \ {x} \in F
      PROVE  T \in F
  <2>1. CASE T = {}
        BY <2>1, SumEmpty
  <2>2. CASE T # {}
    <3>1. pick(T) \in T  BY <2>2 DEF pick
    <3>2. IsFiniteSet(T)  BY FS_Subset
    <3>3. SumFunctionOnSet(f, T) = f[pick(T)] + SumFunctionOnSet(f, T \ {pick(T)})
          BY <2>2, <3>2, SumPick
    <3>4. SumFunctionOnSet(f, T \ {pick(T)}) \in Nat /\ f[pick(T)] \in Nat
          BY <1>1, <3>1
    <3>5. SumFunctionOnSet(f, T) \in Nat
      <4> DEFINE a == f[pick(T)]
                 b == SumFunctionOnSet(f, T \ {pick(T)})
      <4>1. a \in Nat /\ b \in Nat  BY <3>4
      <4> HIDE DEF a, b
      <4>2. a + b \in Nat  BY <4>1
      <4>3. QED  BY <3>3, <4>2 DEF a, b
    <3>6. QED  BY <3>5
  <2>3. QED  BY <2>1, <2>2
<1> HIDE DEF F
<1>2. \A T \in SUBSET S : T \in F  BY <1>1, SubsetInduction
<1>3. ASSUME NEW x \in S
      PROVE  f[x] <= SumFunctionOnSet(f, S)
  <2>1. SumFunctionOnSet(f, S) = f[x] + SumFunctionOnSet(f, S \ {x})  BY SumRemove
  <2>2. S \ {x} \in F  BY <1>2
  <2>3. SumFunctionOnSet(f, S \ {x}) \in Nat  BY <2>2 DEF F
  <2>4. QED  BY <2>1, <2>3
<1>4. QED  BY <1>2, <1>3 DEF F

\* A sum of zeros.
LEMMA SumZero ==
  ASSUME NEW S, IsFiniteSet(S)
  PROVE  SumFunctionOnSet([x \in S |-> 0], S) = 0
<1> DEFINE z == [x \in S |-> 0]
           F == {T \in SUBSET S : SumFunctionOnSet(z, T) = 0}
<1>1. ASSUME NEW T \in SUBSET S, \A x \in T : T \ {x} \in F
      PROVE  T \in F
  <2>1. CASE T = {}  BY <2>1, SumEmpty
  <2>2. CASE T # {}
    <3>1. pick(T) \in T /\ IsFiniteSet(T)  BY <2>2, FS_Subset DEF pick
    <3>2. z[pick(T)] = 0 /\ SumFunctionOnSet(z, T \ {pick(T)}) = 0  BY <1>1, <3>1
    <3> HIDE DEF z
    <3>3. QED  BY <2>2, <3>1, <3>2, SumPick
  <2>3. QED  BY <2>1, <2>2
<1> HIDE DEF F
<1>2. \A T \in SUBSET S : T \in F  BY <1>1, SubsetInduction
<1>3. S \in F  BY <1>2
<1>4. QED  BY <1>3 DEF F

\* Two values change, or one of them twice.
LEMMA SumChanges ==
  ASSUME NEW f, NEW h, NEW S, IsFiniteSet(S), \A x \in S : f[x] \in Int,
         NEW y \in S, NEW d \in Int, NEW z \in S, NEW e \in Int,
         \A x \in S : h[x] = f[x] + (IF x = y THEN d ELSE 0) + (IF x = z THEN e ELSE 0)
  PROVE  SumFunctionOnSet(h, S) = SumFunctionOnSet(f, S) + d + e
<1> DEFINE g == [x \in S |-> f[x] + (IF x = y THEN d ELSE 0)]
<1>1. \A x \in S : g[x] = f[x] + (IF x = y THEN d ELSE 0)  OBVIOUS
<1> HIDE DEF g
<1>2. \A x \in S : g[x] \in Int /\ h[x] \in Int  BY <1>1
<1>3. \A x \in S \ {y} : f[x] = g[x]  BY <1>1
<1>4. \A x \in S \ {z} : g[x] = h[x]  BY <1>1
<1>5. SumFunctionOnSet(g, S) = SumFunctionOnSet(f, S) - f[y] + g[y]
      BY <1>2, <1>3, SumChange
<1>6. SumFunctionOnSet(h, S) = SumFunctionOnSet(g, S) - g[z] + h[z]
      BY <1>2, <1>4, SumChange
<1>7. SumFunctionOnSet(f, S) \in Int /\ SumFunctionOnSet(g, S) \in Int
      BY <1>2, SumInt
<1>8. g[y] = f[y] + d /\ h[z] = g[z] + e  BY <1>1
<1>9. QED  BY <1>2, <1>5, <1>6, <1>7, <1>8

\* Adding an element to the set.
LEMMA SumAdd ==
  ASSUME NEW f, NEW S, IsFiniteSet(S), NEW y, y \notin S,
         \A x \in S \cup {y} : f[x] \in Int
  PROVE  SumFunctionOnSet(f, S \cup {y}) = f[y] + SumFunctionOnSet(f, S)
<1>1. IsFiniteSet(S \cup {y}) /\ (S \cup {y}) \ {y} = S  BY FS_AddElement
<1>2. QED  BY <1>1, SumRemove

\* A sum of multiples.
LEMMA SumLinear ==
  \A f, g, h, S, t, u :
    /\ IsFiniteSet(S) /\ t \in Int /\ u \in Int
    /\ \A x \in S : f[x] \in Int /\ g[x] \in Int
    /\ \A x \in S : h[x] = f[x] * t - g[x] * u
    => SumFunctionOnSet(h, S) = SumFunctionOnSet(f, S) * t - SumFunctionOnSet(g, S) * u
<1> SUFFICES ASSUME NEW f, NEW g, NEW h, NEW S, IsFiniteSet(S),
                    NEW t, t \in Int, NEW u, u \in Int,
                    \A x \in S : f[x] \in Int /\ g[x] \in Int,
                    \A x \in S : h[x] = f[x] * t - g[x] * u
             PROVE  SumFunctionOnSet(h, S)
                      = SumFunctionOnSet(f, S) * t - SumFunctionOnSet(g, S) * u
    OBVIOUS
<1> DEFINE sum(k, T) == SumFunctionOnSet(k, T)
           F == {T \in SUBSET S : sum(h, T) = sum(f, T) * t - sum(g, T) * u}
<1>1. ASSUME NEW T \in SUBSET S, \A x \in T : T \ {x} \in F
      PROVE  T \in F
  <2>1. CASE T = {}
    <3>1. sum(h, T) = 0 /\ sum(f, T) = 0 /\ sum(g, T) = 0  BY <2>1, SumEmpty
    <3> HIDE DEF sum
    <3>2. QED  BY <3>1
  <2>2. CASE T # {}
    <3> DEFINE p == pick(T)
               R == T \ {p}
    <3>1. p \in T /\ IsFiniteSet(T) /\ IsFiniteSet(R)  BY <2>2, FS_Subset DEF pick
    <3>2. /\ sum(h, T) = h[p] + sum(h, R) /\ sum(f, T) = f[p] + sum(f, R)
          /\ sum(g, T) = g[p] + sum(g, R)
          BY <2>2, <3>1, SumPick
    <3>3. sum(h, R) = sum(f, R) * t - sum(g, R) * u  BY <1>1, <3>1
    <3>4. h[p] = f[p] * t - g[p] * u /\ f[p] \in Int /\ g[p] \in Int  BY <3>1
    <3>5. sum(f, R) \in Int /\ sum(g, R) \in Int  BY <3>1, SumInt
    <3> DEFINE a == f[p]
               b == g[p]
               c == sum(f, R)
               d == sum(g, R)
    <3>6. /\ sum(h, T) = (a * t - b * u) + (c * t - d * u)
          /\ sum(f, T) = a + c /\ sum(g, T) = b + d
          BY <3>2, <3>3, <3>4
    <3>7. a \in Int /\ b \in Int /\ c \in Int /\ d \in Int  BY <3>4, <3>5
    <3> HIDE DEF a, b, c, d, sum
    <3>8. (a * t - b * u) + (c * t - d * u) = (a + c) * t - (b + d) * u  BY <3>7
    <3>9. QED  BY <3>6, <3>8
  <2>3. QED  BY <2>1, <2>2
<1> HIDE DEF F
<1>2. \A T \in SUBSET S : T \in F  BY <1>1, SubsetInduction
<1>3. S \in F  BY <1>2
<1>4. QED  BY <1>3 DEF F

\* The sum over a part of a set of natural numbers.
LEMMA SumPart ==
  ASSUME NEW f, NEW S, IsFiniteSet(S), \A x \in S : f[x] \in Nat, NEW P
  PROVE  SumFunctionOnSet(f, S \cap P) <= SumFunctionOnSet(f, S)
<1> DEFINE F == {T \in SUBSET S : SumFunctionOnSet(f, T \cap P) <= SumFunctionOnSet(f, T)}
<1>1. ASSUME NEW T \in SUBSET S, \A x \in T : T \ {x} \in F
      PROVE  T \in F
  <2>1. CASE T = {}
    <3>1. T \cap P = {}  BY <2>1
    <3>2. QED  BY <2>1, <3>1, SumEmpty
  <2>2. CASE T # {}
    <3> DEFINE p == pick(T)
               R == T \ {p}
    <3>1. p \in T /\ IsFiniteSet(T) /\ IsFiniteSet(R) /\ IsFiniteSet(R \cap P)
          /\ IsFiniteSet(T \cap P)
          BY <2>2, FS_Subset DEF pick
    <3>2. SumFunctionOnSet(f, T) = f[p] + SumFunctionOnSet(f, R)  BY <2>2, <3>1, SumPick
    <3>3. SumFunctionOnSet(f, R \cap P) <= SumFunctionOnSet(f, R)  BY <1>1, <3>1
    <3>4. /\ SumFunctionOnSet(f, R \cap P) \in Int /\ SumFunctionOnSet(f, R) \in Int
          /\ f[p] \in Nat
          BY <3>1, SumInt
    <3>5. CASE p \in P
      <4>1. p \in T \cap P /\ (T \cap P) \ {p} = R \cap P  BY <3>1, <3>5
      <4>2. \A x \in T \cap P : f[x] \in Int  OBVIOUS
      <4> HIDE DEF p, R
      <4>3. SumFunctionOnSet(f, T \cap P) = f[p] + SumFunctionOnSet(f, (T \cap P) \ {p})
            BY <3>1, <4>1, <4>2, SumRemove
      <4> DEFINE all == SumFunctionOnSet(f, T)
                 part == SumFunctionOnSet(f, T \cap P)
                 less == SumFunctionOnSet(f, R)
                 own  == SumFunctionOnSet(f, R \cap P)
                 v    == f[p]
      <4>4. all = v + less /\ part = v + own /\ own <= less  BY <3>2, <3>3, <4>1, <4>3
      <4>5. own \in Int /\ less \in Int /\ v \in Int  BY <3>4
      <4> HIDE DEF all, part, less, own, v
      <4>6. part <= all  BY <4>4, <4>5
      <4>7. QED  BY <4>6 DEF part, all
    <3>6. CASE p \notin P
      <4> DEFINE all == SumFunctionOnSet(f, T)
                 less == SumFunctionOnSet(f, R)
                 own  == SumFunctionOnSet(f, R \cap P)
                 v    == f[p]
      <4>1. T \cap P = R \cap P  BY <3>6
      <4>2. all = v + less /\ own <= less  BY <3>2, <3>3
      <4>3. own \in Int /\ less \in Int /\ v \in Nat  BY <3>4
      <4> HIDE DEF all, less, own, v
      <4>4. own <= all  BY <4>2, <4>3
      <4>5. QED  BY <4>1, <4>4 DEF own, all
    <3>7. QED  BY <3>5, <3>6
  <2>3. QED  BY <2>1, <2>2
<1> HIDE DEF F
<1>2. \A T \in SUBSET S : T \in F  BY <1>1, SubsetInduction
<1>3. S \in F  BY <1>2
<1>4. QED  BY <1>3 DEF F

\* A sum is positive only if one of its parts is.
LEMMA SumPositive ==
  ASSUME NEW f, NEW S, IsFiniteSet(S), \A x \in S : f[x] \in Int,
         SumFunctionOnSet(f, S) > 0
  PROVE  \E x \in S : f[x] > 0
<1> SUFFICES ASSUME \A x \in S : ~(f[x] > 0) PROVE FALSE
    OBVIOUS
<1> DEFINE F == {T \in SUBSET S : SumFunctionOnSet(f, T) \in Int /\ SumFunctionOnSet(f, T) <= 0}
<1>1. ASSUME NEW T \in SUBSET S, \A x \in T : T \ {x} \in F
      PROVE  T \in F
  <2>1. CASE T = {}  BY <2>1, SumEmpty
  <2>2. CASE T # {}
    <3>1. pick(T) \in T /\ IsFiniteSet(T)  BY <2>2, FS_Subset DEF pick
    <3>2. SumFunctionOnSet(f, T) = f[pick(T)] + SumFunctionOnSet(f, T \ {pick(T)})
          BY <2>2, <3>1, SumPick
    <3> DEFINE a == f[pick(T)]
               b == SumFunctionOnSet(f, T \ {pick(T)})
    <3>3. a \in Int /\ ~(a > 0)  BY <3>1
    <3>4. b \in Int /\ b <= 0  BY <1>1, <3>1
    <3> HIDE DEF a, b
    <3>5. a + b \in Int /\ a + b <= 0  BY <3>3, <3>4
    <3>6. QED  BY <3>2, <3>5 DEF a, b
  <2>3. QED  BY <2>1, <2>2
<1> HIDE DEF F
<1>2. \A T \in SUBSET S : T \in F  BY <1>1, SubsetInduction
<1>3. S \in F  BY <1>2
<1>4. QED  BY <1>3 DEF F

\* A function of a finite set has a greatest value.
LEMMA Greatest ==
  ASSUME NEW f, NEW S, IsFiniteSet(S), S # {}, \A x \in S : f[x] \in Int
  PROVE  \E x \in S : \A y \in S : f[y] <= f[x]
<1> DEFINE F == {T \in SUBSET S : T = {} \/ \E x \in T : \A y \in T : f[y] <= f[x]}
<1>1. ASSUME NEW T \in SUBSET S, \A x \in T : T \ {x} \in F
      PROVE  T \in F
  <2>1. CASE T = {}  BY <2>1
  <2>2. CASE T # {}
    <3>1. PICK z \in T : TRUE  BY <2>2
    <3>2. CASE T \ {z} = {}
      <4>1. \A y \in T : f[y] <= f[z]  BY <3>1, <3>2
      <4>2. QED  BY <4>1
    <3>3. CASE T \ {z} # {}
      <4>1. PICK x \in T \ {z} : \A y \in T \ {z} : f[y] <= f[x]  BY <1>1, <3>1, <3>3
      <4>2. CASE f[z] <= f[x]
        <5>1. \A y \in T : f[y] <= f[x]  BY <4>1, <4>2
        <5>2. QED  BY <5>1
      <4>3. CASE ~(f[z] <= f[x])
        <5>1. f[z] \in Int /\ f[x] \in Int /\ \A y \in T : f[y] \in Int  BY <4>1
        <5>2. \A y \in T : f[y] <= f[z]  BY <4>1, <4>3, <5>1
        <5>3. QED  BY <5>2
      <4>4. QED  BY <4>2, <4>3
    <3>4. QED  BY <3>2, <3>3
  <2>3. QED  BY <2>1, <2>2
<1> HIDE DEF F
<1>2. \A T \in SUBSET S : T \in F  BY <1>1, SubsetInduction
<1>3. S \in F  BY <1>2
<1>4. QED  BY <1>3 DEF F

-----------------------------------------------------------------------------
\* Where a sequence has elements of M, and how many there are.
hits(s, M) == {i \in DOMAIN s : s[i] \in M}
count(s, M) == Cardinality(hits(s, M))

LEMMA CountNat ==
  ASSUME NEW S, NEW s \in Seq(S), NEW M
  PROVE  /\ IsFiniteSet(hits(s, M))
         /\ count(s, M) \in Nat
<1>1. DOMAIN s = 1 .. Len(s) /\ Len(s) \in Nat  OBVIOUS
<1>2. IsFiniteSet(1 .. Len(s)) /\ hits(s, M) \in SUBSET (1 .. Len(s))
      BY <1>1, FS_Interval DEF hits
<1>3. IsFiniteSet(hits(s, M))  BY <1>2, FS_Subset
<1>4. QED  BY <1>3, FS_CardinalityType DEF count

\* Appending an element.
LEMMA CountAppend ==
  ASSUME NEW S, NEW s \in Seq(S), NEW x, NEW M
  PROVE  count(Append(s, x), M) = count(s, M) + IF x \in M THEN 1 ELSE 0
<1> DEFINE n == Len(s) + 1
<1>1. /\ DOMAIN s = 1 .. Len(s) /\ Len(s) \in Nat
      /\ DOMAIN Append(s, x) = 1 .. n
      /\ \A i \in 1 .. Len(s) : Append(s, x)[i] = s[i]
      /\ Append(s, x)[n] = x
      OBVIOUS
<1>2. n \notin hits(s, M)  BY <1>1 DEF hits
<1>3. hits(Append(s, x), M) = hits(s, M) \cup (IF x \in M THEN {n} ELSE {})
  <2>1. \A i : i \in 1 .. n <=> i \in 1 .. Len(s) \/ i = n  BY <1>1
  <2> HIDE DEF n
  <2>2. QED  BY <1>1, <2>1 DEF hits
<1>4. IsFiniteSet(hits(s, M)) /\ count(s, M) \in Nat  BY CountNat
<1> HIDE DEF n
<1>5. CASE x \in M
      BY <1>2, <1>3, <1>4, <1>5, FS_AddElement DEF count
<1>6. CASE x \notin M
      BY <1>3, <1>4, <1>6 DEF count
<1>7. QED  BY <1>5, <1>6

\* Removing the first element.
LEMMA CountTail ==
  ASSUME NEW S, NEW s \in Seq(S), s # <<>>, NEW M
  PROVE  count(s, M) = count(Tail(s), M) + IF Head(s) \in M THEN 1 ELSE 0
<1> DEFINE rest == hits(s, M) \ {1}
           g == [i \in hits(Tail(s), M) |-> i + 1]
<1>1. /\ DOMAIN s = 1 .. Len(s) /\ Len(s) \in Nat /\ Len(s) > 0
      /\ Tail(s) \in Seq(S) /\ DOMAIN Tail(s) = 1 .. Len(s) - 1
      /\ \A i \in 1 .. Len(s) - 1 : Tail(s)[i] = s[i + 1]
      /\ Head(s) = s[1]
      OBVIOUS
<1>2. g \in Bijection(hits(Tail(s), M), rest)
  <2>1. \A i \in hits(Tail(s), M) : i \in Nat /\ i + 1 \in rest
        BY <1>1 DEF hits
  <2>2. \A j \in rest : j - 1 \in hits(Tail(s), M) /\ (j - 1) + 1 = j
        BY <1>1 DEF hits
  <2> HIDE DEF rest
  <2>3. g \in [hits(Tail(s), M) -> rest]  BY <2>1
  <2>4. \A i, j \in hits(Tail(s), M) : g[i] = g[j] => i = j  BY <2>1
  <2>5. \A j \in rest : \E i \in hits(Tail(s), M) : g[i] = j  BY <2>2
  <2> HIDE DEF g
  <2>6. QED  BY <2>3, <2>4, <2>5 DEF Bijection, Injection, Surjection, IsInjective
<1>3. IsFiniteSet(hits(s, M)) /\ count(s, M) \in Nat  BY CountNat
<1>4. IsFiniteSet(hits(Tail(s), M)) /\ count(Tail(s), M) \in Nat
      BY <1>1, CountNat
<1>5. Cardinality(rest) = count(Tail(s), M)
  <2>1. ExistsBijection(hits(Tail(s), M), rest)  BY <1>2 DEF ExistsBijection
  <2> HIDE DEF rest
  <2>2. QED  BY <1>4, <2>1, FS_Bijection DEF count
<1>6. 1 \in hits(s, M) <=> Head(s) \in M  BY <1>1 DEF hits
<1>7. Cardinality(rest) = IF 1 \in hits(s, M) THEN count(s, M) - 1 ELSE count(s, M)
      BY <1>3, FS_RemoveElement DEF count
<1>8. QED  BY <1>3, <1>4, <1>5, <1>6, <1>7

-----------------------------------------------------------------------------
\* Sums over the positions of a sequence: one more position.
LEMMA SumLonger ==
  ASSUME NEW n \in Nat, NEW f, NEW h, \A i \in 1 .. n : f[i] \in Int /\ h[i] = f[i],
         h[n + 1] \in Int
  PROVE  SumFunctionOnSet(h, 1 .. n + 1) = SumFunctionOnSet(f, 1 .. n) + h[n + 1]
<1>1. /\ IsFiniteSet(1 .. n) /\ n + 1 \notin 1 .. n
      /\ 1 .. n + 1 = (1 .. n) \cup {n + 1}
  <2>1. IsFiniteSet(1 .. n)  BY FS_Interval
  <2>2. QED  BY <2>1
<1>2. \A i \in (1 .. n) \cup {n + 1} : h[i] \in Int
      OBVIOUS
<1>3. SumFunctionOnSet(h, 1 .. n + 1) = h[n + 1] + SumFunctionOnSet(h, 1 .. n)
      BY <1>1, <1>2, SumAdd
<1>4. SumFunctionOnSet(f, 1 .. n) = SumFunctionOnSet(h, 1 .. n)
      BY <1>1, SumEqual
<1>5. SumFunctionOnSet(f, 1 .. n) \in Int
      BY <1>1, SumInt
<1>6. QED  BY <1>3, <1>4, <1>5

\* The first position, and those after it.
LEMMA SumShifted ==
  ASSUME NEW n \in Nat, NEW f, NEW h, \A i \in 1 .. n + 1 : f[i] \in Int,
         \A i \in 1 .. n : h[i] = f[i + 1]
  PROVE  SumFunctionOnSet(f, 1 .. n + 1) = f[1] + SumFunctionOnSet(h, 1 .. n)
<1> DEFINE holds(m) == SumFunctionOnSet(f, 1 .. m + 1) = f[1] + SumFunctionOnSet(h, 1 .. m)
           F == {m \in Nat : m <= n => holds(m)}
<1>1. \A i \in 1 .. n : i + 1 \in 1 .. n + 1 /\ h[i] \in Int
      OBVIOUS
<1>2. holds(0)
  <2>1. 1 .. 0 = {} /\ 1 .. 0 + 1 = {1} /\ {} \cup {1} = {1}  OBVIOUS
  <2>2. f[1] \in Int  OBVIOUS
  <2>3. SumFunctionOnSet(f, {}) = 0 /\ SumFunctionOnSet(h, {}) = 0  BY SumEmpty
  <2>4. SumFunctionOnSet(f, {} \cup {1}) = f[1] + SumFunctionOnSet(f, {})
        BY <2>2, FS_EmptySet, SumAdd
  <2>5. QED  BY <2>1, <2>2, <2>3, <2>4
<1>3. ASSUME NEW m \in Nat, m + 1 <= n, holds(m)
      PROVE  holds(m + 1)
  <2>1. /\ m + 1 \in Nat /\ m + 1 \in 1 .. n /\ (m + 1) + 1 \in 1 .. n + 1
        /\ \A i \in 1 .. m : i \in 1 .. n
        /\ \A i \in 1 .. m + 1 : i \in 1 .. n + 1
        BY <1>3
  <2>2. /\ \A i \in 1 .. m + 1 : f[i] \in Int /\ f[i] = f[i]
        /\ f[(m + 1) + 1] \in Int
        BY <2>1
  <2>3. /\ \A i \in 1 .. m : h[i] \in Int /\ h[i] = h[i]
        /\ h[m + 1] \in Int
        BY <1>1, <2>1
  <2>4. SumFunctionOnSet(f, 1 .. (m + 1) + 1) = SumFunctionOnSet(f, 1 .. m + 1) + f[(m + 1) + 1]
        BY <2>1, <2>2, SumLonger
  <2>5. SumFunctionOnSet(h, 1 .. m + 1) = SumFunctionOnSet(h, 1 .. m) + h[m + 1]
        BY <2>3, SumLonger
  <2>6. SumFunctionOnSet(h, 1 .. m) \in Int
    <3>1. IsFiniteSet(1 .. m)  BY FS_Interval
    <3>2. QED  BY <2>3, <3>1, SumInt
  <2>7. h[m + 1] = f[(m + 1) + 1] /\ f[1] \in Int  BY <2>1
  <2>8. QED  BY <1>3, <2>2, <2>3, <2>4, <2>5, <2>6, <2>7
<1>4. 0 \in F  BY <1>2
<1>5. \A m \in Nat : m \in F => m + 1 \in F
  <2> SUFFICES ASSUME NEW m \in Nat, m \in F, m + 1 <= n PROVE holds(m + 1)
      OBVIOUS
  <2>1. m <= n  OBVIOUS
  <2>2. QED  BY <1>3, <2>1
<1> HIDE DEF F
<1>6. n \in F  BY <1>4, <1>5, NumberInduction
<1>7. QED  BY <1>6 DEF F
=============================================================================
