----------------------------- MODULE SumTheorems ----------------------------
(***************************************************************************)
(* Facts about SumFunctionOnSet, the sum of the values of a function over  *)
(* a finite set of its arguments.  The library defines it by recursion     *)
(* over the subsets; the facts are obtained from a minimal counterexample  *)
(* among these subsets.                                                    *)
(***************************************************************************)
EXTENDS Integers, FiniteSets, Functions, FiniteSetTheorems, TLAPS

-----------------------------------------------------------------------------
(* Minimal counterexamples *)

\* A non-empty set of subsets of a finite set has a member none of whose
\* proper subsets is in it.
LEMMA MinimalSubset ==
  ASSUME NEW S, IsFiniteSet(S), NEW C, C \subseteq SUBSET S, C # {}
  PROVE  \E T \in C : \A U \in C : U \subseteq T => U = T
<1>1. IsWellFoundedOn(StrictSubsetOrdering(S), SUBSET S)
  BY FS_FiniteSubsetsOfFinite, FS_StrictSubsetOrderingWellFounded
<1>2. PICK T \in C : \A U \in C : ~(<<U, T>> \in StrictSubsetOrdering(S))
  BY <1>1, WFMin
<1>3. ASSUME NEW U \in C, U \subseteq T, U # T PROVE FALSE
  <2>1. <<U, T>> \in StrictSubsetOrdering(S)
    BY <1>3 DEF StrictSubsetOrdering
  <2> QED BY <2>1, <1>2
<1> QED BY <1>3

\* A set of natural numbers has a least member.
LEMMA Least ==
  ASSUME NEW C, C \subseteq Nat, C # {}
  PROVE  \E m \in C : \A k \in C : m <= k
<1>1. PICK n \in C : TRUE
  OBVIOUS
<1> DEFINE F == {0..k : k \in {j \in C : j <= n}}
<1>2. IsFiniteSet(0..n)
  BY FS_Interval
<1>3. F \subseteq SUBSET (0..n) /\ F # {}
  <2>1. 0..n \in F
    BY <1>1
  <2>2. ASSUME NEW T \in F PROVE T \in SUBSET (0..n)
    <3>1. PICK k \in C : k <= n /\ T = 0..k
      OBVIOUS
    <3> QED BY <3>1
  <2> HIDE DEF F
  <2> QED BY <2>1, <2>2
<1>4. PICK T \in F : \A U \in F : U \subseteq T => U = T
  <2> DEFINE S == 0..n
  <2>1. IsFiniteSet(S) /\ F \subseteq SUBSET S /\ F # {}
    BY <1>2, <1>3
  <2> HIDE DEF F, S
  <2> QED BY <2>1, MinimalSubset
<1>5. PICK m \in C : m <= n /\ T = 0..m
  BY <1>4
<1>6. ASSUME NEW k \in C, k < m PROVE FALSE
  <2>1. 0..k \in F
    BY <1>5, <1>6
  <2>2. 0..k \subseteq 0..m /\ m \in 0..m /\ m \notin 0..k
    BY <1>6
  <2> QED BY <1>4, <1>5, <2>1, <2>2
<1> QED BY <1>6

\* A bounded set of natural numbers has a greatest member.
LEMMA Greatest ==
  ASSUME NEW S, NEW n \in Nat, S \subseteq 0..n, S # {}
  PROVE  \E m \in S : \A k \in S : k <= m
<1> DEFINE C == {n - k : k \in S}
<1>1. C \subseteq Nat /\ C # {}
  <2>1. ASSUME NEW c \in C PROVE c \in Nat
    <3>1. PICK k \in S : c = n - k
      OBVIOUS
    <3>2. k \in 0..n
      OBVIOUS
    <3> QED BY <3>1, <3>2
  <2>2. PICK k \in S : TRUE
    OBVIOUS
  <2>3. n - k \in C
    OBVIOUS
  <2> HIDE DEF C
  <2> QED BY <2>1, <2>3
<1>2. PICK c \in C : \A d \in C : c <= d
  <2> HIDE DEF C
  <2> QED BY <1>1, Least
<1>3. PICK m \in S : c = n - m
  OBVIOUS
<1>4. ASSUME NEW k \in S PROVE k <= m
  <2>1. n - k \in C
    OBVIOUS
  <2>2. n - m <= n - k
    BY <1>2, <1>3, <2>1
  <2>3. k \in 0..n /\ m \in 0..n
    OBVIOUS
  <2> HIDE DEF C
  <2> QED BY <2>2, <2>3
<1> QED BY <1>4

-----------------------------------------------------------------------------
(* The recursive definition *)

\* The element the library takes first, and the equation of its iterator.
First(s) == CHOOSE x \in s : TRUE
Iterates(g, f, T) ==
  g = [s \in SUBSET T |-> IF s = {} THEN 0 ELSE f[First(s)] + g[s \ {First(s)}]]

\* Every non-empty set has a first element.
LEMMA FirstType == \A s : s # {} => First(s) \in s
BY DEF First

\* Two iterators agree where both are defined.
LEMMA IteratesUnique ==
  ASSUME NEW f, NEW T, NEW U, IsFiniteSet(T), NEW g, NEW h,
         Iterates(g, f, T), Iterates(h, f, U),
         NEW s \in SUBSET T, s \subseteq U
  PROVE  g[s] = h[s]
<1> DEFINE C == {u \in SUBSET s : g[u] # h[u]}
<1>1. SUFFICES ASSUME C # {} PROVE FALSE
  OBVIOUS
<1>2. IsFiniteSet(s)
  BY FS_Subset
<1>3. PICK u \in C : \A v \in C : v \subseteq u => v = u
  <2>1. C \subseteq SUBSET s
    OBVIOUS
  <2> HIDE DEF C
  <2> QED BY <1>1, <1>2, <2>1, MinimalSubset
<1>4. u \in SUBSET T /\ u \in SUBSET U
  OBVIOUS
<1>5. CASE u = {}
  BY <1>4, <1>5 DEF Iterates
<1>6. CASE u # {}
  <2>1. First(u) \in u
    BY <1>6, FirstType
  <2>2. g[u \ {First(u)}] = h[u \ {First(u)}]
    BY <2>1, <1>3
  <2>3. /\ g[u] = f[First(u)] + g[u \ {First(u)}]
        /\ h[u] = f[First(u)] + h[u \ {First(u)}]
    BY <1>4, <1>6 DEF Iterates
  <2> QED BY <2>2, <2>3
<1> QED BY <1>5, <1>6

\* The recursion is well defined.
LEMMA IteratesExists ==
  ASSUME NEW f, NEW S, IsFiniteSet(S)
  PROVE  \E g : Iterates(g, f, S)
<1> DEFINE C == {T \in SUBSET S : ~ \E g : Iterates(g, f, T)}
<1>1. SUFFICES ASSUME C # {} PROVE FALSE
  OBVIOUS
<1>2. PICK T \in C : \A U \in C : U \subseteq T => U = T
  <2>1. C \subseteq SUBSET S
    OBVIOUS
  <2> HIDE DEF C
  <2> QED BY <1>1, <2>1, MinimalSubset
<1>3. \A U \in SUBSET T : U # T => \E g : Iterates(g, f, U)
  BY <1>2
<1> DEFINE G(U) == CHOOSE g : Iterates(g, f, U)
<1>4. \A U \in SUBSET T : U # T => Iterates(G(U), f, U)
  BY <1>3
<1>5. T # {}
  <2>1. Iterates([s \in SUBSET {} |-> 0], f, {})
    BY DEF Iterates
  <2> QED BY <2>1, <1>2
<1> DEFINE x == First(T)
           R == T \ {x}
           h == [s \in SUBSET T |-> IF s = T THEN f[x] + G(R)[R] ELSE G(s)[s]]
<1>6. x \in T /\ R \in SUBSET T /\ R # T
  BY <1>5, FirstType
<1>7. ASSUME NEW s \in SUBSET T
      PROVE  h[s] = IF s = {} THEN 0 ELSE f[First(s)] + h[s \ {First(s)}]
  <2>1. CASE s = T
    <3>1. h[s] = f[x] + G(R)[R] /\ h[R] = G(R)[R]
      BY <2>1, <1>6
    <3> QED BY <3>1, <2>1, <1>5
  <2>2. CASE s # T
    <3>1. h[s] = G(s)[s] /\ Iterates(G(s), f, s)
      BY <2>2, <1>4
    <3>2. CASE s = {}
      BY <3>1, <3>2 DEF Iterates
    <3>3. CASE s # {}
      <4> DEFINE y == First(s)
                 Q == s \ {y}
      <4>1. y \in s /\ Q \in SUBSET T /\ Q # T /\ Q \in SUBSET s
        BY <3>3, FirstType
      <4>2. G(s)[s] = f[y] + G(s)[Q]
        BY <3>1, <3>3 DEF Iterates
      <4>3. Iterates(G(Q), f, Q) /\ h[Q] = G(Q)[Q]
        BY <4>1, <1>4
      <4>4. IsFiniteSet(s)
        BY FS_Subset
      <4>5. G(s)[Q] = G(Q)[Q]
        <5> HIDE DEF G, Q
        <5> QED BY <3>1, <4>1, <4>3, <4>4, IteratesUnique
      <4> QED BY <3>1, <3>3, <4>2, <4>3, <4>5
    <3> QED BY <3>2, <3>3
  <2> QED BY <2>1, <2>2
<1>8. Iterates(h, f, T)
  <2> HIDE DEF G, R, x
  <2>1. h = [s \in SUBSET T |-> h[s]]
    OBVIOUS
  <2> HIDE DEF h
  <2> QED BY <2>1, <1>7 DEF Iterates
<1> QED BY <1>8, <1>2

\* The library's sum is the value of the iterator.
LEMMA SumIterates ==
  ASSUME NEW f, NEW S, IsFiniteSet(S)
  PROVE  \E g : Iterates(g, f, S) /\ SumFunctionOnSet(f, S) = g[S]
<1> DEFINE g == CHOOSE g : Iterates(g, f, S)
<1>1. Iterates(g, f, S)
  BY IteratesExists
<1>2. SumFunctionOnSet(f, S) = g[S]
  BY DEF SumFunctionOnSet, FoldFunctionOnSet, MapThenFoldSet, Iterates, First
<1> QED BY <1>1, <1>2

\* The sum over the empty set.
LEMMA SumEmpty == ASSUME NEW f PROVE SumFunctionOnSet(f, {}) = 0
<1>1. PICK g : Iterates(g, f, {}) /\ SumFunctionOnSet(f, {}) = g[{}]
  BY SumIterates, FS_EmptySet
<1> QED BY <1>1 DEF Iterates

\* The sum is what the first element contributes and the sum of the rest.
LEMMA SumFirst ==
  ASSUME NEW f, NEW S, IsFiniteSet(S), S # {}
  PROVE  SumFunctionOnSet(f, S) =
           f[First(S)] + SumFunctionOnSet(f, S \ {First(S)})
<1> DEFINE R == S \ {First(S)}
<1>1. PICK g : Iterates(g, f, S) /\ SumFunctionOnSet(f, S) = g[S]
  BY SumIterates
<1>2. IsFiniteSet(R)
  BY FS_RemoveElement
<1>3. PICK h : Iterates(h, f, R) /\ SumFunctionOnSet(f, R) = h[R]
  BY <1>2, SumIterates
<1>4. g[S] = f[First(S)] + g[R]
  BY <1>1 DEF Iterates
<1>5. R \in SUBSET S
  OBVIOUS
<1>6. g[R] = h[R]
  <2> HIDE DEF R
  <2> QED BY <1>1, <1>3, <1>5, IteratesUnique
<1> QED BY <1>1, <1>3, <1>4, <1>6

-----------------------------------------------------------------------------
(* What the sum does not depend on *)

\* A sum of integers is an integer.
LEMMA SumType ==
  ASSUME NEW S, IsFiniteSet(S), NEW f, \A x \in S : f[x] \in Int
  PROVE  SumFunctionOnSet(f, S) \in Int
<1> DEFINE C == {T \in SUBSET S : SumFunctionOnSet(f, T) \notin Int}
<1>1. SUFFICES ASSUME C # {} PROVE FALSE
  OBVIOUS
<1>2. PICK T \in C : \A U \in C : U \subseteq T => U = T
  <2>1. C \subseteq SUBSET S
    OBVIOUS
  <2> HIDE DEF C
  <2> QED BY <1>1, <2>1, MinimalSubset
<1>3. T # {}
  BY SumEmpty
<1>4. First(T) \in T /\ IsFiniteSet(T)
  BY <1>3, FirstType, FS_Subset
<1>5. SumFunctionOnSet(f, T) = f[First(T)] + SumFunctionOnSet(f, T \ {First(T)})
  BY <1>3, <1>4, SumFirst
<1>6. SumFunctionOnSet(f, T \ {First(T)}) \in Int
  BY <1>2, <1>4
<1> QED BY <1>4, <1>5, <1>6

\* Any element may be taken out first: the order of summation does not matter.
LEMMA SumRemove ==
  ASSUME NEW S, IsFiniteSet(S), NEW f, \A y \in S : f[y] \in Int, NEW x \in S
  PROVE  SumFunctionOnSet(f, S) = f[x] + SumFunctionOnSet(f, S \ {x})
<1> DEFINE Sum(T) == SumFunctionOnSet(f, T)
           C == {T \in SUBSET S :
                   \E y \in T : Sum(T) # f[y] + Sum(T \ {y})}
<1>1. SUFFICES ASSUME C # {} PROVE FALSE
  OBVIOUS
<1>2. PICK T \in C : \A U \in C : U \subseteq T => U = T
  <2>1. C \subseteq SUBSET S
    OBVIOUS
  <2> HIDE DEF C
  <2> QED BY <1>1, <2>1, MinimalSubset
<1>3. PICK y \in T : Sum(T) # f[y] + Sum(T \ {y})
  OBVIOUS
<1> DEFINE c == First(T)
<1>4. c \in T /\ IsFiniteSet(T) /\ T # {}
  BY <1>3, FirstType, FS_Subset
<1>5. Sum(T) = f[c] + Sum(T \ {c})
  BY <1>4, SumFirst
<1>6. c # y
  BY <1>3, <1>5
<1>7. \A U \in SUBSET T : U # T => \A z \in U : Sum(U) = f[z] + Sum(U \ {z})
  BY <1>2
<1> DEFINE P == T \ {c}
           Q == T \ {y}
           R == P \ {y}
<1>8. /\ P \in SUBSET T /\ P # T /\ y \in P
      /\ Q \in SUBSET T /\ Q # T /\ c \in Q /\ Q \ {c} = R
  BY <1>4, <1>6
<1>9. Sum(R) \in Int /\ f[c] \in Int /\ f[y] \in Int
  <2>1. R \in SUBSET S /\ IsFiniteSet(R)
    BY <1>4, FS_Subset
  <2> QED BY <2>1, <1>4, SumType
<1> HIDE DEF Sum, c, P, Q, R
<1>10. Sum(P) = f[y] + Sum(R) /\ Sum(Q) = f[c] + Sum(R)
  BY <1>7, <1>8 DEF R
<1>11. Sum(T) = f[c] + Sum(P) /\ Sum(T) # f[y] + Sum(Q)
  BY <1>3, <1>5 DEF P, Q
<1> QED BY <1>9, <1>10, <1>11

\* Adding an element adds its value.
LEMMA SumAdd ==
  ASSUME NEW S, IsFiniteSet(S), NEW x, x \notin S, NEW f,
         \A y \in S \cup {x} : f[y] \in Int
  PROVE  SumFunctionOnSet(f, S \cup {x}) = f[x] + SumFunctionOnSet(f, S)
<1> DEFINE T == S \cup {x}
<1>1. IsFiniteSet(T) /\ x \in T /\ T \ {x} = S
  BY FS_AddElement
<1> HIDE DEF T
<1>2. \A y \in T : f[y] \in Int
  BY DEF T
<1> QED BY <1>1, <1>2, SumRemove DEF T

\* The sum over a smaller function is smaller.
LEMMA SumMonotone ==
  ASSUME NEW S, IsFiniteSet(S), NEW f, NEW g,
         \A x \in S : f[x] \in Int /\ g[x] \in Int /\ f[x] <= g[x]
  PROVE  SumFunctionOnSet(f, S) <= SumFunctionOnSet(g, S)
<1> DEFINE C == {T \in SUBSET S :
                   ~(SumFunctionOnSet(f, T) <= SumFunctionOnSet(g, T))}
<1>1. SUFFICES ASSUME C # {} PROVE FALSE
  OBVIOUS
<1>2. PICK T \in C : \A U \in C : U \subseteq T => U = T
  <2>1. C \subseteq SUBSET S
    OBVIOUS
  <2> HIDE DEF C
  <2> QED BY <1>1, <2>1, MinimalSubset
<1>3. T # {}
  BY SumEmpty
<1> DEFINE c == First(T)
           R == T \ {c}
<1>4. c \in T /\ IsFiniteSet(T) /\ IsFiniteSet(R) /\ R \in SUBSET S
  BY <1>3, FirstType, FS_Subset, FS_RemoveElement
<1>5. /\ SumFunctionOnSet(f, T) = f[c] + SumFunctionOnSet(f, R)
      /\ SumFunctionOnSet(g, T) = g[c] + SumFunctionOnSet(g, R)
  BY <1>3, <1>4, SumFirst
<1>6. SumFunctionOnSet(f, R) <= SumFunctionOnSet(g, R)
  BY <1>2, <1>4
<1>7. SumFunctionOnSet(f, R) \in Int /\ SumFunctionOnSet(g, R) \in Int
  <2> HIDE DEF R
  <2> QED BY <1>4, SumType
<1>8. f[c] \in Int /\ g[c] \in Int /\ f[c] <= g[c]
  BY <1>4
<1>9. ~(SumFunctionOnSet(f, T) <= SumFunctionOnSet(g, T))
  BY <1>2
<1> HIDE DEF c, R
<1> QED BY <1>5, <1>6, <1>7, <1>8, <1>9

\* Functions that agree on a set have the same sum over it.
LEMMA SumSame ==
  ASSUME NEW S, IsFiniteSet(S), NEW f, NEW g,
         \A x \in S : f[x] \in Int /\ g[x] = f[x]
  PROVE  SumFunctionOnSet(g, S) = SumFunctionOnSet(f, S)
<1>1. /\ SumFunctionOnSet(f, S) \in Int /\ SumFunctionOnSet(g, S) \in Int
      /\ SumFunctionOnSet(f, S) <= SumFunctionOnSet(g, S)
      /\ SumFunctionOnSet(g, S) <= SumFunctionOnSet(f, S)
  BY SumType, SumMonotone
<1> QED BY <1>1

\* When one value changes the sum changes by the difference.
LEMMA SumUpdate ==
  ASSUME NEW S, IsFiniteSet(S), NEW f, NEW g, NEW x \in S,
         \A y \in S : f[y] \in Int /\ g[y] \in Int /\ (y # x => g[y] = f[y])
  PROVE  SumFunctionOnSet(g, S) = SumFunctionOnSet(f, S) + g[x] - f[x]
<1> DEFINE R == S \ {x}
<1>1. IsFiniteSet(R) /\ \A y \in R : f[y] \in Int /\ g[y] = f[y]
  BY FS_RemoveElement
<1>2. /\ SumFunctionOnSet(f, S) = f[x] + SumFunctionOnSet(f, R)
      /\ SumFunctionOnSet(g, S) = g[x] + SumFunctionOnSet(g, R)
  BY SumRemove
<1> HIDE DEF R
<1>3. SumFunctionOnSet(g, R) = SumFunctionOnSet(f, R)
  BY <1>1, SumSame
<1>4. SumFunctionOnSet(f, R) \in Int /\ f[x] \in Int /\ g[x] \in Int
  BY <1>1, SumType
<1> QED BY <1>2, <1>3, <1>4

\* The sum of natural numbers is a natural number.
LEMMA SumNat ==
  ASSUME NEW S, IsFiniteSet(S), NEW f, \A x \in S : f[x] \in Nat
  PROVE  SumFunctionOnSet(f, S) \in Nat
<1> DEFINE C == {T \in SUBSET S : SumFunctionOnSet(f, T) \notin Nat}
<1>1. SUFFICES ASSUME C # {} PROVE FALSE
  OBVIOUS
<1>2. PICK T \in C : \A U \in C : U \subseteq T => U = T
  <2>1. C \subseteq SUBSET S
    OBVIOUS
  <2> HIDE DEF C
  <2> QED BY <1>1, <2>1, MinimalSubset
<1>3. T # {}
  BY SumEmpty
<1>4. First(T) \in T /\ IsFiniteSet(T)
  BY <1>3, FirstType, FS_Subset
<1>5. SumFunctionOnSet(f, T) = f[First(T)] + SumFunctionOnSet(f, T \ {First(T)})
  BY <1>3, <1>4, SumFirst
<1>6. SumFunctionOnSet(f, T \ {First(T)}) \in Nat
  BY <1>2, <1>4
<1> QED BY <1>4, <1>5, <1>6

\* The sum over a function that is 0 everywhere.
LEMMA SumZero ==
  ASSUME NEW S, IsFiniteSet(S), NEW f, \A x \in S : f[x] = 0
  PROVE  SumFunctionOnSet(f, S) = 0
<1> DEFINE C == {T \in SUBSET S : SumFunctionOnSet(f, T) # 0}
<1>1. SUFFICES ASSUME C # {} PROVE FALSE
  OBVIOUS
<1>2. PICK T \in C : \A U \in C : U \subseteq T => U = T
  <2>1. C \subseteq SUBSET S
    OBVIOUS
  <2> HIDE DEF C
  <2> QED BY <1>1, <2>1, MinimalSubset
<1>3. T # {}
  BY SumEmpty
<1>4. First(T) \in T /\ IsFiniteSet(T)
  BY <1>3, FirstType, FS_Subset
<1>5. SumFunctionOnSet(f, T) = f[First(T)] + SumFunctionOnSet(f, T \ {First(T)})
  BY <1>3, <1>4, SumFirst
<1>6. SumFunctionOnSet(f, T \ {First(T)}) = 0
  BY <1>2, <1>4
<1> QED BY <1>4, <1>5, <1>6

\* The sum of two functions' values is the sum of their sums.
LEMMA SumPlus ==
  ASSUME NEW S, IsFiniteSet(S), NEW f, NEW g, NEW h,
         \A x \in S : f[x] \in Int /\ g[x] \in Int /\ h[x] = f[x] + g[x]
  PROVE  SumFunctionOnSet(h, S) = SumFunctionOnSet(f, S) + SumFunctionOnSet(g, S)
<1> DEFINE C == {T \in SUBSET S : SumFunctionOnSet(h, T) #
                   SumFunctionOnSet(f, T) + SumFunctionOnSet(g, T)}
<1>1. SUFFICES ASSUME C # {} PROVE FALSE
  OBVIOUS
<1>2. PICK T \in C : \A U \in C : U \subseteq T => U = T
  <2>1. C \subseteq SUBSET S
    OBVIOUS
  <2> HIDE DEF C
  <2> QED BY <1>1, <2>1, MinimalSubset
<1>3. T # {}
  <2>1. /\ SumFunctionOnSet(f, {}) = 0 /\ SumFunctionOnSet(g, {}) = 0
        /\ SumFunctionOnSet(h, {}) = 0
    BY SumEmpty
  <2>2. {} \notin C
    BY <2>1
  <2> HIDE DEF C
  <2> QED BY <1>2, <2>2
<1> DEFINE c == First(T)
           R == T \ {c}
<1>4. c \in T /\ IsFiniteSet(T) /\ IsFiniteSet(R) /\ R \in SUBSET S
  BY <1>3, FirstType, FS_Subset, FS_RemoveElement
<1>5. /\ SumFunctionOnSet(f, T) = f[c] + SumFunctionOnSet(f, R)
      /\ SumFunctionOnSet(g, T) = g[c] + SumFunctionOnSet(g, R)
      /\ SumFunctionOnSet(h, T) = h[c] + SumFunctionOnSet(h, R)
  BY <1>3, <1>4, SumFirst
<1>6. SumFunctionOnSet(h, R) = SumFunctionOnSet(f, R) + SumFunctionOnSet(g, R)
  BY <1>2, <1>4
<1>7. SumFunctionOnSet(f, R) \in Int /\ SumFunctionOnSet(g, R) \in Int
  <2> HIDE DEF R
  <2> QED BY <1>4, SumType
<1>8. f[c] \in Int /\ g[c] \in Int /\ h[c] = f[c] + g[c]
  BY <1>4
<1>9. SumFunctionOnSet(h, T) # SumFunctionOnSet(f, T) + SumFunctionOnSet(g, T)
  BY <1>2
<1> HIDE DEF c, R
<1> QED BY <1>5, <1>6, <1>7, <1>8, <1>9

\* Values that are covered one to one by the values of another function have
\* the smaller sum.
LEMMA SumInjection ==
  ASSUME NEW S, IsFiniteSet(S), NEW T, IsFiniteSet(T), NEW f, NEW g, NEW m,
         \A x \in S : f[x] \in Nat, \A y \in T : g[y] \in Nat,
         \A x \in S : f[x] # 0 => m[x] \in T /\ f[x] <= g[m[x]],
         \A x, y \in S : f[x] # 0 /\ f[y] # 0 /\ m[x] = m[y] => x = y
  PROVE  SumFunctionOnSet(f, S) <= SumFunctionOnSet(g, T)
<1> DEFINE Maps(U, V) == \A x \in U : f[x] # 0 => m[x] \in V
           Less(U, V) == SumFunctionOnSet(f, U) <= SumFunctionOnSet(g, V)
           C == {U \in SUBSET S : \E V \in SUBSET T : Maps(U, V) /\ ~Less(U, V)}
<1>1. SUFFICES ASSUME C # {} PROVE FALSE
  <2>1. Maps(S, T)
    OBVIOUS
  <2> QED BY <2>1
<1>2. PICK U \in C : \A W \in C : W \subseteq U => W = U
  <2>1. C \subseteq SUBSET S
    OBVIOUS
  <2> HIDE DEF C
  <2> QED BY <1>1, <2>1, MinimalSubset
<1>3. PICK V \in SUBSET T : Maps(U, V) /\ ~Less(U, V)
  BY <1>2
<1>4. U \in SUBSET S /\ IsFiniteSet(U) /\ IsFiniteSet(V)
  BY FS_Subset
<1>5. SumFunctionOnSet(g, V) \in Nat
  BY <1>4, SumNat
<1>6. U # {}
  BY <1>3, <1>5, SumEmpty
<1> DEFINE c == First(U)
           R == U \ {c}
<1>7. c \in U /\ IsFiniteSet(R) /\ R \in SUBSET S /\ R # U
  BY <1>4, <1>6, FirstType, FS_RemoveElement
<1>8. \A W \in SUBSET T : Maps(R, W) => Less(R, W)
  BY <1>2, <1>7
<1>9. SumFunctionOnSet(f, U) = f[c] + SumFunctionOnSet(f, R)
  BY <1>4, <1>6, SumFirst
<1>10. SumFunctionOnSet(f, R) \in Nat /\ f[c] \in Nat
  <2> HIDE DEF R
  <2> QED BY <1>4, <1>7, SumNat
<1>11. CASE f[c] = 0
  <2>1. Less(R, V)
    BY <1>3, <1>8
  <2> QED BY <1>3, <1>5, <1>9, <1>10, <1>11, <2>1
<1>12. CASE f[c] # 0
  <2> DEFINE y == m[c]
             W == V \ {y}
  <2>1. y \in V /\ f[c] <= g[y] /\ g[y] \in Nat /\ W \in SUBSET T
    BY <1>3, <1>4, <1>7, <1>12
  <2>2. Maps(R, W)
    BY <1>3, <1>4, <1>7, <1>12
  <2>3. Less(R, W)
    BY <1>8, <2>1, <2>2
  <2>4. SumFunctionOnSet(g, V) = g[y] + SumFunctionOnSet(g, W)
    BY <1>4, <2>1, SumRemove
  <2>5. SumFunctionOnSet(g, W) \in Nat
    <3>1. IsFiniteSet(W)
      BY <1>4, FS_RemoveElement
    <3> HIDE DEF W
    <3> QED BY <2>1, <3>1, SumNat
  <2> HIDE DEF c, R, y, W
  <2> QED BY <1>3, <1>9, <1>10, <2>1, <2>3, <2>4, <2>5
<1> QED BY <1>11, <1>12

\* A finite set stays finite when one element comes or goes.
LEMMA FiniteOneMore ==
  ASSUME NEW S, IsFiniteSet(S), NEW x
  PROVE  IsFiniteSet(S \cup {x}) /\ IsFiniteSet(S \ {x})
BY FS_AddElement, FS_RemoveElement

\* The empty set is finite.
LEMMA FiniteNone == IsFiniteSet({})
BY FS_EmptySet

\* A common factor comes out of a sum.
LEMMA SumTimes ==
  ASSUME NEW S, IsFiniteSet(S), NEW c \in Int, NEW f, NEW h,
         \A x \in S : f[x] \in Int /\ h[x] = f[x] * c
  PROVE  SumFunctionOnSet(h, S) = SumFunctionOnSet(f, S) * c
<1> DEFINE C == {T \in SUBSET S : SumFunctionOnSet(h, T) # SumFunctionOnSet(f, T) * c}
<1>1. SUFFICES ASSUME C # {} PROVE FALSE
  OBVIOUS
<1>2. PICK T \in C : \A U \in C : U \subseteq T => U = T
  <2>1. C \subseteq SUBSET S
    OBVIOUS
  <2> HIDE DEF C
  <2> QED BY <1>1, <2>1, MinimalSubset
<1>3. IsFiniteSet(T)
  BY FS_Subset
<1>4. CASE T = {}
  BY <1>2, <1>4, SumEmpty
<1>5. CASE T # {}
  <2> DEFINE x == First(T)
             R == T \ {x}
  <2>1. x \in T /\ x \in S /\ R \subseteq S
    BY <1>5, FirstType
  <2>2. SumFunctionOnSet(h, R) = SumFunctionOnSet(f, R) * c
    BY <1>2, <2>1
  <2>3. /\ SumFunctionOnSet(h, T) = h[x] + SumFunctionOnSet(h, R)
        /\ SumFunctionOnSet(f, T) = f[x] + SumFunctionOnSet(f, R)
    BY <1>3, <1>5, SumFirst
  <2>4. IsFiniteSet(R) /\ \A y \in R : f[y] \in Int
    BY <2>1, FS_Subset
  <2>5. SumFunctionOnSet(f, R) \in Int
    BY <2>4, SumType
  <2>6. f[x] \in Int /\ h[x] = f[x] * c
    BY <2>1
  <2> HIDE DEF x, R
  <2>7. (f[x] + SumFunctionOnSet(f, R)) * c = f[x] * c + SumFunctionOnSet(f, R) * c
    BY <2>5, <2>6
  <2> QED BY <1>2, <2>2, <2>3, <2>6, <2>7
<1> QED BY <1>4, <1>5

\* A sum over a part is a sum over the whole in which the rest counts nothing.
LEMMA SumPart ==
  ASSUME NEW S, IsFiniteSet(S), NEW A, A \subseteq S, NEW f, NEW h,
         \A x \in A : f[x] \in Int /\ h[x] = f[x],
         \A x \in S \ A : h[x] = 0
  PROVE  SumFunctionOnSet(h, S) = SumFunctionOnSet(f, A)
<1> DEFINE C == {T \in SUBSET S : SumFunctionOnSet(h, T) # SumFunctionOnSet(f, T \cap A)}
<1>1. SUFFICES ASSUME C # {} PROVE FALSE
  <2>1. S \cap A = A
    OBVIOUS
  <2> QED BY <2>1
<1>2. PICK T \in C : \A U \in C : U \subseteq T => U = T
  <2>1. C \subseteq SUBSET S
    OBVIOUS
  <2> HIDE DEF C
  <2> QED BY <1>1, <2>1, MinimalSubset
<1>3. IsFiniteSet(T) /\ IsFiniteSet(T \cap A)
  BY FS_Subset
<1>4. CASE T = {}
  <2>1. T \cap A = {}
    BY <1>4
  <2> QED BY <1>2, <1>4, <2>1, SumEmpty
<1>5. CASE T # {}
  <2> DEFINE x == First(T)
             R == T \ {x}
  <2>1. x \in T /\ x \in S /\ R \subseteq S
    BY <1>5, FirstType
  <2>2. SumFunctionOnSet(h, R) = SumFunctionOnSet(f, R \cap A)
    BY <1>2, <2>1
  <2>3. SumFunctionOnSet(h, T) = h[x] + SumFunctionOnSet(h, R)
    BY <1>3, <1>5, SumFirst
  <2>4. IsFiniteSet(R \cap A) /\ \A y \in R \cap A : f[y] \in Int
    BY FS_Subset, <2>1
  <2>5. SumFunctionOnSet(f, R \cap A) \in Int
    BY <2>4, SumType
  <2>6. CASE x \in A
    <3>1. T \cap A = (R \cap A) \cup {x} /\ x \notin R \cap A
      BY <2>1, <2>6
    <3>2. \A y \in (R \cap A) \cup {x} : f[y] \in Int
      BY <2>4, <2>6
    <3> DEFINE B == R \cap A
    <3> HIDE DEF x, R, B
    <3>3. SumFunctionOnSet(f, B \cup {x}) = f[x] + SumFunctionOnSet(f, B)
      BY <2>4, <3>1, <3>2, SumAdd DEF B
    <3> QED BY <1>2, <2>2, <2>3, <2>6, <3>1, <3>3 DEF B
  <2>7. CASE x \notin A
    <3>1. T \cap A = R \cap A /\ h[x] = 0
      BY <2>1, <2>7
    <3>2. SumFunctionOnSet(h, T) # SumFunctionOnSet(f, T \cap A)
      BY <1>2
    <3> HIDE DEF x, R, C
    <3>3. SumFunctionOnSet(h, T) = SumFunctionOnSet(f, R \cap A)
      BY <2>2, <2>3, <2>5, <3>1
    <3> QED BY <3>1, <3>2, <3>3
  <2> QED BY <2>6, <2>7
<1> QED BY <1>4, <1>5
=============================================================================
