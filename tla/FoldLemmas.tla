----------------------------- MODULE FoldLemmas -----------------------------
(***************************************************************************)
(* What the proofs about recursive data need.  The library's induction     *)
(* principles are about predicates; the ones here are about sets, so that  *)
(* first-order provers can use them: a set of counterexamples has a        *)
(* minimal member.  From these follow maxima, sums and the folds of the    *)
(* community modules.                                                      *)
(***************************************************************************)
EXTENDS Integers, SequencesExt, FiniteSetTheorems, WellFoundedInduction, TLAPS

\* The guard n <= m / d that the code puts before a product is the exact
\* condition for n * d to stay within m.
LEMMA DivBound ==
  ASSUME NEW n \in Nat, NEW d \in Nat, d > 0, NEW m \in Nat
  PROVE  n <= m \div d <=> n * d <= m
<1>1. m = d * (m \div d) + (m % d) /\ m % d \in 0 .. d - 1 /\ m \div d \in Nat
  OBVIOUS
<1> DEFINE q == m \div d
           r == m % d
<1>2. q \in Nat /\ r \in Nat /\ m = d * q + r /\ r < d
  BY <1>1
<1> HIDE DEF q, r
<1>3. n <= q => n * d <= q * d
  BY <1>2
<1>4. n > q => n >= q + 1 /\ n * d >= (q + 1) * d
  BY <1>2
<1>5. (q + 1) * d = d * q + d
  BY <1>2
<1>6. n * d \in Nat /\ d * q \in Nat /\ q * d = d * q
  BY <1>2
<1>7. n <= q <=> n * d <= m
  BY <1>2, <1>3, <1>4, <1>5, <1>6
<1> QED BY <1>7 DEF q

\* A remainder is determined by its range.
LEMMA ModUnique ==
  ASSUME NEW m \in Nat \ {0}, NEW x \in Int, NEW q \in Int, NEW r \in 0 .. (m - 1),
         x = m * q + r
  PROVE  x % m = r
OBVIOUS

\* Unsigned counters: wrapping after each step is wrapping once at the end.
LEMMA ModAdd ==
  ASSUME NEW m \in Nat \ {0}, NEW x \in Int, NEW y \in Int
  PROVE  ((x % m) + y) % m = (x + y) % m
<1> DEFINE q == x \div m
           r == x % m
           t == (r + y) \div m
           u == (r + y) % m
<1>1. x = m * q + r /\ q \in Int /\ r \in Int
  OBVIOUS
<1>2. r + y = m * t + u /\ t \in Int /\ u \in 0 .. (m - 1)
  BY <1>1
<1> HIDE DEF q, r, t, u
<1>3. m * q \in Int /\ m * t \in Int /\ m * (q + t) = m * q + m * t
  BY <1>1, <1>2
<1>4. x + y = m * (q + t) + u
  BY <1>1, <1>2, <1>3
<1>5. (x + y) % m = u
  <2> DEFINE z == x + y
             k == q + t
  <2>1. z \in Int /\ k \in Int /\ z = m * k + u
    BY <1>1, <1>2, <1>4
  <2> HIDE DEF z, k
  <2>2. z % m = u
    BY <1>2, <2>1, ModUnique
  <2> QED BY <2>2 DEF z
<1> QED BY <1>5 DEF u, r

\* c chooses an element of every non-empty subset of D.
Chooses(c, D) == \A s \in SUBSET D : s # {} => c[s] \in s

\* f folds g over the subsets of D: g[x] is what element x does to a value.
IsFold(f, D, base, g, c) ==
  \A s \in SUBSET D : f[s] = IF s = {} THEN base ELSE g[c[s]][f[s \ {c[s]}]]

\* A non-empty set of finite sets has a member that includes no other.
LEMMA MinimalSet ==
  ASSUME NEW D, IsFiniteSet(D), NEW T \in SUBSET (SUBSET D), T # {}
  PROVE  \E s \in T : \A u \in SUBSET s : u # s => u \notin T
<1>1. FiniteSubsetsOf(D) = SUBSET D
  BY FS_FiniteSubsetsOfFinite
<1>2. PICK s \in T : \A u \in T : ~(<<u, s>> \in StrictSubsetOrdering(D))
  BY <1>1, WFMin, FS_StrictSubsetOrderingWellFounded
<1>3. ASSUME NEW u \in SUBSET s, u # s, u \in T
      PROVE  FALSE
  <2>1. << u, s >> \in StrictSubsetOrdering(D)
    BY <1>3, Zenon DEF StrictSubsetOrdering
  <2> QED BY <2>1, <1>2, <1>3
<1> QED BY <1>3

\* A non-empty finite set of integers has a maximum and a minimum.
LEMMA MaxMin ==
  ASSUME NEW D \in SUBSET Int, IsFiniteSet(D)
  PROVE  \A S \in SUBSET D : S # {} =>
           /\ Max(S) \in S /\ \A y \in S : Max(S) >= y
           /\ Min(S) \in S /\ \A y \in S : Min(S) <= y
<1> DEFINE Bounded(S) == /\ \E x \in S : \A y \in S : x >= y
                         /\ \E x \in S : \A y \in S : x <= y
           Bad == {S \in SUBSET D : S # {} /\ ~Bounded(S)}
<1>1. Bad = {}
  <2> SUFFICES ASSUME Bad # {} PROVE FALSE
    OBVIOUS
  <2>1. PICK S \in Bad : \A u \in SUBSET S : u # S => u \notin Bad
    <3>1. Bad \in SUBSET (SUBSET D)
      OBVIOUS
    <3> HIDE DEF Bad
    <3> QED BY <3>1, MinimalSet
  <2>2. PICK x \in S : TRUE
    OBVIOUS
  <2>3. S \ {x} = {} \/ Bounded(S \ {x})
    BY <2>1
  <2>4. CASE S \ {x} = {}
    <3>1. S = {x} /\ x \in Int
      BY <2>4
    <3> QED BY <2>1, <3>1
  <2>5. CASE Bounded(S \ {x})
    <3>1. PICK m \in S \ {x} : \A y \in S \ {x} : m >= y
      BY <2>5
    <3>2. PICK n \in S \ {x} : \A y \in S \ {x} : n <= y
      BY <2>5
    <3>3. m \in Int /\ n \in Int /\ x \in Int /\ S \in SUBSET Int
      OBVIOUS
    <3>4. \E w \in S : \A y \in S : w >= y
      BY <3>1, <3>3
    <3>5. \E w \in S : \A y \in S : w <= y
      BY <3>2, <3>3
    <3> QED BY <2>1, <3>4, <3>5
  <2> QED BY <2>3, <2>4, <2>5
<1> SUFFICES ASSUME NEW S \in SUBSET D, S # {}
             PROVE  /\ Max(S) \in S /\ \A y \in S : Max(S) >= y
                    /\ Min(S) \in S /\ \A y \in S : Min(S) <= y
  OBVIOUS
<1>2. Bounded(S)
  BY <1>1
<1> QED BY <1>2 DEF Max, Min

\* Induction over the subsets of a finite set, one chosen element at a time.
LEMMA SetInduction ==
  ASSUME NEW D, IsFiniteSet(D), NEW c, NEW Good,
         Chooses(c, D), {} \in Good,
         \A s \in SUBSET D : s # {} /\ s \ {c[s]} \in Good => s \in Good
  PROVE  \A s \in SUBSET D : s \in Good
<1> DEFINE Bad == (SUBSET D) \ Good
<1> SUFFICES ASSUME Bad # {} PROVE FALSE
  OBVIOUS
<1>1. PICK s \in Bad : \A u \in SUBSET s : u # s => u \notin Bad
  <2>1. Bad \in SUBSET (SUBSET D)
    OBVIOUS
  <2> HIDE DEF Bad
  <2> QED BY <2>1, MinimalSet
<1>2. s \in SUBSET D /\ s # {} /\ c[s] \in s
  BY DEF Chooses
<1>3. s \ {c[s]} \in SUBSET s /\ s \ {c[s]} # s
  BY <1>2
<1> QED BY <1>1, <1>2, <1>3

\* The recursion of a fold over a finite set has a solution: partial solutions
\* agree where they overlap, so they can be put together.
LEMMA FoldExists ==
  ASSUME NEW D, IsFiniteSet(D), NEW V, NEW base \in V, NEW g \in [D -> [V -> V]],
         NEW c, Chooses(c, D)
  PROVE  \E f \in [SUBSET D -> V] : IsFold(f, D, base, g, c)
<1> USE DEF Chooses
<1> DEFINE Solves(f, s) ==
             \A u \in SUBSET s : f[u] = IF u = {} THEN base ELSE g[c[u]][f[u \ {c[u]}]]
           Solution(s) == CHOOSE f \in [SUBSET s -> V] : Solves(f, s)
           Value(s) == Solution(s)[s]
           Good == {s \in SUBSET D : \E f \in [SUBSET s -> V] : Solves(f, s)}
<1>1. ASSUME NEW s \in SUBSET D, NEW t \in SUBSET D, NEW f, NEW h,
             Solves(f, s), Solves(h, t)
      PROVE  \A u \in SUBSET (s \cap t) : f[u] = h[u]
  <2> DEFINE Bad == {u \in SUBSET (s \cap t) : f[u] # h[u]}
  <2> SUFFICES ASSUME Bad # {} PROVE FALSE
    OBVIOUS
  <2>1. PICK u \in Bad : \A w \in SUBSET u : w # u => w \notin Bad
    <3>1. Bad \in SUBSET (SUBSET D)
      OBVIOUS
    <3> HIDE DEF Bad
    <3> QED BY <3>1, MinimalSet
  <2>2. u \in SUBSET s /\ u \in SUBSET t /\ u \in SUBSET D
    BY <2>1
  <2>3. CASE u = {}
    BY <1>1, <2>1, <2>2, <2>3
  <2>4. CASE u # {}
    <3>1. c[u] \in u
      BY <2>2, <2>4
    <3>2. f[u \ {c[u]}] = h[u \ {c[u]}]
      BY <2>1, <3>1
    <3>3. f[u] = g[c[u]][f[u \ {c[u]}]] /\ h[u] = g[c[u]][h[u \ {c[u]}]]
      BY <1>1, <2>2, <2>4
    <3> QED BY <2>1, <3>2, <3>3
  <2> QED BY <2>3, <2>4
<1>2. ASSUME NEW s \in Good
      PROVE  /\ Value(s) \in V
             /\ Value(s) = IF s = {} THEN base ELSE g[c[s]][Solution(s)[s \ {c[s]}]]
             /\ Solves(Solution(s), s)
  <2>1. Solution(s) \in [SUBSET s -> V] /\ Solves(Solution(s), s)
    OBVIOUS
  <2> HIDE DEF Solution
  <2> QED BY <2>1
<1>3. ASSUME NEW s \in Good, s # {}, s \ {c[s]} \in Good
      PROVE  Value(s) = g[c[s]][Value(s \ {c[s]})]
  <2>1. Solution(s)[s \ {c[s]}] = Value(s \ {c[s]})
    <3> DEFINE t == s \ {c[s]}
    <3>1. s \in SUBSET D /\ t \in SUBSET D /\ t \in SUBSET (s \cap t)
      OBVIOUS
    <3>2. Solves(Solution(s), s) /\ Solves(Solution(t), t)
      <4> HIDE DEF Solution, Solves, Good
      <4> QED BY <1>2, <1>3
    <3> HIDE DEF Solution, Solves, Good, t
    <3>3. Solution(s)[t] = Solution(t)[t]
      BY <1>1, <3>1, <3>2
    <3> QED BY <3>3 DEF t
  <2> HIDE DEF Solution
  <2> QED BY <1>2, <1>3, <2>1
<1>4. ASSUME NEW s \in SUBSET D, \A u \in SUBSET s : u # s => u \in Good
      PROVE  s \in Good
  <2> HIDE DEF Solution
  <2> DEFINE top == IF s = {} THEN base ELSE g[c[s]][Value(s \ {c[s]})]
             f == [u \in SUBSET s |-> IF u = s THEN top ELSE Value(u)]
  <2>0. s # {} => c[s] \in s /\ s \ {c[s]} \in Good
    <3> HIDE DEF Good
    <3> QED BY <1>4
  <2>1. top \in V
    <3>1. CASE s # {}
      <4>1. c[s] \in D /\ s \ {c[s]} \in Good
        BY <2>0, <3>1
      <4>2. Value(s \ {c[s]}) \in V
        <5> HIDE DEF Good, Value
        <5> QED BY <1>2, <4>1
      <4> HIDE DEF Good, Value
      <4> QED BY <3>1, <4>1, <4>2
    <3> QED BY <3>1
  <2>2. f \in [SUBSET s -> V]
    <3> HIDE DEF Good, Value, top
    <3> QED BY <1>2, <1>4, <2>1
  <2>3. ASSUME NEW u \in SUBSET s
        PROVE  f[u] = IF u = {} THEN base ELSE g[c[u]][f[u \ {c[u]}]]
    <3>1. CASE u = s
      <4>1. s # {} => f[s \ {c[s]}] = Value(s \ {c[s]})
        <5> HIDE DEF Value, top
        <5> QED BY <2>0
      <4> HIDE DEF Value
      <4> QED BY <3>1, <4>1
    <3>2. CASE u # s
      <4>1. u \in Good /\ f[u] = Value(u)
        <5> HIDE DEF Good, Value
        <5> QED BY <1>4, <3>2
      <4>2. CASE u = {}
        <5> HIDE DEF Good, Value, f
        <5> QED BY <4>1, <4>2, <1>2
      <4>3. CASE u # {}
        <5>1. c[u] \in u /\ u \ {c[u]} \in SUBSET s /\ u \ {c[u]} # s
          BY <4>3
        <5>2. u \ {c[u]} \in Good /\ f[u \ {c[u]}] = Value(u \ {c[u]})
          <6> HIDE DEF Good, Value
          <6> QED BY <5>1, <1>4
        <5> HIDE DEF Good, Value, f
        <5> QED BY <4>1, <4>3, <5>2, <1>3
      <4> QED BY <4>2, <4>3
    <3> QED BY <3>1, <3>2
  <2> HIDE DEF f
  <2> QED BY <2>2, <2>3
<1>5. \A s \in SUBSET D : s \in Good
  <2> SUFFICES ASSUME (SUBSET D) \ Good # {} PROVE FALSE
    OBVIOUS
  <2> HIDE DEF Good
  <2>1. PICK s \in (SUBSET D) \ Good :
              \A u \in SUBSET s : u # s => u \notin (SUBSET D) \ Good
    <3> DEFINE Bad == (SUBSET D) \ Good
    <3>1. Bad \in SUBSET (SUBSET D)
      OBVIOUS
    <3>2. Bad # {}
      OBVIOUS
    <3> HIDE DEF Bad
    <3>3. \E s \in Bad : \A u \in SUBSET s : u # s => u \notin Bad
      BY <3>1, <3>2, MinimalSet
    <3> QED BY <3>3 DEF Bad
  <2>2. \A u \in SUBSET s : u # s => u \in Good
    BY <2>1
  <2> QED BY <1>4, <2>1, <2>2
<1>6. PICK f \in [SUBSET D -> V] : Solves(f, D)
  BY <1>5
<1> QED BY <1>6 DEF IsFold

-----------------------------------------------------------------------------
(* Intervals                                                                *)

\* Induction up an interval.
LEMMA IntervalInduction ==
  ASSUME NEW n \in Nat, NEW Good, 0 \in Good,
         \A k \in 1 .. n : k - 1 \in Good => k \in Good
  PROVE  \A k \in 0 .. n : k \in Good
<1> DEFINE Bad == (0 .. n) \ Good
<1> SUFFICES ASSUME Bad # {} PROVE FALSE
  OBVIOUS
<1>1. 0 .. n \in SUBSET Int /\ IsFiniteSet(0 .. n)
  BY FS_Interval
<1>2. Bad \in SUBSET (0 .. n)
  OBVIOUS
<1> DEFINE k == Min(Bad)
<1>3. k \in Bad /\ \A y \in Bad : k <= y
  <2> DEFINE D == 0 .. n
  <2>1. D \in SUBSET Int /\ IsFiniteSet(D) /\ Bad \in SUBSET D
    BY <1>1, <1>2
  <2> HIDE DEF D, Bad
  <2> QED BY <2>1, MaxMin
<1> HIDE DEF k
<1>4. k \in 1 .. n /\ k - 1 \in 0 .. n /\ ~(k <= k - 1)
  BY <1>3
<1> QED BY <1>3, <1>4

\* f is defined by primitive recursion along 0 .. n.
IsRecursion(f, n, base, g) ==
  f[0] = base /\ \A k \in 1 .. n : f[k] = g[k][f[k - 1]]

\* Primitive recursion along an interval has a solution.
LEMMA IntervalRecursion ==
  ASSUME NEW n \in Nat, NEW V, NEW base \in V, NEW g \in [1 .. n -> [V -> V]]
  PROVE  \E f \in [0 .. n -> V] : IsRecursion(f, n, base, g)
<1> DEFINE Solves(f, j) == f[0] = base /\ \A k \in 1 .. j : f[k] = g[k][f[k - 1]]
           Good == {j \in 0 .. n : \E f \in [0 .. j -> V] : Solves(f, j)}
<1>1. 0 \in Good
  <2> DEFINE f == [k \in 0 .. 0 |-> base]
  <2>1. f \in [0 .. 0 -> V] /\ Solves(f, 0) /\ 0 \in 0 .. n
    OBVIOUS
  <2> QED BY <2>1
<1>2. ASSUME NEW j \in 1 .. n, j - 1 \in Good
      PROVE  j \in Good
  <2>1. PICK f \in [0 .. (j - 1) -> V] : Solves(f, j - 1)
    BY <1>2
  <2> DEFINE h == [k \in 0 .. j |-> IF k = j THEN g[j][f[j - 1]] ELSE f[k]]
  <2>2. g[j][f[j - 1]] \in V
    OBVIOUS
  <2>3. h \in [0 .. j -> V]
    BY <2>2
  <2>4. h[0] = base
    BY <2>1
  <2>5. ASSUME NEW k \in 1 .. j PROVE h[k] = g[k][h[k - 1]]
    <3>1. CASE k = j
      BY <3>1
    <3>2. CASE k # j
      <4>1. k \in 1 .. (j - 1) /\ k \in 0 .. j /\ k - 1 \in 0 .. j /\ k - 1 # j
        BY <3>2
      <4> QED BY <2>1, <4>1, <3>2
    <3> QED BY <3>1, <3>2
  <2> HIDE DEF h
  <2>6. Solves(h, j)
    BY <2>4, <2>5
  <2> HIDE DEF Solves
  <2> QED BY <2>3, <2>6
<1>3. \A j \in 1 .. n : j - 1 \in Good => j \in Good
  BY <1>2
<1> HIDE DEF Good
<1>4. \A k \in 0 .. n : k \in Good
  BY <1>1, <1>3, IntervalInduction
<1>5. n \in Good
  BY <1>4
<1> QED BY <1>5 DEF Good, IsRecursion

-----------------------------------------------------------------------------
(* Sums                                                                     *)

\* F[s] is the sum of f over s, in whichever order its elements are taken.
IsSum(F, f) ==
  /\ F \in [SUBSET DOMAIN f -> Int]
  /\ F[{}] = 0
  /\ \A s \in SUBSET DOMAIN f : \A x \in s : F[s] = f[x] + F[s \ {x}]

\* SumFunction is a sum over its finite domain.
LEMMA SumFunctionIsSum ==
  ASSUME NEW D, IsFiniteSet(D), NEW f \in [D -> Int]
  PROVE  \E F : IsSum(F, f) /\ SumFunction(f) = F[D]
<1> DEFINE Member(s) == CHOOSE x \in s : TRUE
           Step(F, s) == IF s = {} THEN 0 ELSE f[Member(s)] + F[s \ {Member(s)}]
           c == [s \in SUBSET D |-> Member(s)]
           g == [x \in D |-> [v \in Int |-> f[x] + v]]
           iter == CHOOSE F : F = [s \in SUBSET D |-> Step(F, s)]
<1>1. SumFunction(f) = iter[D]
  <2>1. DOMAIN f = D
    OBVIOUS
  <2> QED BY <2>1, Zenon DEF SumFunction, SumFunctionOnSet, FoldFunctionOnSet,
     MapThenFoldSet
<1>2. Chooses(c, D)
  BY DEF Chooses
<1>3. g \in [D -> [Int -> Int]]
  OBVIOUS
<1>4. \E F : F = [s \in SUBSET D |-> Step(F, s)]
  <2> HIDE DEF c, g
  <2>1. PICK F \in [SUBSET D -> Int] : IsFold(F, D, 0, g, c)
    <3> DEFINE V == Int
    <3>1. 0 \in V /\ g \in [D -> [V -> V]]
      BY <1>3
    <3> HIDE DEF V
    <3>2. \E F \in [SUBSET D -> V] : IsFold(F, D, 0, g, c)
      BY <1>2, <3>1, FoldExists
    <3> QED BY <3>2 DEF V
  <2>2. ASSUME NEW s \in SUBSET D, s # {}
        PROVE  g[c[s]][F[s \ {c[s]}]] = f[Member(s)] + F[s \ {Member(s)}]
    <3>1. c[s] = Member(s) /\ c[s] \in D
      BY <1>2, <2>2 DEF c, Chooses
    <3> QED BY <3>1 DEF g
  <2>3. F = [s \in SUBSET D |-> Step(F, s)]
    BY <2>1, <2>2 DEF IsFold
  <2> QED BY <2>3
<1>5. iter = [s \in SUBSET D |-> Step(iter, s)]
  BY <1>4
<1> HIDE DEF iter
<1>6. \A s \in SUBSET D : iter[s] \in Int
  <2> DEFINE Good == {s \in SUBSET D : iter[s] \in Int}
  <2>1. {} \in Good
    BY <1>5
  <2>2. ASSUME NEW s \in SUBSET D, s # {}, s \ {c[s]} \in Good
        PROVE  s \in Good
    <3>1. c[s] = Member(s) /\ c[s] \in D
      BY <1>2, <2>2 DEF Chooses
    <3>2. f[c[s]] \in Int /\ iter[s \ {c[s]}] \in Int
      BY <2>2, <3>1
    <3> HIDE DEF c
    <3>3. iter[s] = f[c[s]] + iter[s \ {c[s]}]
      BY <1>5, <2>2, <3>1
    <3> QED BY <3>2, <3>3
  <2> HIDE DEF c, Good
  <2>3. \A s \in SUBSET D : s \in Good
    BY <1>2, <2>1, <2>2, SetInduction
  <2> QED BY <2>3 DEF Good
<1>7. \A s \in SUBSET D : \A x \in s : iter[s] = f[x] + iter[s \ {x}]
  <2> DEFINE Bad == {s \in SUBSET D : \E x \in s : iter[s] # f[x] + iter[s \ {x}]}
  <2> SUFFICES ASSUME Bad # {} PROVE FALSE
    OBVIOUS
  <2>1. PICK s \in Bad : \A u \in SUBSET s : u # s => u \notin Bad
    <3>1. Bad \in SUBSET (SUBSET D)
      OBVIOUS
    <3> HIDE DEF Bad
    <3> QED BY <3>1, MinimalSet
  <2>2. PICK x \in s : iter[s] # f[x] + iter[s \ {x}]
    BY <2>1
  <2> DEFINE y == Member(s)
  <2>3. y \in s /\ iter[s] = f[y] + iter[s \ {y}] /\ s \in SUBSET D
    BY <1>5, <2>1, <2>2
  <2> HIDE DEF y
  <2>4. x # y
    BY <2>2, <2>3
  <2>5. iter[s \ {y}] = f[x] + iter[(s \ {y}) \ {x}]
    BY <2>1, <2>3, <2>4
  <2>6. iter[s \ {x}] = f[y] + iter[(s \ {x}) \ {y}]
    BY <2>1, <2>3, <2>4
  <2> DEFINE rest == iter[(s \ {y}) \ {x}]
  <2>7. iter[s \ {x}] = f[y] + rest
    <3>1. (s \ {x}) \ {y} = (s \ {y}) \ {x}
      OBVIOUS
    <3> QED BY <2>6, <3>1
  <2>8. f[x] \in Int /\ f[y] \in Int /\ rest \in Int
    BY <1>6, <2>3
  <2>9. iter[s] = f[y] + (f[x] + rest)
    BY <2>3, <2>5
  <2>10. f[y] + (f[x] + rest) = f[x] + (f[y] + rest)
    <3> HIDE DEF rest
    <3> QED BY <2>8
  <2> QED BY <2>2, <2>7, <2>9, <2>10
<1>8. IsSum(iter, f)
  BY <1>5, <1>6, <1>7 DEF IsSum
<1> QED BY <1>1, <1>8

\* Sums of functions that agree are equal.
LEMMA SumsAgree ==
  ASSUME NEW D, IsFiniteSet(D), NEW f \in [D -> Int], NEW h, NEW F, NEW H,
         D \subseteq DOMAIN h, \A x \in D : f[x] = h[x], IsSum(F, f), IsSum(H, h)
  PROVE  F[D] = H[D]
<1> DEFINE Bad == {s \in SUBSET D : F[s] # H[s]}
<1> SUFFICES ASSUME Bad # {} PROVE FALSE
  OBVIOUS
<1>1. PICK s \in Bad : \A u \in SUBSET s : u # s => u \notin Bad
  <2>1. Bad \in SUBSET (SUBSET D)
    OBVIOUS
  <2> HIDE DEF Bad
  <2> QED BY <2>1, MinimalSet
<1>2. s # {}
  BY <1>1 DEF IsSum
<1>3. PICK x \in s : TRUE
  BY <1>2
<1>4. s \ {x} \notin Bad /\ s \in SUBSET D
  BY <1>1, <1>3
<1>5. F[s] = f[x] + F[s \ {x}] /\ H[s] = h[x] + H[s \ {x}]
  BY <1>4 DEF IsSum
<1> QED BY <1>1, <1>4, <1>5

\* An element more adds its value to the sum.
LEMMA SumInsert ==
  ASSUME NEW D, IsFiniteSet(D), NEW f \in [D -> Int], NEW x, x \notin D,
         NEW h \in [D \cup {x} -> Int], \A y \in D : h[y] = f[y]
  PROVE  SumFunction(h) = SumFunction(f) + h[x] /\ SumFunction(f) \in Int
<1> DEFINE E == D \cup {x}
<1>1. IsFiniteSet(E)
  BY FS_AddElement
<1>2. PICK F : IsSum(F, f) /\ SumFunction(f) = F[D]
  BY SumFunctionIsSum
<1>3. PICK H : IsSum(H, h) /\ SumFunction(h) = H[E]
  BY <1>1, SumFunctionIsSum
<1>4. F[D] = H[D]
  BY <1>2, <1>3, SumsAgree
<1>5. H[E] = h[x] + H[D]
  <2>1. E \ {x} = D
    OBVIOUS
  <2> QED BY <1>3, <2>1 DEF IsSum
<1>6. F[D] \in Int /\ h[x] \in Int
  BY <1>2 DEF IsSum
<1> QED BY <1>2, <1>3, <1>4, <1>5, <1>6

\* Changing one value changes the sum by the difference.
LEMMA SumUpdate ==
  ASSUME NEW D, IsFiniteSet(D), NEW f \in [D -> Int], NEW h \in [D -> Int],
         NEW x \in D, \A y \in D \ {x} : h[y] = f[y]
  PROVE  SumFunction(h) = SumFunction(f) - f[x] + h[x] /\ SumFunction(f) \in Int
<1> DEFINE E == D \ {x}
           r == [y \in E |-> f[y]]
<1>1. IsFiniteSet(E) /\ r \in [E -> Int] /\ x \notin E /\ D = E \cup {x}
  BY FS_Subset
<1>2. (\A y \in E : f[y] = r[y]) /\ \A y \in E : h[y] = r[y]
  OBVIOUS
<1> HIDE DEF E, r
<1>3. ASSUME NEW k \in [D -> Int], \A y \in E : k[y] = r[y]
      PROVE  SumFunction(k) = SumFunction(r) + k[x] /\ SumFunction(r) \in Int
  <2>1. k \in [E \cup {x} -> Int]
    BY <1>1
  <2> QED BY <1>1, <1>3, <2>1, SumInsert
<1>4. /\ SumFunction(f) = SumFunction(r) + f[x] /\ SumFunction(r) \in Int
      /\ SumFunction(h) = SumFunction(r) + h[x]
  BY <1>2, <1>3
<1>5. f[x] \in Int /\ h[x] \in Int
  OBVIOUS
<1> QED BY <1>4, <1>5

\* The sum over nothing is zero.
LEMMA SumEmpty ==
  ASSUME NEW f, DOMAIN f = {}, f \in [{} -> Int]
  PROVE  SumFunction(f) = 0
BY SumFunctionIsSum, FS_EmptySet DEF IsSum

=============================================================================
