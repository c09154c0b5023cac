----------------------------- MODULE ONNXProofs -----------------------------
(***************************************************************************)
(* The ONNX loop splits every buffer as the wire format does.              *)
(***************************************************************************)
EXTENDS ONNXParser, FoldLemmas

\* The smaller of two numbers.
LEMMA MinOfTwo ==
  ASSUME NEW x \in Int, NEW y \in Int
  PROVE  Min({x, y}) = IF x <= y THEN x ELSE y
BY DEF Min

-----------------------------------------------------------------------------
(* Varints: the code adds groups from the first with growing weights, the   *)
(* wire format is defined from the last group by Horner's rule.             *)

\* The weights of the groups are the powers of 128.
LEMMA Weights ==
  /\ Weight \in [0 .. MaxGroups -> Nat] /\ Weight[0] = 1
  /\ \A k \in 1 .. MaxGroups : Weight[k] = 128 * Weight[k - 1]
<1> DEFINE D == 0 .. MaxGroups
           g == [k \in 1 .. MaxGroups |-> [v \in Nat |-> 128 * v]]
<1>1. MaxGroups \in Nat
  BY ONNXAssumption
<1>2. PICK f \in [D -> Nat] : IsRecursion(f, MaxGroups, 1, g)
  <2> DEFINE V == Nat
  <2>1. 1 \in V /\ g \in [1 .. MaxGroups -> [V -> V]]
    OBVIOUS
  <2> HIDE DEF V, g
  <2>2. \E f \in [0 .. MaxGroups -> V] : IsRecursion(f, MaxGroups, 1, g)
    BY <1>1, <2>1, IntervalRecursion
  <2> QED BY <2>2 DEF V
<1>3. f = [k \in D |-> IF k = 0 THEN 1 ELSE 128 * f[k - 1]]
  <2>1. ASSUME NEW k \in D, k # 0 PROVE f[k] = 128 * f[k - 1]
    <3>1. k \in 1 .. MaxGroups /\ k - 1 \in D
      BY <1>1, <2>1
    <3>2. f[k - 1] \in Nat /\ g[k] = [v \in Nat |-> 128 * v]
      BY <1>2, <3>1
    <3> QED BY <1>2, <3>1, <3>2 DEF IsRecursion
  <2>2. \A k \in D : f[k] = IF k = 0 THEN 1 ELSE 128 * f[k - 1]
    BY <1>2, <2>1 DEF IsRecursion
  <2> HIDE DEF g
  <2> QED BY <2>2
<1>4. Weight = [k \in D |-> IF k = 0 THEN 1 ELSE 128 * Weight[k - 1]]
  BY <1>3 DEF Weight
<1>5. Weight[0] = 1 /\ \A k \in 1 .. MaxGroups : Weight[k] = 128 * Weight[k - 1]
  BY <1>1, <1>4
<1>6. \A k \in 0 .. MaxGroups : Weight[k] \in Nat
  <2> DEFINE Good == {k \in Nat : Weight[k] \in Nat}
  <2>1. 0 \in Good
    BY <1>5
  <2>2. \A k \in 1 .. MaxGroups : k - 1 \in Good => k \in Good
    BY <1>1, <1>5
  <2> HIDE DEF Good
  <2>3. \A k \in 0 .. MaxGroups : k \in Good
    BY <1>1, <2>1, <2>2, IntervalInduction
  <2> QED BY <2>3 DEF Good
<1>7. Weight \in [D -> Nat]
  BY <1>4, <1>6
<1> QED BY <1>5, <1>7

\* A byte is a number, and its group has seven bits.
LEMMA GroupIs == \A x \in Bytes : x \in Nat /\ x % 128 \in Nat /\ (~(x < 128) => x >= 128)
BY DEF Bytes

\* r[k] is the result of read_varint after k groups.
Accumulates(r, b, c, n) ==
  /\ r \in [0 .. n -> Nat] /\ r[0] = 0
  /\ \A k \in 1 .. n : r[k] = r[k - 1] + (b[c + k] % 128) * Weight[k - 1]

\* v[k] is what the groups from k on stand for.
Denotes(v, b, p, q) ==
  /\ v \in [p .. q -> Nat] /\ v[q] = 0
  /\ \A k \in p .. (q - 1) : v[k] = (b[k + 1] % 128) + 128 * v[k + 1]

\* What the loop of read_varint computes, group by group.
LEMMA AccumulatedIs ==
  ASSUME NEW b \in Seq(Bytes), NEW c \in Nat, NEW n \in 0 .. MaxGroups, c + n <= Len(b)
  PROVE  \E r : Accumulates(r, b, c, n) /\ Accumulated(b, c, n) = r[n]
<1> DEFINE d(k) == (b[c + k] % 128) * Weight[k - 1]
           g == [k \in 1 .. n |-> [v \in Nat |-> v + d(k)]]
           result == CHOOSE r : r = [k \in 0 .. n |-> IF k = 0 THEN 0 ELSE r[k - 1] + d(k)]
<1>1. MaxGroups \in Nat /\ n \in Nat
  BY ONNXAssumption
<1>2. \A k \in 1 .. n : d(k) \in Nat
  <2> SUFFICES ASSUME NEW k \in 1 .. n PROVE d(k) \in Nat
    OBVIOUS
  <2>1. b[c + k] \in Bytes
    BY <1>1
  <2>2. b[c + k] % 128 \in Nat
    BY <2>1, GroupIs
  <2>3. Weight[k - 1] \in Nat
    BY <1>1, Weights
  <2> QED BY <2>2, <2>3
<1>3. Accumulated(b, c, n) = result[n]
  BY Zenon DEF Accumulated
<1> HIDE DEF d
<1>4. PICK f \in [0 .. n -> Nat] : IsRecursion(f, n, 0, g)
  <2> DEFINE V == Nat
  <2>1. 0 \in V /\ g \in [1 .. n -> [V -> V]]
    BY <1>2
  <2> HIDE DEF V, g
  <2>2. \E f \in [0 .. n -> V] : IsRecursion(f, n, 0, g)
    BY <1>1, <2>1, IntervalRecursion
  <2> QED BY <2>2 DEF V
<1>5. ASSUME NEW k \in 1 .. n PROVE f[k] = f[k - 1] + d(k)
  <2>1. f[k - 1] \in Nat /\ g[k] = [v \in Nat |-> v + d(k)]
    BY <1>1, <1>4
  <2> QED BY <1>4, <2>1 DEF IsRecursion
<1>6. f = [k \in 0 .. n |-> IF k = 0 THEN 0 ELSE f[k - 1] + d(k)]
  <2>1. \A k \in 0 .. n : f[k] = IF k = 0 THEN 0 ELSE f[k - 1] + d(k)
    BY <1>1, <1>4, <1>5 DEF IsRecursion
  <2> HIDE DEF g
  <2> QED BY <2>1
<1>7. result = [k \in 0 .. n |-> IF k = 0 THEN 0 ELSE result[k - 1] + d(k)]
  <2> HIDE DEF g
  <2> QED BY <1>6
<1> HIDE DEF result
<1>8. result[0] = 0 /\ \A k \in 1 .. n : result[k] = result[k - 1] + d(k)
  BY <1>1, <1>7
<1>9. \A k \in 0 .. n : result[k] \in Nat
  <2> DEFINE Good == {k \in Nat : result[k] \in Nat}
  <2>1. 0 \in Good
    BY <1>8
  <2>2. \A k \in 1 .. n : k - 1 \in Good => k \in Good
    BY <1>1, <1>2, <1>8
  <2> HIDE DEF Good
  <2>3. \A k \in 0 .. n : k \in Good
    BY <1>1, <2>1, <2>2, IntervalInduction
  <2> QED BY <2>3 DEF Good
<1>10. result \in [0 .. n -> Nat]
  BY <1>7, <1>9
<1> QED BY <1>3, <1>8, <1>10 DEF d, Accumulates

\* What the wire format says a varint stands for, group by group.
LEMMA ValueIs ==
  ASSUME NEW b \in Seq(Bytes), NEW p \in Nat, NEW q \in Nat, p <= q, q <= Len(b)
  PROVE  \E v : Denotes(v, b, p, q) /\ VarintValue(b, p, q) = v[p] % SizeMod
<1> DEFINE d(k) == b[k + 1] % 128
           n == q - p
           g == [j \in 1 .. n |-> [v \in Nat |-> d(q - j) + 128 * v]]
           value == CHOOSE v : v = [k \in p .. q |-> IF k = q THEN 0 ELSE d(k) + 128 * v[k + 1]]
<1>1. n \in Nat /\ n = q - p
  OBVIOUS
<1>2. ASSUME NEW k \in p .. (q - 1) PROVE d(k) \in Nat
  <2>1. b[k + 1] \in Bytes
    OBVIOUS
  <2> QED BY <2>1, GroupIs
<1>3. VarintValue(b, p, q) = value[p] % SizeMod
  BY Zenon DEF VarintValue
<1> HIDE DEF d, n
<1>4. PICK f \in [0 .. n -> Nat] : IsRecursion(f, n, 0, g)
  <2> DEFINE V == Nat
  <2>0. \A j \in 1 .. n : d(q - j) \in Nat
    BY <1>1, <1>2
  <2>1. 0 \in V /\ g \in [1 .. n -> [V -> V]]
    BY <2>0
  <2> HIDE DEF V, g
  <2>2. \E f \in [0 .. n -> V] : IsRecursion(f, n, 0, g)
    BY <1>1, <2>1, IntervalRecursion
  <2> QED BY <2>2 DEF V
<1>5. ASSUME NEW j \in 1 .. n PROVE f[j] = d(q - j) + 128 * f[j - 1]
  <2>1. f[j - 1] \in Nat /\ g[j] = [v \in Nat |-> d(q - j) + 128 * v]
    BY <1>1, <1>4
  <2> QED BY <1>4, <2>1 DEF IsRecursion
<1> DEFINE h == [k \in p .. q |-> f[q - k]]
<1>6. h = [k \in p .. q |-> IF k = q THEN 0 ELSE d(k) + 128 * h[k + 1]]
  <2> HIDE DEF g
  <2> SUFFICES ASSUME NEW k \in p .. q
               PROVE  h[k] = IF k = q THEN 0 ELSE d(k) + 128 * h[k + 1]
    OBVIOUS
  <2>1. CASE k = q
    BY <1>4, <2>1 DEF IsRecursion
  <2>2. CASE k # q
    <3>1. q - k \in 1 .. n /\ q - (q - k) = k /\ (q - k) - 1 = q - (k + 1) /\ k + 1 \in p .. q
      BY <1>1, <2>2
    <3>2. f[q - k] = d(k) + 128 * f[q - (k + 1)]
      BY <1>5, <3>1
    <3> QED BY <2>2, <3>1, <3>2
  <2> QED BY <2>1, <2>2
<1>7. value = [k \in p .. q |-> IF k = q THEN 0 ELSE d(k) + 128 * value[k + 1]]
  <2> HIDE DEF h, g
  <2> QED BY <1>6
<1> HIDE DEF value, h, g
<1>8. value[q] = 0 /\ \A k \in p .. (q - 1) : value[k] = d(k) + 128 * value[k + 1]
  BY <1>7
<1>9. \A j \in 0 .. n : value[q - j] \in Nat
  <2> DEFINE Good == {j \in 0 .. n : value[q - j] \in Nat}
  <2>1. 0 \in Good
    BY <1>1, <1>8
  <2>2. ASSUME NEW j \in 1 .. n, j - 1 \in Good PROVE j \in Good
    <3>1. q - j \in p .. (q - 1) /\ q - (j - 1) = (q - j) + 1
      BY <1>1
    <3> QED BY <1>1, <1>2, <1>8, <2>2, <3>1
  <2> HIDE DEF Good
  <2>3. \A j \in 0 .. n : j \in Good
    BY <1>1, <2>1, <2>2, IntervalInduction
  <2> QED BY <2>3 DEF Good
<1>10. \A k \in p .. q : value[k] \in Nat
  <2> SUFFICES ASSUME NEW k \in p .. q PROVE value[k] \in Nat
    OBVIOUS
  <2>1. q - k \in 0 .. n /\ q - (q - k) = k
    BY <1>1
  <2> QED BY <1>9, <2>1
<1>11. value \in [p .. q -> Nat]
  BY <1>7, <1>10
<1> QED BY <1>3, <1>8, <1>11 DEF d, Denotes

\* Both computations give the same word.
LEMMA Horner ==
  ASSUME NEW b \in Seq(Bytes), NEW p \in Nat, NEW n \in 0 .. MaxGroups, p + n <= Len(b)
  PROVE  Accumulated(b, p, n) % SizeMod = VarintValue(b, p, p + n)
<1> DEFINE q == p + n
<1>1. MaxGroups \in Nat /\ n \in Nat /\ q \in Nat /\ p <= q /\ q <= Len(b)
  BY ONNXAssumption
<1>2. PICK r : Accumulates(r, b, p, n) /\ Accumulated(b, p, n) = r[n]
  BY AccumulatedIs
<1>3. PICK v : Denotes(v, b, p, q) /\ VarintValue(b, p, q) = v[p] % SizeMod
  <2> HIDE DEF q
  <2> QED BY <1>1, ValueIs
<1> DEFINE Good == {j \in 0 .. n : r[j] + Weight[j] * v[p + j] = v[p]}
<1>4. 0 \in Good
  <2>1. r[0] = 0 /\ Weight[0] = 1 /\ v[p] \in Nat /\ p + 0 = p
    BY <1>1, <1>2, <1>3, Weights DEF Accumulates, Denotes
  <2> QED BY <1>1, <2>1
<1>5. ASSUME NEW j \in 1 .. n, j - 1 \in Good PROVE j \in Good
  <2> DEFINE w == Weight[j - 1]
             d == b[p + j] % 128
             x == v[p + j]
             a == r[j - 1]
  <2>1. p + j \in 1 .. Len(b) /\ p + j \in p .. q /\ j - 1 \in 0 .. MaxGroups
        /\ j \in 1 .. MaxGroups /\ p + (j - 1) \in p .. (q - 1)
        /\ (p + (j - 1)) + 1 = p + j
    BY <1>1
  <2>2. w \in Nat /\ x \in Nat /\ a \in Nat
    <3>1. w \in Nat
      BY <2>1, Weights
    <3>2. x \in Nat
      BY <1>3, <2>1 DEF Denotes
    <3>3. j - 1 \in 0 .. n
      BY <1>1
    <3>4. a \in Nat
      BY <1>2, <3>3 DEF Accumulates
    <3> QED BY <3>1, <3>2, <3>4
  <2>3. d \in Nat
    BY <2>1, GroupIs
  <2>4. Weight[j] = 128 * w
    BY <2>1, Weights
  <2>5. r[j] = a + d * w
    BY <1>2 DEF Accumulates
  <2>6. v[p + (j - 1)] = d + 128 * x
    BY <1>3, <2>1 DEF Denotes
  <2>7. a + w * (d + 128 * x) = v[p]
    BY <1>5, <2>6
  <2> HIDE DEF w, d, x, a
  <2>8. (a + d * w) + (128 * w) * x = a + w * (d + 128 * x)
    BY <2>2, <2>3
  <2>9. r[j] + Weight[j] * x = v[p]
    BY <2>4, <2>5, <2>7, <2>8
  <2> QED BY <2>9 DEF x
<1> HIDE DEF Good
<1>6. \A j \in 0 .. n : j \in Good
  BY <1>1, <1>4, <1>5, IntervalInduction
<1>7. r[n] + Weight[n] * v[q] = v[p]
  BY <1>1, <1>6 DEF Good
<1>8. Weight[n] * v[q] = 0 /\ r[n] \in Nat
  BY <1>1, <1>2, <1>3, Weights DEF Accumulates, Denotes
<1>9. r[n] = v[p]
  BY <1>7, <1>8
<1> QED BY <1>2, <1>3, <1>9

\* A varint is a word.
LEMMA ValueWord ==
  ASSUME NEW b \in Seq(Bytes), NEW p \in Nat, NEW q \in Nat, p <= q, q <= Len(b)
  PROVE  VarintValue(b, p, q) \in 0 .. (SizeMod - 1)
<1>1. PICK v : Denotes(v, b, p, q) /\ VarintValue(b, p, q) = v[p] % SizeMod
  BY ValueIs
<1>2. v[p] \in Nat /\ SizeMod \in Nat \ {0}
  BY <1>1, ONNXAssumption DEF Denotes
<1> QED BY <1>1, <1>2

\* The bytes say where a varint ends.
LEMMA VarintUnique ==
  ASSUME NEW b \in Seq(Bytes), NEW p \in Nat, NEW q \in Nat, NEW r \in Nat,
         IsVarint(b, p, q), IsVarint(b, p, r)
  PROVE  q = r
<1>1. ASSUME NEW x \in Nat, NEW y \in Nat, IsVarint(b, p, x), IsVarint(b, p, y), x < y
      PROVE  FALSE
  <2>1. x \in (p + 1) .. (y - 1) /\ b[x] < 128 /\ x \in 1 .. Len(b)
    BY <1>1 DEF IsVarint
  <2>2. b[x] >= 128
    BY <1>1, <2>1 DEF IsVarint
  <2>3. b[x] \in Nat
    BY <2>1, GroupIs
  <2> QED BY <2>1, <2>2, <2>3
<1> QED BY <1>1

\* The answer v of a read at c in terms of the wire format.
VarintRead(b, c, v) ==
  /\ v.ok \in BOOLEAN /\ v.at \in c .. Len(b) /\ v.value \in 0 .. (SizeMod - 1)
  /\ v.ok => IsVarint(b, c, v.at) /\ v.value = VarintValue(b, c, v.at)
  /\ ~v.ok => \A q \in Positions(b) : ~IsVarint(b, c, q)
  /\ c < Len(b) => c < v.at

\* read_varint answers so on every buffer and at every position.
LEMMA ReadVarint ==
  ASSUME NEW b \in Seq(Bytes), NEW c \in 0 .. Len(b)
  PROVE  VarintRead(b, c, read_varint(b, c))
<1> DEFINE E == Ends(b, c)
           D == 1 .. MaxGroups
           v == read_varint(b, c)
<1>1. MaxGroups \in Nat \ {0} /\ SizeMod \in Nat \ {0} /\ c \in Nat /\ Len(b) \in Nat
  BY ONNXAssumption
<1>2. ASSUME NEW q \in Positions(b), IsVarint(b, c, q)
      PROVE  q - c \in E
  BY <1>1, <1>2 DEF IsVarint, Ends, Positions
<1>3. CASE E = {}
  <2> DEFINE T == {c + MaxGroups, Len(b)}
  <2>1. v = [ok |-> FALSE, value |-> 0, at |-> Min(T)]
    BY <1>3 DEF read_varint
  <2>2. Min(T) \in T /\ \A y \in T : Min(T) <= y
    BY <1>1, MinOfTwo
  <2>3. Min(T) \in c .. Len(b) /\ (c < Len(b) => c < Min(T))
    BY <1>1, <2>2
  <2>4. v.ok = FALSE /\ v.value = 0 /\ v.at = Min(T)
    <3> HIDE DEF T, v
    <3> QED BY <2>1
  <2> HIDE DEF v, T
  <2>5. \A q \in Positions(b) : ~IsVarint(b, c, q)
    BY <1>2, <1>3
  <2>6. v.value \in 0 .. (SizeMod - 1)
    BY <1>1, <2>4
  <2>7. VarintRead(b, c, v)
    BY <2>3, <2>4, <2>5, <2>6 DEF VarintRead
  <2> QED BY <2>7 DEF v
<1>4. CASE E # {}
  <2> DEFINE n == Min(E)
  <2>1. n \in E /\ \A y \in E : n <= y
    <3>1. IsFiniteSet(D)
      BY <1>1, FS_Interval
    <3>2. D \in SUBSET Int /\ E \in SUBSET D
      BY DEF Ends
    <3> HIDE DEF D, E
    <3> QED BY <1>4, <3>1, <3>2, MaxMin
  <2>2. v = [ok |-> TRUE, at |-> c + n, value |-> Accumulated(b, c, n) % SizeMod]
    BY <1>4 DEF read_varint
  <2>3. v.ok = TRUE /\ v.at = c + n /\ v.value = Accumulated(b, c, n) % SizeMod
    <3> HIDE DEF n, v
    <3> QED BY <2>2
  <2> HIDE DEF n, v
  <2>4. n \in 1 .. MaxGroups /\ c + n <= Len(b) /\ b[c + n] < 128
    BY <2>1 DEF Ends
  <2>5. ASSUME NEW k \in (c + 1) .. (c + n - 1) PROVE b[k] >= 128
    <3>1. k - c \in 1 .. MaxGroups /\ ~(n <= k - c) /\ c + (k - c) = k /\ k <= Len(b)
      BY <1>1, <2>4
    <3>2. ~(b[k] < 128)
      BY <2>1, <3>1 DEF Ends
    <3>3. k \in 1 .. Len(b)
      BY <1>1, <3>1
    <3>4. b[k] \in Bytes
      BY <3>3
    <3> QED BY <3>2, <3>4, GroupIs
  <2>6. IsVarint(b, c, c + n)
    BY <1>1, <2>4, <2>5 DEF IsVarint
  <2>7. Accumulated(b, c, n) % SizeMod = VarintValue(b, c, c + n)
    BY <1>1, <2>4, Horner
  <2>8. VarintValue(b, c, c + n) \in 0 .. (SizeMod - 1)
    BY <1>1, <2>4, ValueWord
  <2>9. c + n \in c .. Len(b) /\ c < c + n
    BY <1>1, <2>4
  <2>10. VarintRead(b, c, v)
    BY <2>3, <2>6, <2>7, <2>8, <2>9 DEF VarintRead
  <2> QED BY <2>10 DEF v
<1> QED BY <1>3, <1>4

-----------------------------------------------------------------------------
(* Fields: where the wire format splits a message.                          *)

\* A field has a tag and ends behind it, inside the buffer.
LEMMA FieldGrows ==
  ASSUME NEW b \in Seq(Bytes), NEW p \in Nat, NEW m \in Nat, NEW q \in Nat,
         IsField(b, p, m, q)
  PROVE  p < m /\ m < q /\ q <= Len(b)
<1>1. p < m /\ q <= Len(b) /\ m <= Len(b)
  BY DEF IsField, IsVarint
<1> DEFINE wire == VarintValue(b, p, m) % 8
<1>2. \/ IsVarint(b, m, q)
      \/ q = m + 8
      \/ q = m + 4
      \/ \E n \in (m + 1) .. q : IsVarint(b, m, n)
  BY DEF IsField
<1>3. m < q
  BY <1>2 DEF IsVarint
<1> QED BY <1>1, <1>3

\* The bytes say where a field ends.
LEMMA FieldUnique ==
  ASSUME NEW b \in Seq(Bytes), NEW p \in Nat, NEW m \in Nat, NEW q \in Nat,
         NEW k \in Nat, NEW r \in Nat, IsField(b, p, m, q), IsField(b, p, k, r)
  PROVE  m = k /\ q = r
<1>1. m = k
  BY VarintUnique DEF IsField
<1> DEFINE wire == VarintValue(b, p, m) % 8
<1>2. ASSUME NEW x \in Nat, IsField(b, p, m, x)
      PROVE  \/ wire = 0 /\ IsVarint(b, m, x)
             \/ wire = 1 /\ x = m + 8
             \/ wire = 5 /\ x = m + 4
             \/ wire = 2 /\ \E n \in (m + 1) .. x : IsVarint(b, m, n)
                                                  /\ x = n + VarintValue(b, m, n)
  BY <1>2 DEF IsField
<1>3. CASE wire = 0
  <2>1. IsVarint(b, m, q) /\ IsVarint(b, m, r)
    BY <1>1, <1>2, <1>3
  <2> QED BY <1>1, <2>1, VarintUnique
<1>4. CASE wire = 2
  <2>1. PICK n \in (m + 1) .. q : IsVarint(b, m, n) /\ q = n + VarintValue(b, m, n)
    BY <1>2, <1>4
  <2>2. PICK l \in (m + 1) .. r : IsVarint(b, m, l) /\ r = l + VarintValue(b, m, l)
    BY <1>1, <1>2, <1>4
  <2>3. n = l
    BY <2>1, <2>2, VarintUnique
  <2> QED BY <1>1, <2>1, <2>2, <2>3
<1>5. CASE wire # 0 /\ wire # 2
  BY <1>1, <1>2, <1>5
<1> QED BY <1>3, <1>4, <1>5

\* S holds 0, what a field of S leads to, and nothing else.
Splits(S, b) ==
  /\ S \subseteq Positions(b) /\ 0 \in S
  /\ \A s \in S, m \in Positions(b), q \in Positions(b) : IsField(b, s, m, q) => q \in S
  /\ \A q \in S : q # 0 => \E s \in S, m \in Positions(b) : IsField(b, s, m, q)

\* Starts is that set.
LEMMA StartsSplit ==
  ASSUME NEW b \in Seq(Bytes)
  PROVE  Splits(Starts(b), b)
<1> DEFINE n == Len(b)
           P == 0 .. n
           More(S, p) == {q \in {p} : \E s \in S, m \in P : IsField(b, s, m, q)}
           g == [p \in 1 .. n |-> [S \in SUBSET P |-> S \cup More(S, p)]]
           upto == CHOOSE u : u = [p \in P |-> IF p = 0 THEN {0}
                                               ELSE u[p - 1] \cup More(u[p - 1], p)]
<1>1. n \in Nat
  OBVIOUS
<1>2. Starts(b) = upto[n]
  BY Zenon DEF Starts, Positions
<1>3. \A S \in SUBSET P : \A p \in 1 .. n : More(S, p) \subseteq {p} /\ p \in P
  BY <1>1
<1>4. \A S, p : p \in More(S, p) <=> \E s \in S, m \in P : IsField(b, s, m, p)
  OBVIOUS
<1>5. \A S, p : More(S, p) \subseteq {p}
  OBVIOUS
<1> HIDE DEF n, More
<1>6. PICK f \in [P -> SUBSET P] : IsRecursion(f, n, {0}, g)
  <2> DEFINE V == SUBSET P
  <2>0. \A p \in 1 .. n : \A S \in V : S \cup More(S, p) \in V
    BY <1>3
  <2>1. {0} \in V /\ g \in [1 .. n -> [V -> V]]
    <3>1. {0} \in V
      BY <1>1
    <3> HIDE DEF V, P
    <3>2. g = [p \in 1 .. n |-> [S \in V |-> S \cup More(S, p)]]
      BY DEF V
    <3> HIDE DEF g
    <3> QED BY <2>0, <3>1, <3>2
  <2> HIDE DEF V, g
  <2>2. \E f \in [0 .. n -> V] : IsRecursion(f, n, {0}, g)
    BY <1>1, <2>1, IntervalRecursion
  <2> QED BY <2>2 DEF V
<1>7. ASSUME NEW p \in P, p # 0
      PROVE  f[p] = f[p - 1] \cup More(f[p - 1], p)
  <2>1. p \in 1 .. n /\ p - 1 \in P
    BY <1>1, <1>7
  <2>2. f[p - 1] \in SUBSET P /\ g[p] = [S \in SUBSET P |-> S \cup More(S, p)]
    BY <1>6, <2>1
  <2> HIDE DEF P
  <2> QED BY <1>6, <2>1, <2>2 DEF IsRecursion
<1>8. upto = [p \in P |-> IF p = 0 THEN {0} ELSE upto[p - 1] \cup More(upto[p - 1], p)]
  <2>1. f = [p \in P |-> IF p = 0 THEN {0} ELSE f[p - 1] \cup More(f[p - 1], p)]
    <3>1. f[0] = {0}
      BY <1>6 DEF IsRecursion
    <3> HIDE DEF P, g
    <3> QED BY <1>7, <3>1
  <2> HIDE DEF P, g
  <2> QED BY <2>1
<1> HIDE DEF upto
<1>9. upto[0] = {0} /\ \A p \in 1 .. n : upto[p] = upto[p - 1] \cup More(upto[p - 1], p)
  BY <1>1, <1>8
<1>10. \A p \in P : upto[p] \subseteq 0 .. p /\ \A j \in 0 .. p : upto[j] = upto[p] \cap (0 .. j)
  <2> DEFINE Good == {p \in P : /\ upto[p] \subseteq 0 .. p
                                /\ \A j \in 0 .. p : upto[j] = upto[p] \cap (0 .. j)}
  <2>1. 0 \in Good
    BY <1>1, <1>9
  <2>2. ASSUME NEW p \in 1 .. n, p - 1 \in Good PROVE p \in Good
    <3> DEFINE S == upto[p - 1]
               X == More(S, p)
    <3>1. upto[p] = S \cup X /\ X \subseteq {p}
      BY <1>5, <1>9
    <3>2. S \subseteq 0 .. (p - 1) /\ \A j \in 0 .. (p - 1) : upto[j] = S \cap (0 .. j)
      BY <2>2
    <3> HIDE DEF S, X
    <3>3. upto[p] \subseteq 0 .. p
      BY <1>1, <3>1, <3>2
    <3>4. ASSUME NEW j \in 0 .. p PROVE upto[j] = upto[p] \cap (0 .. j)
      <4>1. CASE j = p
        BY <3>3, <4>1
      <4>2. CASE j # p
        <5>1. j \in 0 .. (p - 1) /\ p \notin 0 .. j
          BY <1>1, <4>2
        <5>2. upto[j] = S \cap (0 .. j)
          BY <3>2, <5>1
        <5>3. upto[p] \cap (0 .. j) = S \cap (0 .. j)
          BY <3>1, <5>1
        <5> QED BY <5>2, <5>3
      <4> QED BY <4>1, <4>2
    <3>5. p \in P
      BY <1>1
    <3> QED BY <3>3, <3>4, <3>5
  <2>3. \A p \in 1 .. n : p - 1 \in Good => p \in Good
    BY <2>2
  <2> HIDE DEF Good
  <2>4. \A p \in 0 .. n : p \in Good
    BY <1>1, <2>1, <2>3, IntervalInduction
  <2> QED BY <2>4 DEF Good
<1> DEFINE S == upto[n]
<1>11. S \subseteq P /\ \A j \in P : upto[j] = S \cap (0 .. j)
  BY <1>1, <1>10
<1> HIDE DEF S
<1>12. 0 \in S
  BY <1>1, <1>9, <1>11
<1>13. ASSUME NEW q \in 1 .. n
       PROVE  q \in S <=> \E s \in S, m \in P : s < q /\ IsField(b, s, m, q)
  <2>1. q \in P /\ q - 1 \in P /\ q \notin 0 .. (q - 1)
    BY <1>1
  <2>2. q \in S <=> q \in upto[q]
    BY <1>11, <2>1
  <2>3. q \in upto[q] <=> q \in More(upto[q - 1], q)
    BY <1>9, <1>11, <2>1
  <2>4. upto[q - 1] = {s \in S : s < q}
    BY <1>1, <1>11, <2>1
  <2> QED BY <1>4, <2>2, <2>3, <2>4
<1>14. P = Positions(b)
  BY DEF n, Positions
<1>15. ASSUME NEW s \in S, NEW m \in P, NEW q \in P, IsField(b, s, m, q)
       PROVE  q \in S
  <2>1. s \in Nat /\ m \in Nat /\ q \in Nat
    BY <1>1, <1>11
  <2>2. s < q
    BY <1>15, <2>1, FieldGrows
  <2> QED BY <1>1, <1>13, <1>15, <2>1, <2>2
<1>16. ASSUME NEW q \in S, q # 0
       PROVE  \E s \in S, m \in P : IsField(b, s, m, q)
  <2>1. q \in 1 .. n
    BY <1>1, <1>11, <1>16
  <2> QED BY <1>13, <2>1
<1> HIDE DEF P
<1>17. Splits(S, b)
  BY <1>11, <1>12, <1>14, <1>15, <1>16 DEF Splits
<1> QED BY <1>2, <1>17 DEF S

\* The fields before c end by c, so c is where the next one begins.
SplitAt(b, c) ==
  /\ c \in Starts(b)
  /\ \A p \in Starts(b) :
       p < c => \E m \in Positions(b), q \in Positions(b) : IsField(b, p, m, q) /\ q <= c

\* A message begins with its first field.
LEMMA SplitAtZero ==
  ASSUME NEW b \in Seq(Bytes)
  PROVE  SplitAt(b, 0)
<1>1. Starts(b) \subseteq Positions(b) /\ 0 \in Starts(b)
  BY StartsSplit DEF Splits
<1>2. \A p \in Starts(b) : ~(p < 0)
  BY <1>1 DEF Positions
<1> QED BY <1>1, <1>2 DEF SplitAt

\* No field begins inside another: after the field at c comes its end q.
LEMMA SplitStep ==
  ASSUME NEW b \in Seq(Bytes), NEW c \in Positions(b), NEW m \in Positions(b),
         NEW q \in Positions(b), SplitAt(b, c), IsField(b, c, m, q)
  PROVE  SplitAt(b, q) /\ \A p \in Starts(b) : p < q => p <= c
<1> DEFINE S == Starts(b)
           P == Positions(b)
           In == {p \in S : c < p /\ p < q}
<1>1. Splits(S, b)
  BY StartsSplit
<1>2. S \subseteq P /\ P \subseteq Nat /\ P \subseteq Int /\ IsFiniteSet(P)
  <2>1. IsFiniteSet(P)
    BY FS_Interval DEF Positions
  <2> QED BY <1>1, <2>1 DEF Splits, Positions
<1>3. c \in S /\ q \in S
  BY <1>1 DEF Splits, SplitAt
<1> HIDE DEF S
<1>4. In = {}
  <2> SUFFICES ASSUME In # {} PROVE FALSE
    OBVIOUS
  <2> DEFINE p == Min(In)
  <2>1. p \in In /\ \A y \in In : p <= y
    <3>1. In \in SUBSET P
      BY <1>2
    <3> HIDE DEF In, P
    <3> QED BY <1>2, <3>1, MaxMin
  <2> HIDE DEF p
  <2>2. p \in S /\ p \in Nat /\ c < p /\ p < q /\ c \in Nat /\ q \in Nat
    BY <1>2, <2>1
  <2>3. PICK s \in S, k \in P : IsField(b, s, k, p)
    BY <1>1, <2>2 DEF Splits
  <2>4. s \in Nat /\ k \in Nat /\ s < p
    BY <1>2, <2>2, <2>3, FieldGrows
  <2>5. CASE s = c
    <3>1. p = q
      BY <1>2, <2>2, <2>3, <2>4, <2>5, FieldUnique
    <3> QED BY <2>2, <3>1
  <2>6. CASE s > c
    <3>1. s \in In
      BY <2>2, <2>4, <2>6
    <3> QED BY <2>1, <2>2, <2>4, <3>1
  <2>7. CASE s < c
    <3>1. PICK k2 \in P, r \in P : IsField(b, s, k2, r) /\ r <= c
      BY <2>7 DEF SplitAt, S
    <3>2. r = p
      BY <1>2, <2>2, <2>3, <2>4, <3>1, FieldUnique
    <3> QED BY <2>2, <3>1, <3>2
  <2> QED BY <2>2, <2>4, <2>5, <2>6, <2>7
<1>5. ASSUME NEW p \in S, p < q PROVE p <= c
  BY <1>2, <1>4, <1>5
<1>6. ASSUME NEW p \in S, p < q
      PROVE  \E k \in P, r \in P : IsField(b, p, k, r) /\ r <= q
  <2>1. c < q /\ c \in Nat /\ q \in Nat /\ p \in Nat
    BY <1>2, FieldGrows
  <2>2. CASE p = c
    BY <1>2, <2>1, <2>2
  <2>3. CASE p < c
    <3>1. PICK k \in P, r \in P : IsField(b, p, k, r) /\ r <= c
      BY <2>3 DEF SplitAt, S
    <3>2. r <= q
      BY <1>2, <2>1, <3>1
    <3> QED BY <3>1, <3>2
  <2> QED BY <1>5, <1>6, <2>1, <2>2, <2>3
<1> QED BY <1>3, <1>5, <1>6 DEF SplitAt, S

\* Reading the field at c adds it to the fields with its tag, and only to those.
LEMMA ReadStep ==
  ASSUME NEW b \in Seq(Bytes), NEW c \in Positions(b), NEW m \in Positions(b),
         NEW q \in Positions(b), SplitAt(b, c), IsField(b, c, m, q), NEW t
  PROVE  /\ FieldsRead(b, q, t) =
              FieldsRead(b, c, t) \cup {p \in {c} : VarintValue(b, c, m) = t}
         /\ \A p \in FieldsRead(b, c, t) : p < c
<1> DEFINE S == Starts(b)
           P == Positions(b)
           Has(p, k) == IsVarint(b, p, k) /\ VarintValue(b, p, k) = t
<1>1. c \in S /\ S \subseteq P /\ P \subseteq Nat /\ Len(b) \in Nat
  BY StartsSplit DEF Splits, SplitAt, Positions
<1>2. c < m /\ m < q /\ IsVarint(b, c, m)
  BY <1>1, FieldGrows DEF IsField
<1>3. ASSUME NEW p \in S, NEW k \in P, IsVarint(b, p, k) PROVE p < k
  BY <1>3 DEF IsVarint
<1>4. ASSUME NEW p \in S, NEW k \in P, IsVarint(b, p, k), p < c PROVE k < c /\ k < q
  <2>1. PICK k2 \in P, r \in P : IsField(b, p, k2, r) /\ r <= c
    BY <1>4 DEF SplitAt
  <2>2. k2 < r /\ IsVarint(b, p, k2)
    BY <1>1, <2>1, FieldGrows DEF IsField
  <2>3. k = k2
    BY <1>1, <1>4, <2>2, VarintUnique
  <2>4. k \in Nat /\ r \in Nat /\ c \in Nat /\ q \in Nat /\ m \in Nat
    BY <1>1
  <2> QED BY <1>2, <2>1, <2>2, <2>3, <2>4
<1>5. ASSUME NEW k \in P, IsVarint(b, c, k) PROVE k = m
  BY <1>1, <1>2, <1>5, VarintUnique
<1>6. \A p \in S : p < q => p <= c
  BY SplitStep
<1> DEFINE At(x) == {p \in S : \E k \in P : Has(p, k) /\ k < x}
<1>7. \A p \in At(c) : p < c
  BY <1>1, <1>3
<1>8. At(q) = At(c) \cup {p \in {c} : VarintValue(b, c, m) = t}
  <2>1. ASSUME NEW p \in At(q) PROVE p \in At(c) \/ (p = c /\ VarintValue(b, c, m) = t)
    <3>1. PICK k \in P : Has(p, k) /\ k < q
      OBVIOUS
    <3>2. p < k /\ p \in Nat /\ k \in Nat /\ q \in Nat /\ c \in Nat
      BY <1>1, <1>3, <3>1
    <3>3. p <= c
      BY <1>6, <3>1, <3>2
    <3>4. CASE p = c
      BY <1>5, <3>1, <3>4
    <3>5. CASE p < c
      BY <1>4, <3>1, <3>5
    <3> QED BY <3>2, <3>3, <3>4, <3>5
  <2>2. ASSUME NEW p \in At(c) PROVE p \in At(q)
    <3>1. PICK k \in P : Has(p, k) /\ k < c
      OBVIOUS
    <3> QED BY <1>4, <1>7, <3>1
  <2>3. ASSUME VarintValue(b, c, m) = t PROVE c \in At(q)
    BY <1>1, <1>2, <2>3
  <2> QED BY <2>1, <2>2, <2>3
<1>9. FieldsRead(b, q, t) = At(q) /\ FieldsRead(b, c, t) = At(c)
  BY DEF FieldsRead
<1> HIDE DEF At
<1> QED BY <1>7, <1>8, <1>9

\* Nothing is read before the first field.
LEMMA ReadNothing ==
  ASSUME NEW b \in Seq(Bytes), NEW t
  PROVE  FieldsRead(b, 0, t) = {}
BY DEF FieldsRead, Positions

\* The fields read so far can be counted.
LEMMA ReadFinite ==
  ASSUME NEW b \in Seq(Bytes), NEW c \in Positions(b), NEW t
  PROVE  /\ FieldsRead(b, c, t) \in SUBSET Positions(b)
         /\ IsFiniteSet(FieldsRead(b, c, t)) /\ Cardinality(FieldsRead(b, c, t)) \in Nat
<1>1. Starts(b) \subseteq Positions(b)
  BY StartsSplit DEF Splits
<1>2. IsFiniteSet(Positions(b))
  BY FS_Interval DEF Positions
<1>3. FieldsRead(b, c, t) \in SUBSET Positions(b)
  BY <1>1 DEF FieldsRead
<1>4. IsFiniteSet(FieldsRead(b, c, t))
  BY <1>2, <1>3, FS_Subset
<1> QED BY <1>3, <1>4, FS_CardinalityType

\* The count of a tag goes up by one at a field with that tag.
LEMMA CountStep ==
  ASSUME NEW b \in Seq(Bytes), NEW c \in Positions(b), NEW m \in Positions(b),
         NEW q \in Positions(b), SplitAt(b, c), IsField(b, c, m, q), NEW t
  PROVE  Cardinality(FieldsRead(b, q, t)) =
           Cardinality(FieldsRead(b, c, t)) + (IF VarintValue(b, c, m) = t THEN 1 ELSE 0)
<1> DEFINE R == FieldsRead(b, c, t)
           N == FieldsRead(b, q, t)
<1>1. N = R \cup {p \in {c} : VarintValue(b, c, m) = t} /\ \A p \in R : p < c
  BY ReadStep
<1>2. IsFiniteSet(R) /\ Cardinality(R) \in Nat
  BY ReadFinite
<1> HIDE DEF R, N
<1>3. c \notin R
  BY <1>1 DEF Positions
<1>4. CASE VarintValue(b, c, m) = t
  <2>1. N = R \cup {c}
    BY <1>1, <1>4
  <2>2. Cardinality(R \cup {c}) = Cardinality(R) + 1
    BY <1>2, <1>3, FS_AddElement
  <2> QED BY <1>4, <2>1, <2>2 DEF R, N
<1>5. CASE VarintValue(b, c, m) # t
  <2>1. N = R
    BY <1>1, <1>5
  <2> QED BY <1>2, <1>5, <2>1 DEF R, N
<1> QED BY <1>4, <1>5

\* A field with tag 8 is the last ir_version, another leaves the last one.
LEMMA VersionStep ==
  ASSUME NEW b \in Seq(Bytes), NEW c \in Positions(b), NEW m \in Positions(b),
         NEW q \in Positions(b), SplitAt(b, c), IsField(b, c, m, q)
  PROVE  LastIrVersion(b, q) =
           IF VarintValue(b, c, m) = 8 THEN VarintValue(b, m, q) ELSE LastIrVersion(b, c)
<1> DEFINE R == FieldsRead(b, c, 8)
           N == FieldsRead(b, q, 8)
           P == Positions(b)
<1>1. N = R \cup {p \in {c} : VarintValue(b, c, m) = 8} /\ \A p \in R : p < c
  BY ReadStep
<1>2. CASE VarintValue(b, c, m) # 8
  <2>1. N = R
    BY <1>1, <1>2
  <2>2. LastIrVersion(b, q) = LastIrVersion(b, c)
    <3> HIDE DEF R, N
    <3> QED BY <2>1, Zenon DEF LastIrVersion, R, N
  <2> HIDE DEF R, N
  <2> QED BY <1>2, <2>2
<1>3. CASE VarintValue(b, c, m) = 8
  <2>1. IsFiniteSet(P) /\ P \in SUBSET Int /\ P \subseteq Nat /\ N \in SUBSET P
    BY FS_Interval, ReadFinite DEF Positions
  <2>2. c \in N /\ \A p \in N : p <= c
    <3> HIDE DEF R, N
    <3> QED BY <1>1, <1>3, <2>1
  <2>3. Max(N) = c
    <3> HIDE DEF N, P
    <3>1. Max(N) \in N /\ \A y \in N : Max(N) >= y
      BY <2>1, <2>2, MaxMin
    <3>2. Max(N) \in Nat /\ c \in Nat
      BY <2>1, <2>2, <3>1
    <3> QED BY <2>2, <3>1, <3>2
  <2>4. ASSUME NEW x \in P, NEW y \in P, IsVarint(b, x, y)
        PROVE  VarintEnd(b, x) = y
    <3>1. VarintEnd(b, x) \in P /\ IsVarint(b, x, VarintEnd(b, x))
      BY <2>4 DEF VarintEnd
    <3> HIDE DEF P
    <3> QED BY <2>1, <2>4, <3>1, VarintUnique
  <2>5. VarintEnd(b, c) = m
    BY <2>4 DEF IsField
  <2>6. VarintEnd(b, m) = q
    BY <1>3, <2>4 DEF IsField
  <2>7. N # {} /\ LastIrVersion(b, q) = VarintValue(b, m, q)
    <3>1. LastIrVersion(b, q) =
            IF N = {} THEN 0
            ELSE VarintValue(b, VarintEnd(b, Max(N)), VarintEnd(b, VarintEnd(b, Max(N))))
      BY Zenon DEF LastIrVersion
    <3> HIDE DEF N
    <3> QED BY <2>2, <2>3, <2>5, <2>6, <3>1
  <2> HIDE DEF N
  <2> QED BY <1>3, <2>7
<1> QED BY <1>2, <1>3

-----------------------------------------------------------------------------
(* Skips                                                                    *)

\* Where a skip of n bytes from c leads: not past the end, and n bytes on
\* unless the sum wraps.
LEMMA SkipIs ==
  ASSUME NEW b \in Seq(Bytes), Len(b) < SizeMod, NEW c \in Positions(b),
         NEW n \in 0 .. (SizeMod - 1)
  PROVE  /\ skip(b, c, n).ok \in BOOLEAN /\ skip(b, c, n).at \in Positions(b)
         /\ skip(b, c, n).ok /\ c + n < SizeMod => skip(b, c, n).at = c + n
<1> DEFINE x == (c + n) % SizeMod
<1>1. SizeMod \in Nat \ {0} /\ c \in Nat /\ n \in Nat /\ Len(b) \in Nat
  BY ONNXAssumption DEF Positions
<1>2. x \in Nat /\ (c + n < SizeMod => x = c + n)
  BY <1>1
<1>3. skip(b, c, n) = IF x > Len(b) THEN [ok |-> FALSE, at |-> c] ELSE [ok |-> TRUE, at |-> x]
  BY DEF skip
<1> HIDE DEF x
<1>4. CASE x > Len(b)
  BY <1>3, <1>4
<1>5. CASE ~(x > Len(b))
  <2>1. x \in Positions(b)
    BY <1>1, <1>2, <1>5 DEF Positions
  <2> QED BY <1>2, <1>3, <1>5, <2>1
<1> QED BY <1>4, <1>5

\* The sum of a length and the position behind it stays within the word, for
\* every length-delimited field of the message.
LengthsFit(b) ==
  \A p \in Starts(b), m \in Positions(b), n \in Positions(b) :
    IsVarint(b, p, m) /\ VarintValue(b, p, m) % 8 = 2 /\ IsVarint(b, m, n) =>
      n + VarintValue(b, m, n) < SizeMod

\* What an iteration at c may leave: a position in the buffer, and after a
\* success the end of the field, if lengths do not wrap.
Skipped(b, c, s) ==
  /\ s.ok \in BOOLEAN /\ s.at \in Positions(b)
  /\ s.ok /\ LengthsFit(b) /\ c \in Starts(b) => IsField(b, c, read_varint(b, c).at, s.at)

\* Each way to skip the value behind the tag at c does so.
LEMMA Skips ==
  ASSUME NEW b \in Seq(Bytes), Len(b) + 8 < SizeMod, NEW c \in Positions(b), c < Len(b),
         read_varint(b, c).ok
  PROVE  LET tag == read_varint(b, c)
             wire == tag.value % 8
         IN  /\ tag.at \in Positions(b) /\ tag.value \in 0 .. (SizeMod - 1)
             /\ IsVarint(b, c, tag.at) /\ tag.value = VarintValue(b, c, tag.at)
             /\ wire = 0 => Skipped(b, c, read_varint(b, tag.at))
             /\ wire = 1 => Skipped(b, c, skip(b, tag.at, 8))
             /\ wire = 5 => Skipped(b, c, skip(b, tag.at, 4))
             /\ wire = 2 => Skipped(b, c, skip_delimited(b, tag.at))
             /\ wire = 2 => Skipped(b, c, read_length_delimited_string(b, tag.at))
<1> DEFINE tag == read_varint(b, c)
           m == tag.at
           wire == tag.value % 8
           len == read_varint(b, m)
<1>1. c \in 0 .. Len(b) /\ Len(b) \in Nat /\ SizeMod \in Nat \ {0} /\ Len(b) < SizeMod
      /\ 8 \in 0 .. (SizeMod - 1) /\ 4 \in 0 .. (SizeMod - 1)
  BY ONNXAssumption DEF Positions
<1>2. VarintRead(b, c, tag)
  BY <1>1, ReadVarint
<1>3. m \in Positions(b) /\ tag.value \in 0 .. (SizeMod - 1) /\ m \in Nat
      /\ IsVarint(b, c, m) /\ tag.value = VarintValue(b, c, m)
  <2> HIDE DEF tag
  <2>1. tag.ok
    BY DEF tag
  <2> QED BY <1>1, <1>2, <2>1 DEF VarintRead, Positions
<1>4. wire = VarintValue(b, c, m) % 8
  BY <1>3
<1> HIDE DEF tag
<1>5. VarintRead(b, m, len)
  <2>1. m \in 0 .. Len(b)
    BY <1>3 DEF Positions
  <2> QED BY <2>1, ReadVarint
<1> HIDE DEF m
<1>6. len.at \in Positions(b) /\ len.ok \in BOOLEAN /\ len.value \in 0 .. (SizeMod - 1)
      /\ (len.ok => IsVarint(b, m, len.at) /\ len.value = VarintValue(b, m, len.at))
  BY <1>1, <1>3, <1>5 DEF VarintRead, Positions
<1> HIDE DEF len
<1>7. ASSUME wire = 0 PROVE Skipped(b, c, len)
  <2>1. len.ok => IsField(b, c, m, len.at)
    BY <1>3, <1>4, <1>6, <1>7 DEF IsField, Positions
  <2> QED BY <1>6, <2>1 DEF Skipped, m, tag
<1>8. ASSUME NEW n \in {4, 8}, wire = IF n = 8 THEN 1 ELSE 5
      PROVE  Skipped(b, c, skip(b, m, n))
  <2> DEFINE s == skip(b, m, n)
  <2>1. n \in 0 .. (SizeMod - 1) /\ m + n < SizeMod
    BY <1>1, <1>3 DEF Positions
  <2>2. s.ok \in BOOLEAN /\ s.at \in Positions(b) /\ (s.ok => s.at = m + n)
    BY <1>1, <1>3, <2>1, SkipIs
  <2> HIDE DEF s
  <2>3. s.ok => IsField(b, c, m, s.at)
    BY <1>3, <1>4, <1>8, <2>2 DEF IsField, Positions
  <2>4. Skipped(b, c, s)
    BY <2>2, <2>3 DEF Skipped, m, tag
  <2> QED BY <2>4 DEF s
<1>9. ASSUME wire = 2, len.ok PROVE Skipped(b, c, skip(b, len.at, len.value))
  <2> DEFINE s == skip(b, len.at, len.value)
  <2>1. /\ s.ok \in BOOLEAN /\ s.at \in Positions(b)
        /\ s.ok /\ len.at + len.value < SizeMod => s.at = len.at + len.value
    BY <1>1, <1>6, SkipIs
  <2> HIDE DEF s
  <2>2. ASSUME s.ok, LengthsFit(b), c \in Starts(b) PROVE IsField(b, c, m, s.at)
    <3>1. len.at + len.value < SizeMod
      BY <1>3, <1>4, <1>6, <1>9, <2>2 DEF LengthsFit
    <3>2. s.at = len.at + len.value
      BY <2>1, <2>2, <3>1
    <3>3. m < len.at /\ len.at <= s.at /\ len.at \in Nat /\ s.at \in Nat /\ s.at <= Len(b)
      <4>1. m < len.at
        BY <1>6, <1>9 DEF IsVarint
      <4>2. len.at \in Nat /\ s.at \in Nat /\ s.at <= Len(b) /\ len.value \in Nat
        BY <1>1, <1>6, <2>1 DEF Positions
      <4> QED BY <3>2, <4>1, <4>2
    <3>4. len.at \in (m + 1) .. s.at
      BY <1>3, <3>3
    <3> QED BY <1>3, <1>4, <1>6, <1>9, <3>2, <3>3, <3>4 DEF IsField
  <2>3. Skipped(b, c, s)
    BY <2>1, <2>2 DEF Skipped, m, tag
  <2> QED BY <2>3 DEF s
<1>10. Skipped(b, c, [ok |-> FALSE, at |-> len.at])
  BY <1>6 DEF Skipped
<1>11. ASSUME wire = 2 PROVE Skipped(b, c, skip_delimited(b, m))
  <2>1. skip_delimited(b, m) =
          IF len.ok THEN skip(b, len.at, len.value) ELSE [ok |-> FALSE, at |-> len.at]
    BY DEF skip_delimited, len
  <2> QED BY <1>6, <1>9, <1>10, <1>11, <2>1
<1>12. ASSUME wire = 2 PROVE Skipped(b, c, read_length_delimited_string(b, m))
  <2>1. read_length_delimited_string(b, m) =
          IF len.ok /\ len.value <= MaxString THEN skip(b, len.at, len.value)
          ELSE [ok |-> FALSE, at |-> len.at]
    BY DEF read_length_delimited_string, len
  <2> QED BY <1>6, <1>9, <1>10, <1>12, <2>1
<1>13. (wire = 1 => Skipped(b, c, skip(b, m, 8))) /\ (wire = 5 => Skipped(b, c, skip(b, m, 4)))
  BY <1>8
<1> QED BY <1>3, <1>7, <1>11, <1>12, <1>13 DEF len, m, tag

-----------------------------------------------------------------------------
(* Types                                                                    *)

Headers ==
  [ir_version : Nat, producer_name : Seq(Bytes), producer_version : Seq(Bytes),
   node_count : Nat]

Errors == {"ErrMalformedHeader", "ErrOutOfBoundsRead"}

ONNXTypeOK ==
  /\ buffer \in Buffers \cup {<< >>} /\ m_cursor \in Positions(buffer)
  /\ m_header \in Headers /\ pc \in {"idle", "loop"}
  /\ outcome \in Errors \cup {"reset", "running", "Success"}
  /\ pc = "loop" => buffer \in Buffers

\* An iteration that consumes the field at the cursor, seen from its outcome.
ReadsField ==
  /\ AtField /\ UNCHANGED << buffer, pc, outcome >>
  /\ m_cursor' \in Positions(buffer) /\ m_header' \in Headers
  /\ LengthsFit(buffer) /\ m_cursor \in Starts(buffer) =>
       IsField(buffer, m_cursor, Tag.at, m_cursor')
  /\ m_header'.node_count =
       IF field_number = 7 /\ wire_type = 2
       THEN Min({m_header.node_count + 1, MaxNodes + 1}) ELSE m_header.node_count
  /\ m_header'.ir_version =
       IF field_number = 1 /\ wire_type = 0
       THEN VarintValue(buffer, Tag.at, m_cursor') ELSE m_header.ir_version

\* An iteration that stops the parse with an error.
StopsParse ==
  /\ pc = "loop" /\ pc' = "idle" /\ outcome' \in Errors
  /\ UNCHANGED << buffer, m_header >> /\ m_cursor' \in Positions(buffer)

\* The bytes of a string are bytes of the buffer.
LEMMA SubSeqBytes ==
  ASSUME NEW b \in Seq(Bytes), NEW i \in Nat, i > 0, NEW j \in 0 .. Len(b)
  PROVE  SubSeq(b, i, j) \in Seq(Bytes)
<1> DEFINE B == Bytes
<1>1. b \in Seq(B) /\ \A k \in i .. j : k \in 1 .. Len(b)
  OBVIOUS
<1> HIDE DEF B
<1>2. SubSeq(b, i, j) \in Seq(B)
  BY <1>1
<1> QED BY <1>2 DEF B

\* A failing read stops the parse.
LEMMA FailsStops ==
  ASSUME AtField, NEW status \in Errors, NEW c \in Positions(buffer), Fails(status, c)
  PROVE  StopsParse
BY DEF AtField, Fails, StopsParse

\* What the tag at the cursor is, and what the iteration may skip to.
LEMMA TagIs ==
  ASSUME ONNXTypeOK, AtField
  PROVE  /\ buffer \in Seq(Bytes) /\ Len(buffer) + 8 < SizeMod
         /\ Tag.at \in Positions(buffer) /\ Tag.value \in 0 .. (SizeMod - 1)
         /\ IsVarint(buffer, m_cursor, Tag.at)
         /\ Tag.value = VarintValue(buffer, m_cursor, Tag.at)
         /\ wire_type = 0 => Skipped(buffer, m_cursor, read_varint(buffer, Tag.at))
         /\ wire_type = 1 => Skipped(buffer, m_cursor, skip(buffer, Tag.at, 8))
         /\ wire_type = 5 => Skipped(buffer, m_cursor, skip(buffer, Tag.at, 4))
         /\ wire_type = 2 => Skipped(buffer, m_cursor, skip_delimited(buffer, Tag.at))
         /\ wire_type = 2 =>
              Skipped(buffer, m_cursor, read_length_delimited_string(buffer, Tag.at))
<1>1. /\ buffer \in Seq(Bytes) /\ Len(buffer) + 8 < SizeMod
      /\ m_cursor \in Positions(buffer) /\ m_cursor < Len(buffer)
      /\ read_varint(buffer, m_cursor).ok
  BY ONNXAssumption DEF ONNXTypeOK, AtField, Tag
<1> QED BY <1>1, Skips DEF Tag, wire_type

\* A field that is skipped leaves the header.
LEMMA SkipReads ==
  ASSUME ONNXTypeOK, AtField, ~KnownField, NEW s,
         Skipped(buffer, m_cursor, s), s.ok, Consumes(m_header, s.at)
  PROVE  ReadsField
<1>1. /\ UNCHANGED << buffer, pc, outcome >> /\ m_cursor' = s.at /\ m_header' = m_header
      /\ m_header \in Headers
  BY DEF Consumes, ONNXTypeOK
<1>2. ~(field_number = 7 /\ wire_type = 2) /\ ~(field_number = 1 /\ wire_type = 0)
  BY DEF KnownField
<1>3. s.at \in Positions(buffer)
  BY DEF Skipped
<1>4. LengthsFit(buffer) /\ m_cursor \in Starts(buffer) =>
        IsField(buffer, m_cursor, Tag.at, m_cursor')
  BY <1>1 DEF Skipped, Tag
<1> QED BY <1>1, <1>2, <1>3, <1>4 DEF ReadsField

\* Every iteration reads a field, stops with an error or leaves the loop.
LEMMA IterationIs ==
  ASSUME ONNXTypeOK, ParseStep
  PROVE  ReadsField \/ StopsParse \/ LeaveLoop
<1> DEFINE at == Tag.at
<1>0. m_header \in Headers /\ m_header.node_count \in Nat /\ MaxNodes \in Nat
  BY ONNXAssumption DEF ONNXTypeOK, Headers
<1>1. CASE ReadIrVersion
  <2> DEFINE v == read_varint(buffer, at)
  <2>1. AtField /\ field_number = 1 /\ wire_type = 0
    BY <1>1 DEF ReadIrVersion
  <2>2. Skipped(buffer, m_cursor, v) /\ buffer \in Seq(Bytes) /\ at \in Positions(buffer)
    BY <2>1, TagIs
  <2>3. VarintRead(buffer, at, v)
    BY <2>2, ReadVarint DEF Positions
  <2>4. IF v.ok THEN Consumes([m_header EXCEPT !.ir_version = v.value], v.at)
        ELSE Fails("ErrOutOfBoundsRead", v.at)
    BY <1>1 DEF ReadIrVersion
  <2> HIDE DEF v
  <2>5. CASE ~v.ok
    BY <2>1, <2>2, <2>4, <2>5, FailsStops DEF Skipped, Errors
  <2>6. CASE v.ok
    <3>1. /\ UNCHANGED << buffer, pc, outcome >> /\ m_cursor' = v.at
          /\ m_header' = [m_header EXCEPT !.ir_version = v.value]
      BY <2>4, <2>6 DEF Consumes
    <3>2. v.value \in Nat /\ v.value = VarintValue(buffer, at, v.at)
      BY <2>3, <2>6, ONNXAssumption DEF VarintRead
    <3>3. /\ m_header' \in Headers /\ m_header'.ir_version = v.value
          /\ m_header'.node_count = m_header.node_count
      BY <1>0, <3>1, <3>2 DEF Headers
    <3>4. field_number # 7
      BY <2>1
    <3>5. LengthsFit(buffer) /\ m_cursor \in Starts(buffer) =>
            IsField(buffer, m_cursor, Tag.at, m_cursor')
      BY <2>2, <2>6, <3>1 DEF Skipped, Tag
    <3>6. m_cursor' \in Positions(buffer)
      BY <2>2, <3>1 DEF Skipped
    <3> QED BY <2>1, <3>1, <3>2, <3>3, <3>4, <3>5, <3>6 DEF ReadsField
  <2> QED BY <2>5, <2>6
<1>2. CASE ReadProducer
  <2> DEFINE s == read_length_delimited_string(buffer, at)
             text == Text(buffer, at, s.at)
  <2>1. AtField /\ field_number \in {2, 3} /\ wire_type = 2
    BY <1>2 DEF ReadProducer
  <2>2. Skipped(buffer, m_cursor, s) /\ buffer \in Seq(Bytes) /\ at \in Positions(buffer)
    BY <2>1, TagIs
  <2>3. text \in Seq(Bytes)
    <3> DEFINE k == read_varint(buffer, at).at
    <3>1. VarintRead(buffer, at, read_varint(buffer, at))
      BY <2>2, ReadVarint DEF Positions
    <3>2. k \in Nat /\ s.at \in 0 .. Len(buffer)
      BY <2>2, <3>1 DEF VarintRead, Skipped, Positions
    <3> HIDE DEF k, s
    <3>3. k + 1 \in Nat /\ k + 1 > 0
      BY <3>2
    <3>4. SubSeq(buffer, k + 1, s.at) \in Seq(Bytes)
      BY <2>2, <3>2, <3>3, SubSeqBytes
    <3> QED BY <3>4 DEF Text, k
  <2>4. \/ ~s.ok /\ Fails("ErrOutOfBoundsRead", s.at)
        \/ s.ok /\ Consumes([m_header EXCEPT !.producer_name = text], s.at)
        \/ s.ok /\ Consumes([m_header EXCEPT !.producer_version = text], s.at)
    BY <1>2 DEF ReadProducer
  <2> HIDE DEF s, text
  <2>5. CASE ~s.ok /\ Fails("ErrOutOfBoundsRead", s.at)
    BY <2>1, <2>2, <2>5, FailsStops DEF Skipped, Errors
  <2>6. ASSUME NEW h, h \in Headers, h.ir_version = m_header.ir_version,
               h.node_count = m_header.node_count, s.ok, Consumes(h, s.at)
        PROVE  ReadsField
    <3>1. UNCHANGED << buffer, pc, outcome >> /\ m_cursor' = s.at /\ m_header' = h
      BY <2>6 DEF Consumes
    <3>2. field_number # 7 /\ field_number # 1
      BY <2>1
    <3>3. LengthsFit(buffer) /\ m_cursor \in Starts(buffer) =>
            IsField(buffer, m_cursor, Tag.at, m_cursor')
      BY <2>2, <2>6, <3>1 DEF Skipped, Tag
    <3>4. m_cursor' \in Positions(buffer)
      BY <2>2, <3>1 DEF Skipped
    <3> QED BY <2>1, <2>6, <3>1, <3>2, <3>3, <3>4 DEF ReadsField
  <2>7. CASE s.ok /\ Consumes([m_header EXCEPT !.producer_name = text], s.at)
    <3> DEFINE h == [m_header EXCEPT !.producer_name = text]
    <3>1. /\ h \in Headers /\ h.ir_version = m_header.ir_version
          /\ h.node_count = m_header.node_count
      BY <1>0, <2>3 DEF Headers
    <3> HIDE DEF h
    <3>2. Consumes(h, s.at) /\ s.ok
      BY <2>7 DEF h
    <3> QED BY <2>6, <3>1, <3>2
  <2>8. CASE s.ok /\ Consumes([m_header EXCEPT !.producer_version = text], s.at)
    <3> DEFINE h == [m_header EXCEPT !.producer_version = text]
    <3>1. /\ h \in Headers /\ h.ir_version = m_header.ir_version
          /\ h.node_count = m_header.node_count
      BY <1>0, <2>3 DEF Headers
    <3> HIDE DEF h
    <3>2. Consumes(h, s.at) /\ s.ok
      BY <2>8 DEF h
    <3> QED BY <2>6, <3>1, <3>2
  <2> QED BY <2>4, <2>5, <2>7, <2>8
<1>3. CASE ReadGraph
  <2> DEFINE g == skip_delimited(buffer, at)
             n == Min({m_header.node_count + 1, MaxNodes + 1})
  <2>1. AtField /\ field_number = 7 /\ wire_type = 2
    BY <1>3 DEF ReadGraph
  <2>2. Skipped(buffer, m_cursor, g)
    BY <2>1, TagIs
  <2>3. IF g.ok THEN Consumes([m_header EXCEPT !.node_count = n], g.at)
        ELSE Fails("ErrOutOfBoundsRead", g.at)
    BY <1>3 DEF ReadGraph
  <2>4. n \in Nat
    BY <1>0, MinOfTwo
  <2> HIDE DEF g
  <2>5. CASE ~g.ok
    BY <2>1, <2>2, <2>3, <2>5, FailsStops DEF Skipped, Errors
  <2>6. CASE g.ok
    <3> HIDE DEF n
    <3>1. /\ UNCHANGED << buffer, pc, outcome >> /\ m_cursor' = g.at
          /\ m_header' = [m_header EXCEPT !.node_count = n]
      BY <2>3, <2>6 DEF Consumes
    <3>2. /\ m_header' \in Headers /\ m_header'.node_count = n
          /\ m_header'.ir_version = m_header.ir_version
      BY <1>0, <2>4, <3>1 DEF Headers
    <3>3. field_number # 1
      BY <2>1
    <3>4. LengthsFit(buffer) /\ m_cursor \in Starts(buffer) =>
            IsField(buffer, m_cursor, Tag.at, m_cursor')
      BY <2>2, <2>6, <3>1 DEF Skipped, Tag
    <3>5. m_cursor' \in Positions(buffer)
      BY <2>2, <3>1 DEF Skipped
    <3> QED BY <2>1, <3>1, <3>2, <3>3, <3>4, <3>5 DEF ReadsField, n
  <2> QED BY <2>5, <2>6
<1>4. CASE SkipField
  <2>1. AtField /\ ~KnownField /\ wire_type \in {0, 1, 2, 5}
    BY <1>4 DEF SkipField
  <2>2. PICK s : /\ Skipped(buffer, m_cursor, s)
                 /\ IF s.ok THEN Consumes(m_header, s.at) ELSE Fails("ErrOutOfBoundsRead", s.at)
    <3>1. CASE wire_type = 0
      BY <1>4, <2>1, <3>1, TagIs DEF SkipField
    <3>2. CASE wire_type = 1
      BY <1>4, <2>1, <3>2, TagIs DEF SkipField
    <3>3. CASE wire_type = 2
      BY <1>4, <2>1, <3>3, TagIs DEF SkipField
    <3>4. CASE wire_type = 5
      BY <1>4, <2>1, <3>4, TagIs DEF SkipField
    <3> QED BY <2>1, <3>1, <3>2, <3>3, <3>4
  <2>3. CASE s.ok
    BY <2>1, <2>2, <2>3, SkipReads
  <2>4. CASE ~s.ok
    BY <2>1, <2>2, <2>4, FailsStops DEF Skipped, Errors
  <2> QED BY <2>3, <2>4
<1>5. CASE BadWireType
  <2>1. AtField /\ Fails("ErrMalformedHeader", Tag.at)
    BY <1>5 DEF BadWireType
  <2>2. Tag.at \in Positions(buffer)
    BY <2>1, TagIs
  <2> QED BY <2>1, <2>2, FailsStops DEF Errors
<1> QED BY <1>1, <1>2, <1>3, <1>4, <1>5 DEF ParseStep

\* Before the first parse the types are right.
LEMMA InitTypeOK == Init => ONNXTypeOK
<1> SUFFICES ASSUME Init PROVE ONNXTypeOK
  OBVIOUS
<1>1. NoHeader \in Headers
  BY DEF NoHeader, Headers
<1>2. 0 \in Positions(<< >>)
  BY DEF Positions
<1> QED BY <1>1, <1>2 DEF Init, ONNXTypeOK, Errors

\* Every step keeps the types, the bounds of the cursor among them.
LEMMA NextTypeOK == ONNXTypeOK /\ [Next]_onnx => ONNXTypeOK'
<1> SUFFICES ASSUME ONNXTypeOK, [Next]_onnx PROVE ONNXTypeOK'
  OBVIOUS
<1> DEFINE Statuses == Errors \cup {"reset", "running", "Success"}
<1>1. /\ buffer \in Buffers \cup {<< >>} /\ m_cursor \in Positions(buffer)
      /\ m_header \in Headers /\ pc \in {"idle", "loop"} /\ outcome \in Statuses
      /\ pc = "loop" => buffer \in Buffers
  BY DEF ONNXTypeOK
<1>2. NoHeader \in Headers
  BY DEF NoHeader, Headers
<1>3. buffer \in Seq(Bytes) /\ Len(buffer) \in Nat
  <2>1. buffer \in Seq(Bytes)
    <3>1. << >> \in Seq(Bytes)
      OBVIOUS
    <3> QED BY <1>1, <3>1, ONNXAssumption
  <2> QED BY <2>1
<1>4. ASSUME NEW b \in Buffers, Parse(b) PROVE ONNXTypeOK'
  <2>1. b \in Seq(Bytes) /\ 0 \in Positions(b)
    BY ONNXAssumption DEF Positions
  <2> QED BY <1>2, <1>4, <2>1 DEF Parse, ONNXTypeOK, Errors
<1>5. CASE ParseStep
  <2>1. CASE ReadsField
    BY <1>1, <2>1 DEF ReadsField, AtField, ONNXTypeOK
  <2>2. CASE StopsParse
    BY <1>1, <2>2 DEF StopsParse, ONNXTypeOK
  <2>3. CASE LeaveLoop
    <3>1. m_cursor' \in Positions(buffer)
      <4>1. VarintRead(buffer, m_cursor, Tag)
        BY <1>1, <1>3, ReadVarint DEF Positions, Tag
      <4> QED BY <1>1, <1>3, <2>3, <4>1 DEF LeaveLoop, VarintRead, Positions
    <3> QED BY <1>1, <2>3, <3>1 DEF LeaveLoop, validate_graph_metadata, ONNXTypeOK, Errors
  <2> QED BY <1>5, <2>1, <2>2, <2>3, IterationIs
<1>6. CASE Revalidate
  BY <1>1, <1>6 DEF Revalidate, validate_graph_metadata, ONNXTypeOK, Errors
<1>7. CASE Reset
  BY <1>1, <1>2, <1>3, <1>7 DEF Reset, ONNXTypeOK, Errors, Positions
<1>8. CASE UNCHANGED onnx
  BY <1>1, <1>8 DEF onnx, ONNXTypeOK
<1> QED BY <1>4, <1>5, <1>6, <1>7, <1>8 DEF Next

\* The types of the parser's members, for every set of buffers and every word.
THEOREM TypeCorrect == Spec => []ONNXTypeOK
<1>1. Init => ONNXTypeOK
  BY InitTypeOK
<1>2. ONNXTypeOK /\ [Next]_onnx => ONNXTypeOK'
  BY NextTypeOK
<1> QED BY <1>1, <1>2, PTL DEF Spec

\* Lengths that wrap included, no read or skip takes m_cursor past the end of
\* the buffer.
THEOREM CursorInBufferHolds == Spec => []CursorInBuffer
<1>1. ONNXTypeOK => CursorInBuffer
  <2> SUFFICES ASSUME ONNXTypeOK PROVE CursorInBuffer
    OBVIOUS
  <2>1. m_cursor \in Positions(buffer) /\ Len(buffer) \in Nat
    BY ONNXAssumption DEF ONNXTypeOK
  <2> QED BY <2>1 DEF CursorInBuffer, Positions
<1> QED BY <1>1, TypeCorrect, PTL

-----------------------------------------------------------------------------
(* Decoding                                                                 *)

\* What the header holds after the fields before c.
Decoded(b, c, node_count, ir_version) ==
  /\ node_count = Min({Cardinality(FieldsRead(b, c, 58)), MaxNodes + 1})
  /\ ir_version = LastIrVersion(b, c)

\* Inside the loop the cursor is at a split of the message, and the header
\* holds what the fields before it say.
LoopInv ==
  pc = "loop" =>
    /\ SplitAt(buffer, m_cursor)
    /\ NumbersFit(buffer) =>
         Decoded(buffer, m_cursor, m_header.node_count, m_header.ir_version)

ONNXInv == ONNXTypeOK /\ LoopInv /\ SuccessReadsAll

\* No length of a buffer that is parsed wraps the cursor.
LengthsDoNotWrap == \A b \in Buffers : LengthsFit(b)

\* A parse begins with nothing read.
LEMMA DecodedAtZero ==
  ASSUME NEW b \in Seq(Bytes)
  PROVE  Decoded(b, 0, 0, 0)
<1>1. FieldsRead(b, 0, 58) = {} /\ FieldsRead(b, 0, 8) = {}
  BY ReadNothing
<1>2. Cardinality({}) = 0
  BY FS_EmptySet
<1>3. Min({0, MaxNodes + 1}) = 0
  BY MinOfTwo, ONNXAssumption
<1>4. LastIrVersion(b, 0) = 0
  BY <1>1 DEF LastIrVersion
<1> QED BY <1>1, <1>2, <1>3, <1>4 DEF Decoded

\* A field number and a wire type that fit make the tag.
LEMMA TagNumbers ==
  ASSUME NEW v \in Nat, v \div 8 < FieldMod
  PROVE  /\ (v \div 8) % FieldMod = 7 /\ v % 8 = 2 <=> v = 58
         /\ (v \div 8) % FieldMod = 1 /\ v % 8 = 0 <=> v = 8
<1>1. v \div 8 \in Nat /\ v % 8 \in 0 .. 7 /\ v = 8 * (v \div 8) + (v % 8)
  OBVIOUS
<1>2. (v \div 8) % FieldMod = v \div 8
  <2> DEFINE x == v \div 8
  <2>1. x \in 0 .. (FieldMod - 1) /\ FieldMod \in Nat \ {0} /\ x = FieldMod * 0 + x
    BY <1>1, ONNXAssumption
  <2> HIDE DEF x
  <2>2. x % FieldMod = x
    BY <2>1, ModUnique
  <2> QED BY <2>2 DEF x
<1> QED BY <1>1, <1>2

\* An iteration takes the loop from one split to the next and accounts for
\* the field between them.
LEMMA FieldDecoded ==
  ASSUME ONNXTypeOK, LoopInv, ReadsField, LengthsDoNotWrap
  PROVE  LoopInv' /\ m_cursor < m_cursor'
<1> DEFINE b == buffer
           c == m_cursor
           m == Tag.at
           q == m_cursor'
           v == VarintValue(b, c, m)
<1>1. AtField /\ b \in Buffers /\ b \in Seq(Bytes) /\ c \in Positions(b) /\ q \in Positions(b)
      /\ b' = b /\ pc = "loop" /\ LengthsFit(b) /\ m \in Positions(b)
      /\ Tag.value = v /\ v \in Nat
  <2>1. AtField /\ b' = b /\ q \in Positions(b) /\ pc = "loop"
    BY DEF ReadsField, AtField
  <2>2. b \in Buffers /\ b \in Seq(Bytes) /\ c \in Positions(b) /\ LengthsFit(b)
    BY <2>1, ONNXAssumption DEF ONNXTypeOK, LengthsDoNotWrap
  <2>3. m \in Positions(b) /\ Tag.value = v /\ Tag.value \in 0 .. (SizeMod - 1)
    BY <2>1, TagIs
  <2>4. v \in Nat
    BY <2>3, ONNXAssumption
  <2> QED BY <2>1, <2>2, <2>3, <2>4
<1>2. SplitAt(b, c)
  BY <1>1 DEF LoopInv
<1>3. IsField(b, c, m, q)
  BY <1>1, <1>2 DEF ReadsField, SplitAt
<1>4. SplitAt(b, q)
  BY <1>1, <1>2, <1>3, SplitStep
<1>5. c < q
  <2>1. c \in Nat /\ m \in Nat /\ q \in Nat
    BY <1>1 DEF Positions
  <2>2. c < m /\ m < q
    BY <1>1, <1>3, <2>1, FieldGrows
  <2> QED BY <2>1, <2>2
<1>6. ASSUME NumbersFit(b)
      PROVE  Decoded(b, q, m_header'.node_count, m_header'.ir_version)
  <2> DEFINE n == Cardinality(FieldsRead(b, c, 58))
             w == LastIrVersion(b, c)
  <2>1. m_header.node_count = Min({n, MaxNodes + 1}) /\ m_header.ir_version = w
    BY <1>1, <1>6 DEF LoopInv, Decoded
  <2>2. v \div 8 < FieldMod
    <3>1. c \in Starts(b) /\ IsVarint(b, c, m)
      BY <1>2, <1>3 DEF SplitAt, IsField
    <3> QED BY <1>1, <1>6, <3>1 DEF NumbersFit
  <2>3. /\ field_number = 7 /\ wire_type = 2 <=> v = 58
        /\ field_number = 1 /\ wire_type = 0 <=> v = 8
    BY <1>1, <2>2, TagNumbers DEF field_number, wire_type
  <2>4. n \in Nat /\ MaxNodes \in Nat
    BY <1>1, ReadFinite, ONNXAssumption
  <2>5. Cardinality(FieldsRead(b, q, 58)) = n + (IF v = 58 THEN 1 ELSE 0)
    BY <1>1, <1>2, <1>3, CountStep
  <2>6. LastIrVersion(b, q) = IF v = 8 THEN VarintValue(b, m, q) ELSE w
    BY <1>1, <1>2, <1>3, VersionStep
  <2>7. m_header'.ir_version = LastIrVersion(b, q)
    BY <2>1, <2>3, <2>6 DEF ReadsField
  <2>8. m_header'.node_count =
          IF v = 58 THEN Min({m_header.node_count + 1, MaxNodes + 1}) ELSE m_header.node_count
    BY <2>3 DEF ReadsField
  <2> HIDE DEF n
  <2>9. m_header'.node_count = Min({n + (IF v = 58 THEN 1 ELSE 0), MaxNodes + 1})
    <3>1. Min({n, MaxNodes + 1}) = IF n <= MaxNodes + 1 THEN n ELSE MaxNodes + 1
      BY <2>4, MinOfTwo
    <3>2. CASE v = 58
      <4>1. Min({n + 1, MaxNodes + 1}) = IF n + 1 <= MaxNodes + 1 THEN n + 1 ELSE MaxNodes + 1
        BY <2>4, MinOfTwo
      <4> DEFINE k == m_header.node_count
      <4>2. k \in Nat
        BY <2>1, <2>4, <3>1
      <4>3. Min({k + 1, MaxNodes + 1}) = IF k + 1 <= MaxNodes + 1 THEN k + 1 ELSE MaxNodes + 1
        BY <2>4, <4>2, MinOfTwo
      <4>4. Min({k + 1, MaxNodes + 1}) = Min({n + 1, MaxNodes + 1})
        BY <2>1, <2>4, <3>1, <4>1, <4>2, <4>3
      <4> QED BY <2>8, <3>2, <4>4
    <3>3. CASE v # 58
      <4>1. n + 0 = n
        BY <2>4
      <4> QED BY <2>1, <2>8, <3>3, <4>1
    <3> QED BY <3>2, <3>3
  <2> QED BY <2>5, <2>7, <2>9 DEF Decoded
<1>7. b' = b
  BY <1>1
<1>8. LoopInv'
  BY <1>4, <1>6, <1>7 DEF LoopInv
<1> QED BY <1>5, <1>8

\* Leaving the loop with a success leaves nothing but an unreadable tag.
LEMMA LeaveReadsAll ==
  ASSUME ONNXTypeOK, LoopInv, LeaveLoop
  PROVE  SuccessReadsAll'
<1>1. /\ pc = "loop" /\ buffer' = buffer /\ buffer \in Seq(Bytes)
      /\ m_cursor \in Positions(buffer) /\ Len(buffer) \in Nat
  BY ONNXAssumption DEF ONNXTypeOK, LeaveLoop
<1>2. m_cursor \in Starts(buffer)
  BY <1>1 DEF LoopInv, SplitAt
<1>3. CASE m_cursor >= Len(buffer) /\ UNCHANGED m_cursor
  <2>1. m_cursor = Len(buffer)
    BY <1>1, <1>3 DEF Positions
  <2> QED BY <1>1, <1>2, <1>3, <2>1 DEF SuccessReadsAll
<1>4. CASE m_cursor < Len(buffer) /\ ~Tag.ok /\ m_cursor' = Tag.at
  <2>1. VarintRead(buffer, m_cursor, Tag)
    BY <1>1, ReadVarint DEF Positions, Tag
  <2>2. m_cursor < m_cursor' /\ \A q \in Positions(buffer) : ~IsVarint(buffer, m_cursor, q)
    BY <1>4, <2>1 DEF VarintRead
  <2> QED BY <1>1, <1>2, <2>2 DEF SuccessReadsAll
<1> QED BY <1>3, <1>4 DEF LeaveLoop

\* The decoding invariant is inductive when lengths do not wrap.
LEMMA NextInv ==
  ASSUME LengthsDoNotWrap
  PROVE  ONNXInv /\ [Next]_onnx => ONNXInv'
<1> SUFFICES ASSUME ONNXInv, [Next]_onnx PROVE ONNXInv'
  OBVIOUS
<1>1. ONNXTypeOK /\ LoopInv /\ SuccessReadsAll
  BY DEF ONNXInv
<1>2. ONNXTypeOK'
  BY <1>1, NextTypeOK
<1>3. ASSUME NEW b \in Buffers, Parse(b) PROVE LoopInv' /\ SuccessReadsAll'
  <2>1. b \in Seq(Bytes)
    BY ONNXAssumption
  <2>2. SplitAt(b, 0) /\ Decoded(b, 0, 0, 0)
    BY <2>1, SplitAtZero, DecodedAtZero
  <2>3. buffer' = b /\ m_cursor' = 0 /\ m_header'.node_count = 0 /\ m_header'.ir_version = 0
        /\ outcome' # "Success"
    BY <1>3 DEF Parse, NoHeader
  <2> QED BY <2>2, <2>3 DEF LoopInv, SuccessReadsAll
<1>4. CASE ParseStep
  <2>1. CASE ReadsField
    <3>1. LoopInv'
      BY <1>1, <2>1, FieldDecoded
    <3>2. pc' # "idle"
      BY <2>1 DEF ReadsField, AtField
    <3> QED BY <1>2, <3>1, <3>2 DEF SuccessReadsAll, ONNXInv
  <2>2. CASE StopsParse
    BY <1>2, <2>2 DEF StopsParse, Errors, LoopInv, SuccessReadsAll, ONNXInv
  <2>3. CASE LeaveLoop
    <3>1. pc' # "loop"
      BY <2>3 DEF LeaveLoop
    <3> QED BY <1>1, <1>2, <2>3, <3>1, LeaveReadsAll DEF LoopInv, ONNXInv
  <2> QED BY <1>1, <1>4, <2>1, <2>2, <2>3, IterationIs
<1>5. CASE Revalidate
  <2>1. LoopInv' /\ SuccessReadsAll'
    BY <1>1, <1>5 DEF Revalidate, LoopInv, SuccessReadsAll
  <2> QED BY <1>2, <2>1 DEF ONNXInv
<1>6. CASE Reset
  <2>1. LoopInv' /\ SuccessReadsAll'
    BY <1>6 DEF Reset, LoopInv, SuccessReadsAll
  <2> QED BY <1>2, <2>1 DEF ONNXInv
<1>7. CASE UNCHANGED onnx
  <2>1. LoopInv' /\ SuccessReadsAll'
    BY <1>1, <1>7 DEF onnx, LoopInv, SuccessReadsAll
  <2> QED BY <1>2, <2>1 DEF ONNXInv
<1> QED BY <1>2, <1>3, <1>4, <1>5, <1>6, <1>7 DEF Next, ONNXInv

\* The loop always stands at a split of the message with the header decoded
\* so far, for all buffers whose lengths do not wrap.
THEOREM DecodingInvariant ==
  ASSUME LengthsDoNotWrap
  PROVE  Spec => []ONNXInv
<1>1. Init => ONNXInv
  BY InitTypeOK DEF Init, ONNXInv, LoopInv, SuccessReadsAll
<1>2. ONNXInv /\ [Next]_onnx => ONNXInv'
  BY NextInv
<1> QED BY <1>1, <1>2, PTL DEF Spec

\* The loop of parse decodes what the wire format says: split points, node
\* count and last ir_version.
THEOREM DecodesWireFormatHolds ==
  ASSUME LengthsDoNotWrap
  PROVE  Spec => []DecodesWireFormat
<1>1. ONNXInv => DecodesWireFormat
  BY DEF ONNXInv, LoopInv, SplitAt, Decoded, DecodesWireFormat
<1> QED BY <1>1, DecodingInvariant, PTL

\* A successful parse has split the whole buffer, up to a tag that cannot be
\* read.
THEOREM SuccessReadsAllHolds ==
  ASSUME LengthsDoNotWrap
  PROVE  Spec => []SuccessReadsAll
<1>1. ONNXInv => SuccessReadsAll
  BY DEF ONNXInv
<1> QED BY <1>1, DecodingInvariant, PTL

\* Every iteration of the loop moves the cursor forward, the safety half of
\* termination; with lengths that wrap it may move backwards.
LoopAdvances == [][pc = "loop" /\ pc' = "loop" => m_cursor < m_cursor']_onnx

\* The loop of parse consumes input in every iteration.
THEOREM LoopAdvancesHolds ==
  ASSUME LengthsDoNotWrap
  PROVE  Spec => LoopAdvances
<1>1. ONNXInv /\ [Next]_onnx => [pc = "loop" /\ pc' = "loop" => m_cursor < m_cursor']_onnx
  <2> SUFFICES ASSUME ONNXInv, Next, pc = "loop", pc' = "loop" PROVE m_cursor < m_cursor'
    OBVIOUS
  <2>1. ParseStep
    BY DEF Next, Parse, Revalidate, Reset
  <2>2. ReadsField
    BY <2>1, IterationIs DEF ONNXInv, StopsParse, LeaveLoop
  <2> QED BY <2>2, FieldDecoded DEF ONNXInv
<1> QED BY <1>1, DecodingInvariant, PTL DEF Spec, LoopAdvances

=============================================================================
