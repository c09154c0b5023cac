----------------------------- MODULE GGUFProofs -----------------------------
(***************************************************************************)
(* The GGUF parser and its campaign, for every buffer length, every limit  *)
(* and every value a field can hold: reads stay in the buffer, a success   *)
(* is complete, the sizes it reports are exact, and the mutator's inputs   *)
(* never drive a loop.                                                     *)
(***************************************************************************)
EXTENDS GGUFCampaign, FoldLemmas

Dims == Seq(0 .. (SizeMod - 1))
Buffers == [size : Nat, magic : BOOLEAN, version : Nat, tensors : Nat,
            metadata : Nat, first : Nat]

(* The inductive invariant of the parser *)

HeaderOK == m_header \in [version : Nat, tensor_count : Nat, metadata_kv_count : Nat]
TensorsOK ==
  /\ m_tensors \in Seq([dims : Shapes, offset : Offsets, calculated_bytes : Int])

\* The map never holds more keys than pairs were read.
MetadataOK ==
  /\ pairs \in Nat /\ IsFiniteSet(DOMAIN m_metadata)
  /\ Cardinality(DOMAIN m_metadata) <= pairs

\* How far each step of parse has come; the fields at fixed offsets are read
\* from an empty object.
ProgressOK ==
  /\ pc \in {"idle", "magic", "version", "counts", "metadata"}
  /\ pc # "idle" => outcome = "running"
  /\ pc \in {"magic", "version", "counts"} => pairs = 0 /\ m_tensors = << >>
  /\ pc = "magic" => m_cursor = 0
  /\ pc = "version" => m_cursor = 4
  /\ pc = "counts" => m_cursor = 8
  /\ pc \in {"counts", "metadata"} => m_header.version \in 1 .. 3
  /\ pc = "metadata" => /\ pairs <= m_header.metadata_kv_count
                        /\ Len(m_tensors) <= m_header.tensor_count
                        /\ m_cursor >= 24
                        /\ pairs > 0 \/ m_tensors # << >> \/ m_cursor = 24

SuccessOK ==
  outcome = "Success" =>
    /\ pc = "idle"
    /\ m_header.version \in 1 .. 3 /\ pairs = m_header.metadata_kv_count
    /\ Len(m_tensors) = m_header.tensor_count
    /\ \A k \in 1 .. Len(m_tensors) :
         /\ calculated_bytes(m_tensors[k].dims) # Overflow
         /\ m_tensors[k].calculated_bytes = calculated_bytes(m_tensors[k].dims)

ParserInv ==
  /\ size \in Nat /\ m_cursor \in 0 .. size
  /\ HeaderOK /\ TensorsOK /\ MetadataOK /\ ProgressOK /\ SuccessOK

(* The inductive invariant of the campaign *)

\* The strategies whose mutants must not get past the header.
Doomed ==
  \/ strategy \in {"CorruptMagic", "CorruptVersion", "ExtremeTensorCount",
                   "ExtremeMetadataCount"}
  \/ strategy = "MangleStringLength" /\ out_buf.metadata + out_buf.tensors > 0

\* The mutated field, as the harness sees it.
MutantShape(b, s) ==
  /\ s = "CorruptMagic" => b.magic = FALSE
  /\ s = "CorruptVersion" => b.version \notin 1 .. 3
  /\ s = "ExtremeTensorCount" => b.tensors = HugeCount
  /\ s = "ExtremeMetadataCount" => b.metadata = HugeCount
  /\ s = "MangleStringLength" => b.first = HugeCount

\* A doomed mutant stops before its first pair or tensor, and no later than
\* the check of the field it mangles.
DoomedStops ==
  stage = "parsing" /\ Doomed =>
    /\ outcome # "Success" /\ pairs = 0 /\ m_tensors = << >>
    /\ strategy = "CorruptMagic" => pc \in {"magic", "idle"}
    /\ strategy = "CorruptVersion" => pc \in {"magic", "version", "idle"}
    /\ pc = "metadata" =>
         /\ strategy = "MangleStringLength" /\ m_cursor = 24
         /\ m_header.tensor_count = out_buf.tensors
         /\ m_header.metadata_kv_count = out_buf.metadata
    /\ out_buf.magic /\ strategy = "CorruptVersion" /\ pc = "idle" =>
         outcome = "ErrUnsupportedVersion"

GGUFInv ==
  /\ ParserInv
  /\ out_buf \in Buffers
  /\ strategy \in DOMAIN NeededSize \cup {"unchanged", "none"}
  /\ stage \in {"caller", "fuzzed", "parsing", "validated"}
  /\ MutantShape(out_buf, strategy)
  /\ stage = "fuzzed" => pc = "idle"
  /\ stage = "parsing" => size = out_buf.size /\ size >= 8
  /\ DoomedStops

-----------------------------------------------------------------------------
(* The folds over the dimensions *)

\* Products over the first indices, as validate_tensor_metadata computes them
\* and exactly.
Guarded(dims, F, s) == IF s = {} THEN 1 ELSE MulDim(F[s \ {Max(s)}], dims[Max(s)])
Exact(dims, F, s) == IF s = {} THEN 1 ELSE F[s \ {Max(s)}] * dims[Max(s)]

\* The guard n > SIZE_MAX / dim refuses exactly the products that do not fit:
\* a product that survives every guard is the true one.
LEMMA GuardedProduct ==
  ASSUME NEW dims \in Dims, FoldLeft(MulDim, 1, dims) # Overflow
  PROVE  /\ FoldLeft(MulDim, 1, dims) = Product(dims)
         /\ Product(dims) \in Nat
<1> DEFINE D == DOMAIN dims
           c == [s \in SUBSET D |-> Max(s)]
           gm == [x \in D |-> [v \in Int |-> MulDim(v, dims[x])]]
           ge == [x \in D |-> [v \in Int |-> v * dims[x]]]
           M == CHOOSE F : F = [s \in SUBSET D |-> Guarded(dims, F, s)]
           E == CHOOSE F : F = [s \in SUBSET D |-> Exact(dims, F, s)]
<1>1. FoldLeft(MulDim, 1, dims) = M[D]
  BY Zenon DEF FoldLeft, MapThenFoldSet, Guarded
<1>2. Product(dims) = E[D]
  BY Zenon DEF Product, FoldLeft, MapThenFoldSet, Exact
<1>3. /\ D = 1 .. Len(dims) /\ Len(dims) \in Nat /\ SizeMod \in Nat
      /\ \A x \in D : dims[x] \in 0 .. (SizeMod - 1)
  BY GGUFAssumption DEF Dims
<1>4. D \in SUBSET Int /\ IsFiniteSet(D)
  <2> HIDE DEF D
  <2> QED BY <1>3, FS_Interval
<1>5. Chooses(c, D)
  <2> HIDE DEF D
  <2> QED BY <1>4, MaxMin DEF Chooses
<1>6. gm \in [D -> [Int -> Int]] /\ ge \in [D -> [Int -> Int]]
  <2> SUFFICES ASSUME NEW x \in D, NEW v \in Int
               PROVE  MulDim(v, dims[x]) \in Int /\ v * dims[x] \in Int
    OBVIOUS
  <2> DEFINE d == dims[x]
             p == v * d
  <2>1. d \in Int
    BY <1>3
  <2>2. p \in Int
    <3> HIDE DEF d
    <3> QED BY <2>1
  <2>3. MulDim(v, d) \in {-1, p}
    BY Zenon DEF MulDim, Overflow
  <2> HIDE DEF p
  <2>4. MulDim(v, d) \in Int
    BY <2>2, <2>3
  <2> QED BY <2>2, <2>4 DEF p
<1> HIDE DEF D
<1>7. \E F : F = [s \in SUBSET D |-> Guarded(dims, F, s)]
  <2> HIDE DEF c, gm
  <2>1. PICK F \in [SUBSET D -> Int] : IsFold(F, D, 1, gm, c)
    <3> DEFINE V == Int
    <3>1. 1 \in V /\ gm \in [D -> [V -> V]]
      BY <1>6
    <3> HIDE DEF V
    <3>2. \E F \in [SUBSET D -> V] : IsFold(F, D, 1, gm, c)
      BY <1>4, <1>5, <3>1, FoldExists
    <3> QED BY <3>2 DEF V
  <2>2. ASSUME NEW s \in SUBSET D, s # {}
        PROVE  gm[c[s]][F[s \ {c[s]}]] = Guarded(dims, F, s)
    <3>1. c[s] = Max(s) /\ c[s] \in D
      BY <1>5, <2>2 DEF c, Chooses
    <3> QED BY <2>2, <3>1 DEF gm, Guarded
  <2>3. F = [s \in SUBSET D |-> Guarded(dims, F, s)]
    BY <2>1, <2>2 DEF IsFold, Guarded
  <2> QED BY <2>3
<1>8. \E F : F = [s \in SUBSET D |-> Exact(dims, F, s)]
  <2> HIDE DEF c, ge
  <2>1. PICK F \in [SUBSET D -> Int] : IsFold(F, D, 1, ge, c)
    <3> DEFINE V == Int
    <3>1. 1 \in V /\ ge \in [D -> [V -> V]]
      BY <1>6
    <3> HIDE DEF V
    <3>2. \E F \in [SUBSET D -> V] : IsFold(F, D, 1, ge, c)
      BY <1>4, <1>5, <3>1, FoldExists
    <3> QED BY <3>2 DEF V
  <2>2. ASSUME NEW s \in SUBSET D, s # {}
        PROVE  ge[c[s]][F[s \ {c[s]}]] = Exact(dims, F, s)
    <3>1. c[s] = Max(s) /\ c[s] \in D
      BY <1>5, <2>2 DEF c, Chooses
    <3> QED BY <2>2, <3>1 DEF ge, Exact
  <2>3. F = [s \in SUBSET D |-> Exact(dims, F, s)]
    BY <2>1, <2>2 DEF IsFold, Exact
  <2> QED BY <2>3
<1>9. M = [s \in SUBSET D |-> Guarded(dims, M, s)] /\ E = [s \in SUBSET D |-> Exact(dims, E, s)]
  BY <1>7, <1>8
<1> HIDE DEF M, E
<1> DEFINE Good == {s \in SUBSET D : /\ E[s] \in Nat
                                     /\ M[s] # Overflow => M[s] = E[s]}
<1>10. {} \in Good
  BY <1>9 DEF Guarded, Exact
<1>11. ASSUME NEW s \in SUBSET D, s # {}, s \ {c[s]} \in Good
       PROVE  s \in Good
  <2> DEFINE x == Max(s)
             t == s \ {x}
  <2>1. c[s] = x /\ x \in D
    BY <1>5, <1>11 DEF Chooses
  <2>2. M[s] = MulDim(M[t], dims[x]) /\ E[s] = E[t] * dims[x]
    BY <1>9, <1>11 DEF Guarded, Exact
  <2>3. E[t] \in Nat /\ (M[t] # Overflow => M[t] = E[t])
    BY <1>11, <2>1
  <2> HIDE DEF x, t
  <2>4. dims[x] \in Nat
    BY <1>3, <2>1
  <2>5. E[s] \in Nat
    BY <2>2, <2>3, <2>4
  <2>6. M[s] # Overflow => M[s] = E[s]
    BY <2>2, <2>3 DEF MulDim
  <2> QED BY <2>5, <2>6
<1>12. \A s \in SUBSET D : s \in Good
  <2> HIDE DEF c, Good
  <2> QED BY <1>4, <1>5, <1>10, <1>11, SetInduction
<1>13. D \in SUBSET D
  OBVIOUS
<1> QED BY <1>1, <1>2, <1>12, <1>13

\* The size validate_tensor_metadata stores for a tensor it accepts.
LEMMA AcceptedBytes ==
  ASSUME NEW dims \in Dims, calculated_bytes(dims) # Overflow
  PROVE  calculated_bytes(dims) = 4 * Product(dims)
BY GuardedProduct DEF calculated_bytes

-----------------------------------------------------------------------------
(* Reads *)

\* read_pod leaves the cursor inside the buffer, whether it throws or not.
LEMMA PodRead ==
  ASSUME NEW c \in 0 .. size, size \in Nat, NEW bytes \in Nat
  PROVE  /\ read_pod(c, bytes).at \in c .. size
         /\ read_pod(c, bytes).ok \in BOOLEAN
         /\ read_pod(c, bytes).ok <=> c + bytes <= size
         /\ read_pod(c, bytes).ok => read_pod(c, bytes).at = c + bytes
BY DEF read_pod

\* read_string: the length field is consumed even when the string is refused.
LEMMA StringRead ==
  ASSUME NEW c \in 0 .. size, size \in Nat, NEW len \in Nat
  PROVE  /\ read_string(c, len).at \in c .. size
         /\ read_string(c, len).ok \in BOOLEAN
         /\ read_string(c, len).ok => read_string(c, len).at >= c + 8 /\ len <= MaxString
<1> DEFINE p == read_pod(c, 8)
<1>1. p.at \in c .. size /\ p.ok \in BOOLEAN /\ (p.ok => p.at = c + 8)
  BY PodRead
<1> HIDE DEF p
<1>2. read_string(c, len) =
        IF ~p.ok \/ len > MaxString \/ p.at + len > size THEN [ok |-> FALSE, at |-> p.at]
        ELSE [ok |-> TRUE, at |-> p.at + len]
  BY DEF read_string, p
<1>3. MaxString \in Nat
  BY GGUFAssumption
<1> QED BY <1>1, <1>2, <1>3

\* A metadata value of any type the code reads.
LEMMA ValueRead ==
  ASSUME NEW c \in 0 .. size, size \in Nat, NEW len \in Nat, NEW type \in 0 .. 12
  PROVE  read_value(c, type, len).at \in c .. size
<1>1. CASE type = 8
  BY <1>1, StringRead DEF read_value
<1>2. CASE type = 9
  BY <1>2 DEF read_value
<1>3. CASE type \notin {8, 9}
  <2>1. value_bytes(type) \in Nat
    BY <1>3 DEF value_bytes
  <2>2. read_value(c, type, len) = read_pod(c, value_bytes(type))
    BY <1>3 DEF read_value
  <2> QED BY <2>1, <2>2, PodRead
<1> QED BY <1>1, <1>2, <1>3

\* The loop over the dimensions stops inside the buffer.
LEMMA DimsRead ==
  ASSUME NEW c \in 0 .. size, size \in Nat, NEW n \in Nat
  PROVE  /\ read_dims(c, n).at \in c .. size
         /\ read_dims(c, n).ok \in BOOLEAN
<1>1. 8 * n \in Nat /\ 8 * ((size - c) \div 8) \in 0 .. (size - c)
  OBVIOUS
<1>2. read_pod(c, 8 * n).ok \in BOOLEAN /\ (read_pod(c, 8 * n).ok => c + 8 * n <= size)
  BY <1>1, PodRead
<1> QED BY <1>1, <1>2 DEF read_dims

-----------------------------------------------------------------------------
(* The steps of parse *)

\* An error status or an exception keeps what was read so far.
LEMMA FailsKeeps ==
  ASSUME ParserInv, NEW status \in {"ErrOutOfBoundsRead", "ErrInvalidMagic",
                                    "ErrUnsupportedVersion", "ErrMalformedHeader"},
         NEW c \in 0 .. size, Fails(status, c)
  PROVE  ParserInv'
BY DEF Fails, ParserInv, HeaderOK, TensorsOK, MetadataOK, ProgressOK, SuccessOK

\* parse and reset start from an empty object.
LEMMA ClearedKeeps ==
  ASSUME Cleared, size' \in Nat, outcome' # "Success",
         \/ pc' = "idle"
         \/ pc' = "magic" /\ outcome' = "running"
  PROVE  ParserInv'
<1>1. HeaderOK' /\ m_cursor' \in 0 .. size'
  BY DEF Cleared, HeaderOK, NoHeader
<1>2. TensorsOK'
  BY DEF Cleared, TensorsOK
<1>3. MetadataOK'
  <2>1. DOMAIN NoMetadata = {}
    BY DEF NoMetadata
  <2> QED BY <2>1, FS_EmptySet DEF Cleared, MetadataOK
<1>4. ProgressOK' /\ SuccessOK'
  BY DEF Cleared, ProgressOK, SuccessOK
<1> QED BY <1>1, <1>2, <1>3, <1>4 DEF ParserInv

\* The magic number, at offset 0.
LEMMA MagicKeeps == ParserInv /\ ReadMagic => ParserInv'
<1> SUFFICES ASSUME ParserInv, ReadMagic PROVE ParserInv'
  OBVIOUS
<1> DEFINE p == read_pod(m_cursor, 4)
<1>1. p.at \in m_cursor .. size /\ p.ok \in BOOLEAN /\ (p.ok => p.at = m_cursor + 4)
  BY PodRead DEF ParserInv
<1>2. p.at \in 0 .. size
  BY <1>1 DEF ParserInv
<1>3. ReadMagic =>
        \/ Fails("ErrOutOfBoundsRead", p.at)
        \/ Fails("ErrInvalidMagic", p.at)
        \/ /\ p.ok /\ m_cursor' = p.at /\ pc' = "version" /\ pc = "magic"
           /\ UNCHANGED << size, m_header, m_metadata, m_tensors, pairs, outcome >>
  BY DEF ReadMagic
<1> HIDE DEF p
<1>4. CASE /\ p.ok /\ m_cursor' = p.at /\ pc' = "version" /\ pc = "magic"
           /\ UNCHANGED << size, m_header, m_metadata, m_tensors, pairs, outcome >>
  BY <1>1, <1>2, <1>4 DEF ParserInv, HeaderOK, TensorsOK, MetadataOK, ProgressOK, SuccessOK
<1> QED BY <1>2, <1>3, <1>4, FailsKeeps

\* The version, at offset 4.
LEMMA VersionKeeps ==
  ASSUME NEW version, ParserInv, ReadVersion(version)
  PROVE  ParserInv'
<1> DEFINE p == read_pod(m_cursor, 4)
<1>1. p.at \in m_cursor .. size /\ p.ok \in BOOLEAN /\ (p.ok => p.at = m_cursor + 4)
  BY PodRead DEF ParserInv
<1>2. p.at \in 0 .. size
  BY <1>1 DEF ParserInv
<1>3. \/ Fails("ErrOutOfBoundsRead", p.at)
      \/ Fails("ErrUnsupportedVersion", p.at)
      \/ /\ p.ok /\ version \in 1 .. 3 /\ pc = "version"
         /\ m_cursor' = p.at /\ pc' = "counts"
         /\ m_header' = [m_header EXCEPT !.version = version]
         /\ UNCHANGED << size, m_metadata, m_tensors, pairs, outcome >>
  BY DEF ReadVersion
<1> HIDE DEF p
<1>4. CASE /\ p.ok /\ version \in 1 .. 3 /\ pc = "version"
           /\ m_cursor' = p.at /\ pc' = "counts"
           /\ m_header' = [m_header EXCEPT !.version = version]
           /\ UNCHANGED << size, m_metadata, m_tensors, pairs, outcome >>
  BY <1>1, <1>2, <1>4 DEF ParserInv, HeaderOK, TensorsOK, MetadataOK, ProgressOK, SuccessOK
<1> QED BY <1>2, <1>3, <1>4, FailsKeeps

\* The two counts, at offsets 8 and 16, and the caps on both.
LEMMA CountsKeep ==
  ASSUME NEW t \in Nat, NEW m \in Nat, ParserInv, ReadCounts(t, m)
  PROVE  ParserInv'
<1> DEFINE p == read_pod(m_cursor, 8)
           q == read_pod(p.at, 8)
           h == [m_header EXCEPT !.tensor_count = t]
<1>1. p.at \in m_cursor .. size /\ p.ok \in BOOLEAN /\ (p.ok => p.at = m_cursor + 8)
  BY PodRead DEF ParserInv
<1>2. p.at \in 0 .. size
  BY <1>1 DEF ParserInv
<1>3. q.at \in p.at .. size /\ q.ok \in BOOLEAN /\ (q.ok => q.at = p.at + 8)
  <2> HIDE DEF p
  <2> QED BY <1>2, PodRead DEF ParserInv
<1>4. q.at \in 0 .. size
  BY <1>2, <1>3 DEF ParserInv
<1>5. CASE Fails("ErrOutOfBoundsRead", p.at)
  BY <1>2, <1>5, FailsKeeps
<1>6. CASE /\ p.ok /\ pc = "counts"
           /\ m_header' = IF q.ok THEN [h EXCEPT !.metadata_kv_count = m] ELSE h
           /\ m_cursor' = q.at
           /\ \/ pc' = "idle" /\ outcome' \in {"ErrOutOfBoundsRead", "ErrMalformedHeader"}
              \/ q.ok /\ pc' = "metadata" /\ UNCHANGED outcome
           /\ UNCHANGED << size, m_metadata, m_tensors, pairs >>
  <2> HIDE DEF p, q
  <2>1. /\ HeaderOK' /\ m_header'.version = m_header.version
    BY <1>6 DEF ParserInv, HeaderOK
  <2>2. m_cursor' \in 0 .. size' /\ size' \in Nat
    BY <1>4, <1>6 DEF ParserInv
  <2>3. TensorsOK' /\ MetadataOK'
    BY <1>6 DEF ParserInv, TensorsOK, MetadataOK
  <2>4. ProgressOK'
    <3>1. CASE pc' = "idle"
      BY <3>1 DEF ProgressOK
    <3>2. CASE q.ok /\ pc' = "metadata" /\ UNCHANGED outcome
      <4>1. m_cursor = 8 /\ m_cursor' = 24 /\ pairs' = 0 /\ m_tensors' = << >>
            /\ outcome' = "running" /\ m_header.version \in 1 .. 3
        BY <1>1, <1>3, <1>6, <3>2 DEF ParserInv, ProgressOK
      <4>2. pairs' <= m_header'.metadata_kv_count /\ Len(m_tensors') <= m_header'.tensor_count
        BY <2>1, <4>1 DEF HeaderOK
      <4> QED BY <2>1, <3>2, <4>1, <4>2 DEF ProgressOK
    <3> QED BY <1>6, <3>1, <3>2
  <2>5. outcome' # "Success"
    BY <1>6 DEF ParserInv, ProgressOK
  <2> QED BY <2>1, <2>2, <2>3, <2>4, <2>5 DEF ParserInv, SuccessOK
<1>7. \/ Fails("ErrOutOfBoundsRead", p.at)
      \/ /\ p.ok /\ pc = "counts"
         /\ m_header' = IF q.ok THEN [h EXCEPT !.metadata_kv_count = m] ELSE h
         /\ m_cursor' = q.at
         /\ \/ pc' = "idle" /\ outcome' \in {"ErrOutOfBoundsRead", "ErrMalformedHeader"}
            \/ q.ok /\ pc' = "metadata" /\ UNCHANGED outcome
         /\ UNCHANGED << size, m_metadata, m_tensors, pairs >>
  BY DEF ReadCounts
<1> QED BY <1>5, <1>6, <1>7

\* One metadata pair: a key that is already there is overwritten, so the map
\* may grow more slowly than the count.
LEMMA PairKeeps ==
  ASSUME NEW key, NEW key_len \in Nat, NEW type \in Nat, NEW len \in Nat,
         ParserInv, ReadPair(key, key_len, type, len)
  PROVE  /\ ParserInv'
         /\ pc' = "idle" => outcome' # "Success"
         /\ key_len > MaxString => pc' = "idle" /\ UNCHANGED << pairs, m_tensors >>
<1> DEFINE k == read_string(m_cursor, key_len)
           t == read_pod(k.at, 4)
           v == read_value(t.at, type, len)
<1>1. k.at \in m_cursor .. size /\ k.ok \in BOOLEAN
      /\ (k.ok => k.at >= m_cursor + 8 /\ key_len <= MaxString)
  BY StringRead DEF ParserInv
<1>2. k.at \in 0 .. size /\ size \in Nat /\ m_cursor \in 0 .. size /\ MaxString \in Nat
  BY <1>1, GGUFAssumption DEF ParserInv
<1>3. t.at \in k.at .. size /\ t.ok \in BOOLEAN
  <2> HIDE DEF k
  <2> QED BY <1>2, PodRead
<1>4. t.at \in 0 .. size
  BY <1>2, <1>3
<1>5. type <= 12 => v.at \in t.at .. size
  <2> SUFFICES ASSUME type <= 12 PROVE v.at \in t.at .. size
    OBVIOUS
  <2>1. type \in 0 .. 12
    OBVIOUS
  <2> HIDE DEF t
  <2> QED BY <1>2, <1>4, <2>1, ValueRead
<1>6. type <= 12 => v.at \in 0 .. size
  BY <1>2, <1>4, <1>5
<1>7. /\ pc = "metadata" /\ pairs < m_header.metadata_kv_count
      /\ \/ Fails("ErrMalformedHeader", k.at)
         \/ Fails("ErrMalformedHeader", t.at)
         \/ type <= 12 /\ Fails("ErrMalformedHeader", v.at)
         \/ /\ type <= 12 /\ k.ok
            /\ m_cursor' = v.at /\ pairs' = pairs + 1
            /\ m_metadata' = [x \in DOMAIN m_metadata \cup {key} |->
                                IF x = key THEN type ELSE m_metadata[x]]
            /\ UNCHANGED << size, m_header, m_tensors, pc, outcome >>
  BY DEF ReadPair
<1> HIDE DEF k, t, v
<1>8. ASSUME NEW c \in 0 .. size, Fails("ErrMalformedHeader", c)
      PROVE  ParserInv' /\ outcome' # "Success" /\ pc' = "idle"
             /\ UNCHANGED << pairs, m_tensors >>
  BY <1>8, FailsKeeps DEF Fails
<1>9. CASE /\ type <= 12 /\ k.ok
           /\ m_cursor' = v.at /\ pairs' = pairs + 1
           /\ m_metadata' = [x \in DOMAIN m_metadata \cup {key} |->
                               IF x = key THEN type ELSE m_metadata[x]]
           /\ UNCHANGED << size, m_header, m_tensors, pc, outcome >>
  <2>1. HeaderOK' /\ TensorsOK' /\ m_cursor' \in 0 .. size' /\ size' \in Nat
    BY <1>2, <1>6, <1>9 DEF ParserInv, HeaderOK, TensorsOK
  <2>2. MetadataOK'
    <3>1. /\ pairs \in Nat /\ IsFiniteSet(DOMAIN m_metadata)
          /\ Cardinality(DOMAIN m_metadata) <= pairs
      BY DEF ParserInv, MetadataOK
    <3>2. Cardinality(DOMAIN m_metadata) \in Nat
      BY <3>1, FS_CardinalityType
    <3>3. /\ IsFiniteSet(DOMAIN m_metadata \cup {key})
          /\ Cardinality(DOMAIN m_metadata \cup {key}) \in Nat
          /\ Cardinality(DOMAIN m_metadata \cup {key}) <= Cardinality(DOMAIN m_metadata) + 1
      <4> DEFINE S == DOMAIN m_metadata
      <4>1. IsFiniteSet(S) /\ Cardinality(S) \in Nat
        BY <3>1, <3>2
      <4> HIDE DEF S
      <4>2. /\ IsFiniteSet(S \cup {key})
            /\ Cardinality(S \cup {key}) =
                 IF key \in S THEN Cardinality(S) ELSE Cardinality(S) + 1
        BY <4>1, FS_AddElement
      <4>3. /\ IsFiniteSet(S \cup {key}) /\ Cardinality(S \cup {key}) \in Nat
            /\ Cardinality(S \cup {key}) <= Cardinality(S) + 1
        BY <4>1, <4>2
      <4> QED BY <4>3 DEF S
    <3>4. DOMAIN m_metadata' = DOMAIN m_metadata \cup {key}
      BY <1>9
    <3> HIDE <1>9
    <3> QED BY <3>1, <3>2, <3>3, <3>4, <1>9 DEF MetadataOK
  <2>3. ProgressOK'
    <3>1. v.at \in Nat /\ v.at >= 24 /\ pairs' > 0
      BY <1>1, <1>2, <1>3, <1>4, <1>5, <1>7, <1>9
         DEF ParserInv, ProgressOK, MetadataOK
    <3>2. pairs' <= m_header.metadata_kv_count
      BY <1>7, <1>9 DEF ParserInv, HeaderOK, MetadataOK
    <3> QED BY <1>7, <1>9, <3>1, <3>2 DEF ParserInv, ProgressOK
  <2>4. outcome' # "Success" /\ pc' # "idle"
    BY <1>7, <1>9 DEF ParserInv, ProgressOK
  <2>5. key_len <= MaxString
    BY <1>1, <1>9
  <2> QED BY <1>2, <2>1, <2>2, <2>3, <2>4, <2>5 DEF ParserInv, SuccessOK
<1> QED BY <1>2, <1>4, <1>6, <1>7, <1>8, <1>9

\* One tensor descriptor: it is appended only when all its fields were read.
LEMMA TensorKeeps ==
  ASSUME NEW name_len \in Nat, NEW shape \in Shapes, NEW offset \in Offsets,
         ParserInv, ReadTensor(name_len, shape, offset)
  PROVE  /\ ParserInv'
         /\ pc' = "idle" => outcome' # "Success"
         /\ name_len > MaxString => pc' = "idle" /\ UNCHANGED << pairs, m_tensors >>
<1> DEFINE s == read_string(m_cursor, name_len)
           n == read_pod(s.at, 4)
           d == read_dims(n.at, Len(shape))
           t == read_pod(d.at, 4)
           o == read_pod(t.at, 8)
           e == [dims |-> shape, offset |-> offset, calculated_bytes |-> 0]
<1>1. s.at \in m_cursor .. size /\ s.ok \in BOOLEAN
      /\ (s.ok => s.at >= m_cursor + 8 /\ name_len <= MaxString)
  BY StringRead DEF ParserInv
<1>2. s.at \in 0 .. size /\ size \in Nat /\ m_cursor \in 0 .. size /\ MaxString \in Nat
  BY <1>1, GGUFAssumption DEF ParserInv
<1>3. n.at \in s.at .. size
  <2> HIDE DEF s
  <2> QED BY <1>2, PodRead
<1>4. n.at \in 0 .. size
  BY <1>2, <1>3
<1>5. d.at \in n.at .. size
  <2>1. Len(shape) \in Nat
    BY GGUFAssumption
  <2> HIDE DEF n
  <2> QED BY <1>2, <1>4, <2>1, DimsRead
<1>6. d.at \in 0 .. size
  BY <1>2, <1>4, <1>5
<1>7. t.at \in d.at .. size
  <2> HIDE DEF d
  <2> QED BY <1>2, <1>6, PodRead
<1>8. t.at \in 0 .. size
  BY <1>2, <1>6, <1>7
<1>9. o.at \in t.at .. size
  <2> HIDE DEF t
  <2> QED BY <1>2, <1>8, PodRead
<1>10. o.at \in 0 .. size
  BY <1>2, <1>8, <1>9
<1>11. /\ pc = "metadata" /\ pairs = m_header.metadata_kv_count
       /\ Len(m_tensors) < m_header.tensor_count
       /\ \/ Fails("ErrMalformedHeader", s.at)
          \/ Fails("ErrMalformedHeader", n.at)
          \/ Fails("ErrOutOfBoundsRead", d.at)
          \/ Fails("ErrOutOfBoundsRead", t.at)
          \/ Fails("ErrOutOfBoundsRead", o.at)
          \/ /\ s.ok /\ m_cursor' = o.at /\ m_tensors' = Append(m_tensors, e)
             /\ UNCHANGED << size, m_header, m_metadata, pairs, pc, outcome >>
  BY Zenon DEF ReadTensor
<1> HIDE DEF s, n, d, t, o
<1>12. ASSUME NEW c \in 0 .. size,
              Fails("ErrMalformedHeader", c) \/ Fails("ErrOutOfBoundsRead", c)
       PROVE  ParserInv' /\ outcome' # "Success" /\ pc' = "idle"
              /\ UNCHANGED << pairs, m_tensors >>
  BY <1>12, FailsKeeps DEF Fails
<1>13. CASE /\ s.ok /\ m_cursor' = o.at /\ m_tensors' = Append(m_tensors, e)
            /\ UNCHANGED << size, m_header, m_metadata, pairs, pc, outcome >>
  <2> DEFINE R == [dims : Shapes, offset : Offsets, calculated_bytes : Int]
  <2>1. HeaderOK' /\ MetadataOK' /\ m_cursor' \in 0 .. size' /\ size' \in Nat
    BY <1>2, <1>10, <1>13 DEF ParserInv, HeaderOK, MetadataOK
  <2>2. /\ m_tensors' \in Seq(R) /\ m_tensors' # << >>
        /\ Len(m_tensors') = Len(m_tensors) + 1 /\ Len(m_tensors) \in Nat
    <3>1. m_tensors \in Seq(R) /\ e \in R
      BY DEF ParserInv, TensorsOK
    <3> HIDE DEF R, e
    <3> QED BY <1>13, <3>1
  <2>3. ProgressOK'
    <3>1. o.at \in Nat /\ o.at >= 24
      BY <1>1, <1>2, <1>3, <1>4, <1>5, <1>6, <1>7, <1>8, <1>9, <1>10, <1>11, <1>13
         DEF ParserInv, ProgressOK
    <3>2. Len(m_tensors') <= m_header.tensor_count
      BY <1>11, <2>2 DEF ParserInv, HeaderOK
    <3> QED BY <1>11, <1>13, <2>2, <3>1, <3>2 DEF ParserInv, ProgressOK
  <2>4. outcome' # "Success" /\ pc' # "idle"
    BY <1>11, <1>13 DEF ParserInv, ProgressOK
  <2>5. name_len <= MaxString
    BY <1>1, <1>13
  <2> QED BY <1>2, <2>1, <2>2, <2>3, <2>4, <2>5 DEF ParserInv, SuccessOK, TensorsOK
<1> QED BY <1>2, <1>4, <1>6, <1>8, <1>10, <1>11, <1>12, <1>13

\* validate_tensor_metadata on the descriptors of a complete parse.
LEMMA ValidateKeeps ==
  ASSUME ParserInv, validate_tensor_metadata(m_tensors),
         UNCHANGED << size, m_cursor, m_header, m_metadata, pairs >>, pc' = "idle",
         m_header.version \in 1 .. 3, pairs = m_header.metadata_kv_count,
         Len(m_tensors) = m_header.tensor_count
  PROVE  ParserInv'
<1> DEFINE R == [dims : Shapes, offset : Offsets, calculated_bytes : Int]
           n == Len(m_tensors)
<1>1. m_tensors \in Seq(R) /\ n \in Nat /\ DOMAIN m_tensors = 1 .. n
  BY DEF ParserInv, TensorsOK
<1>2. \A k \in 1 .. n : /\ calculated_bytes(m_tensors[k].dims) \in Int
                        /\ m_tensors[k].dims \in Dims
  <2> SUFFICES ASSUME NEW k \in 1 .. n
               PROVE  /\ calculated_bytes(m_tensors[k].dims) \in Int
                      /\ m_tensors[k].dims \in Dims
    OBVIOUS
  <2>1. m_tensors[k].dims \in Dims
    <3>1. m_tensors[k] \in R
      <4> HIDE DEF R
      <4> QED BY <1>1
    <3> QED BY <3>1, GGUFAssumption DEF Dims
  <2>2. ASSUME NEW dims \in Dims PROVE calculated_bytes(dims) \in Int
    <3>1. CASE calculated_bytes(dims) = Overflow
      BY <3>1 DEF Overflow
    <3>2. CASE calculated_bytes(dims) # Overflow
      <4>1. calculated_bytes(dims) = FoldLeft(MulDim, 1, dims) * 4
            /\ FoldLeft(MulDim, 1, dims) # Overflow
        BY <3>2 DEF calculated_bytes
      <4>2. FoldLeft(MulDim, 1, dims) \in Nat
        BY <4>1, GuardedProduct
      <4> HIDE DEF calculated_bytes
      <4> QED BY <4>1, <4>2
    <3> QED BY <3>1, <3>2
  <2> QED BY <2>1, <2>2
<1>3. /\ m_tensors' = Validated(m_tensors)
      /\ outcome' = IF Rejected(m_tensors) = {} THEN "Success" ELSE "ErrIntegerOverflow"
  BY DEF validate_tensor_metadata
<1>4. ASSUME NEW k \in 1 .. n
      PROVE  /\ Validated(m_tensors)[k] \in R
             /\ Rejected(m_tensors) = {} =>
                  /\ Validated(m_tensors)[k].dims = m_tensors[k].dims
                  /\ Validated(m_tensors)[k].calculated_bytes
                       = calculated_bytes(m_tensors[k].dims)
  <2> DEFINE r == m_tensors[k]
             b == calculated_bytes(r.dims)
  <2>1. r \in R /\ b \in Int
    <3> HIDE DEF R
    <3> QED BY <1>1, <1>2
  <2>2. Validated(m_tensors)[k] = IF \E j \in Rejected(m_tensors) : j <= k THEN r
                                  ELSE [r EXCEPT !.calculated_bytes = b]
    BY <1>1 DEF Validated
  <2> HIDE DEF r, b
  <2>3. LET u == [r EXCEPT !.calculated_bytes = b]
        IN  u \in R /\ u.dims = r.dims /\ u.calculated_bytes = b
    BY <2>1
  <2> QED BY <2>1, <2>2, <2>3 DEF r, b
<1>5. m_tensors' \in Seq(R) /\ Len(m_tensors') = n
  <2>1. DOMAIN Validated(m_tensors) = 1 .. n
        /\ Validated(m_tensors) = [k \in 1 .. n |-> Validated(m_tensors)[k]]
    BY <1>1 DEF Validated
  <2> DEFINE V == Validated(m_tensors)
  <2> HIDE DEF V, R, n
  <2>2. V = [k \in 1 .. n |-> V[k]] /\ \A k \in 1 .. n : V[k] \in R
    BY <1>4, <2>1 DEF V
  <2>3. V \in Seq(R) /\ Len(V) = n
    BY <1>1, <2>2
  <2> QED BY <1>3, <2>3 DEF V
<1>6. SuccessOK'
  <2> SUFFICES ASSUME outcome' = "Success"
               PROVE  \A k \in 1 .. Len(m_tensors') :
                        /\ calculated_bytes(m_tensors'[k].dims) # Overflow
                        /\ m_tensors'[k].calculated_bytes
                             = calculated_bytes(m_tensors'[k].dims)
    BY <1>5 DEF SuccessOK
  <2>1. Rejected(m_tensors) = {}
    BY <1>3
  <2>2. \A k \in 1 .. n : calculated_bytes(m_tensors[k].dims) # Overflow
    BY <1>1, <2>1 DEF Rejected
  <2> QED BY <1>3, <1>4, <1>5, <2>1, <2>2
<1>7. ProgressOK'
  BY DEF ProgressOK
<1> HIDE DEF R
<1>8. size' \in Nat /\ m_cursor' \in 0 .. size' /\ HeaderOK' /\ MetadataOK'
  BY DEF ParserInv, HeaderOK, MetadataOK
<1> QED BY <1>5, <1>6, <1>7, <1>8 DEF ParserInv, TensorsOK, R

\* The last step of parse.
LEMMA FinishKeeps == ParserInv /\ FinishParse => ParserInv'
<1> SUFFICES ASSUME ParserInv, FinishParse PROVE ParserInv'
  OBVIOUS
<1>1. m_header.version \in 1 .. 3 /\ Len(m_tensors) = m_header.tensor_count
  <2>1. Len(m_tensors) \in Nat /\ m_header.tensor_count \in Nat
    BY DEF ParserInv, TensorsOK, HeaderOK
  <2> QED BY <2>1 DEF FinishParse, ParserInv, ProgressOK
<1> QED BY <1>1, ValidateKeeps DEF FinishParse

\* The harness's second validation.
LEMMA RevalidateKeeps == ParserInv /\ Revalidate => ParserInv'
<1> SUFFICES ASSUME ParserInv, Revalidate PROVE ParserInv'
  OBVIOUS
<1>1. /\ m_header.version \in 1 .. 3 /\ pairs = m_header.metadata_kv_count
      /\ Len(m_tensors) = m_header.tensor_count
  BY DEF Revalidate, ParserInv, SuccessOK
<1> QED BY <1>1, ValidateKeeps DEF Revalidate

\* Every operation of the object keeps the invariant.
LEMMA ParserStep == ParserInv /\ Next => ParserInv'
<1> SUFFICES ASSUME ParserInv, Next PROVE ParserInv'
  OBVIOUS
<1>1. ASSUME NEW n \in BufferSizes, Parse(n) PROVE ParserInv'
  <2>1. n \in Nat
    BY GGUFAssumption
  <2> QED BY <1>1, <2>1, ClearedKeeps DEF Parse
<1>2. CASE Reset
  BY <1>2, ClearedKeeps DEF Reset
<1>3. ASSUME ParseStep PROVE ParserInv'
  <2>1. /\ Counts \subseteq Nat /\ StringLengths \subseteq Nat /\ ValueTypes \subseteq Nat
    BY GGUFAssumption
  <2> QED BY <1>3, <2>1, MagicKeeps, VersionKeeps, CountsKeep, PairKeeps, TensorKeeps,
             FinishKeeps DEF ParseStep
<1> QED BY <1>1, <1>2, <1>3, RevalidateKeeps DEF Next

-----------------------------------------------------------------------------
(* The campaign *)

StrategyNames == {"CorruptMagic", "CorruptVersion", "ExtremeTensorCount",
                  "ExtremeMetadataCount", "MangleStringLength", "BitFlipPayload"}

\* Overwriting a field of an input keeps the others.
LEMMA BufferUpdates ==
  ASSUME NEW b \in Buffers, NEW v \in Nat
  PROVE  /\ [b EXCEPT !.magic = FALSE] \in Buffers
         /\ [b EXCEPT !.version = v] \in Buffers
         /\ [b EXCEPT !.tensors = v] \in Buffers
         /\ [b EXCEPT !.metadata = v] \in Buffers
         /\ [b EXCEPT !.first = v] \in Buffers
BY DEF Buffers

\* A truncated input keeps the fields of the header.
LEMMA TruncatedKeeps ==
  ASSUME NEW b \in Buffers, NEW n \in Nat
  PROVE  LET m == Truncated(b, n) IN
         /\ m \in Buffers /\ m.magic = b.magic /\ m.version = b.version
         /\ m.tensors = b.tensors /\ m.metadata = b.metadata /\ m.first = b.first
BY DEF Truncated, Buffers

\* Whatever the seed and wherever max_size cuts, the mutant carries the value
\* its strategy plants.
LEMMA MutantMade ==
  ASSUME NEW seed \in Seeds, NEW s \in DOMAIN NeededSize, NEW n \in MaxSizes,
         NEW b \in Mutations(seed)[s]
  PROVE  Truncated(b, n) \in Buffers /\ MutantShape(Truncated(b, n), s)
<1>1. seed \in Buffers /\ n \in Nat
  BY CampaignAssumption DEF Buffers
<1>2. HugeCount \in Nat /\ 0 \in Nat /\ 9999 \in Nat /\ StringLengths \subseteq Nat
  BY GGUFAssumption DEF HugeCount
<1>3. s \in StrategyNames
  BY DEF NeededSize, StrategyNames
<1>4. b \in Buffers /\ MutantShape(b, s)
  <2>1. CASE s = "CorruptMagic"
    <3>1. b = [seed EXCEPT !.magic = FALSE]
      BY <2>1 DEF Mutations
    <3>2. [seed EXCEPT !.magic = FALSE] \in Buffers
      BY <1>1, BufferUpdates, 0 \in Nat
    <3>3. b.magic = FALSE
      BY <1>1, <3>1 DEF Buffers
    <3> QED BY <2>1, <3>1, <3>2, <3>3 DEF MutantShape
  <2>2. CASE s = "CorruptVersion"
    <3>1. PICK v \in {0, 9999} : b = [seed EXCEPT !.version = v]
      BY <2>2 DEF Mutations
    <3>2. v \in Nat /\ v \notin 1 .. 3
      OBVIOUS
    <3> QED BY <1>1, <2>2, <3>1, <3>2, BufferUpdates DEF MutantShape, Buffers
  <2>3. CASE s = "ExtremeTensorCount"
    <3>1. b = [seed EXCEPT !.tensors = HugeCount]
      BY <2>3 DEF Mutations
    <3> QED BY <1>1, <1>2, <2>3, <3>1, BufferUpdates DEF MutantShape, Buffers
  <2>4. CASE s = "ExtremeMetadataCount"
    <3>1. b = [seed EXCEPT !.metadata = HugeCount]
      BY <2>4 DEF Mutations
    <3> QED BY <1>1, <1>2, <2>4, <3>1, BufferUpdates DEF MutantShape, Buffers
  <2>5. CASE s = "MangleStringLength"
    <3>1. b = [seed EXCEPT !.first = HugeCount]
      BY <2>5 DEF Mutations
    <3> QED BY <1>1, <1>2, <2>5, <3>1, BufferUpdates DEF MutantShape, Buffers
  <2>6. CASE s = "BitFlipPayload"
    <3>1. PICK l \in StringLengths : b = [seed EXCEPT !.first = l]
      BY <2>6 DEF Mutations
    <3>2. l \in Nat
      BY <1>2
    <3>3. [seed EXCEPT !.first = l] \in Buffers
      BY <1>1, <3>2, BufferUpdates
    <3> QED BY <2>6, <3>1, <3>3 DEF MutantShape
  <2> QED BY <1>3, <2>1, <2>2, <2>3, <2>4, <2>5, <2>6 DEF StrategyNames
<1> QED BY <1>1, <1>4, TruncatedKeeps DEF MutantShape

\* A step of the parser on a doomed mutant: each check is reached with the
\* cursor where the mutator wrote, and refuses.
LEMMA DoomedStep ==
  ASSUME GGUFInv, HarnessReads, Doomed
  PROVE  DoomedStops'
<1>1. /\ stage = "parsing" /\ UNCHANGED << out_buf, strategy, stage >>
  BY DEF HarnessReads, afl
<1>2. /\ ParserInv /\ out_buf \in Buffers /\ MutantShape(out_buf, strategy)
      /\ size = out_buf.size /\ size >= 8
      /\ outcome # "Success" /\ pairs = 0 /\ m_tensors = << >>
      /\ strategy = "CorruptMagic" => pc \in {"magic", "idle"}
      /\ strategy = "CorruptVersion" => pc \in {"magic", "version", "idle"}
      /\ pc = "metadata" =>
           /\ strategy = "MangleStringLength" /\ m_cursor = 24
           /\ m_header.tensor_count = out_buf.tensors
           /\ m_header.metadata_kv_count = out_buf.metadata
  BY <1>1 DEF GGUFInv, DoomedStops
<1>3. size \in Nat /\ m_cursor \in 0 .. size /\ ProgressOK
  BY <1>2 DEF ParserInv
<1>4. /\ HugeCount > MaxTensors /\ HugeCount > MaxMetadata /\ HugeCount > MaxString
  BY GGUFAssumption, CampaignAssumption DEF HugeCount
<1>5. CASE ReadMagic /\ (outcome' = "ErrInvalidMagic" <=> ~out_buf.magic)
  <2>1. read_pod(m_cursor, 4).ok
    BY <1>2, <1>3, <1>5, PodRead DEF ReadMagic, ProgressOK
  <2>2. CASE Fails("ErrInvalidMagic", read_pod(m_cursor, 4).at)
    BY <1>1, <1>2, <1>5, <2>2 DEF Fails, DoomedStops
  <2>3. CASE /\ pc' = "version" /\ UNCHANGED << m_tensors, pairs, outcome >>
    <3>1. outcome = "running"
      BY <1>3, <1>5 DEF ReadMagic, ProgressOK
    <3>2. out_buf.magic
      BY <1>5, <2>3, <3>1
    <3> QED BY <1>1, <1>2, <2>3, <3>1, <3>2 DEF DoomedStops, MutantShape
  <2> QED BY <1>5, <2>1, <2>2, <2>3 DEF ReadMagic
<1>6. CASE ReadVersion(out_buf.version)
  <2>0. pc = "version" /\ strategy # "CorruptMagic"
    BY <1>2, <1>6 DEF ReadVersion
  <2>1. read_pod(m_cursor, 4).ok
    BY <1>2, <1>3, <2>0, PodRead DEF ProgressOK
  <2>2. CASE Fails("ErrUnsupportedVersion", read_pod(m_cursor, 4).at)
    BY <1>1, <1>2, <2>0, <2>2 DEF Fails, DoomedStops
  <2>3. CASE /\ out_buf.version \in 1 .. 3
             /\ pc' = "counts" /\ UNCHANGED << m_tensors, pairs, outcome >>
    <3>1. strategy # "CorruptVersion"
      BY <1>2, <2>3 DEF MutantShape
    <3> QED BY <1>1, <1>2, <2>0, <2>3, <3>1 DEF DoomedStops
  <2> QED BY <1>6, <2>1, <2>2, <2>3 DEF ReadVersion
<1>7. CASE ReadCounts(out_buf.tensors, out_buf.metadata)
  <2>0. pc = "counts" /\ strategy \notin {"CorruptMagic", "CorruptVersion"}
        /\ outcome = "running"
    BY <1>2, <1>3, <1>7 DEF ReadCounts, ProgressOK
  <2> DEFINE p == read_pod(m_cursor, 8)
             q == read_pod(p.at, 8)
  <2>1. CASE Fails("ErrOutOfBoundsRead", p.at)
    BY <1>1, <1>2, <2>0, <2>1 DEF Fails, DoomedStops
  <2>2. CASE /\ pc' = "idle" /\ outcome' \in {"ErrOutOfBoundsRead", "ErrMalformedHeader"}
             /\ UNCHANGED << m_tensors, pairs >>
    BY <1>1, <1>2, <2>0, <2>2 DEF DoomedStops
  <2>3. CASE /\ p.ok /\ q.ok /\ ~OverCaps(out_buf.tensors, out_buf.metadata)
             /\ pc' = "metadata" /\ m_cursor' = q.at
             /\ m_header' = [[m_header EXCEPT !.tensor_count = out_buf.tensors]
                               EXCEPT !.metadata_kv_count = out_buf.metadata]
             /\ UNCHANGED << m_tensors, pairs, outcome >>
    <3>1. strategy = "MangleStringLength"
      <4>1. strategy \notin {"ExtremeTensorCount", "ExtremeMetadataCount"}
        BY <1>2, <1>4, <2>3 DEF MutantShape, OverCaps
      <4> QED BY <2>0, <4>1 DEF Doomed
    <3>2. m_cursor' = 24
      <4>1. m_cursor = 8 /\ 8 \in 0 .. size
        BY <1>3, <2>0 DEF ProgressOK
      <4>2. p.at = 16 /\ p.at \in 0 .. size
        BY <1>3, <2>3, <4>1, PodRead
      <4> HIDE DEF p
      <4>3. q.ok => q.at = p.at + 8
        BY <1>3, <4>2, PodRead
      <4>4. q.at = 24
        BY <2>3, <4>2, <4>3
      <4> QED BY <2>3, <4>4
    <3>3. /\ m_header'.tensor_count = out_buf.tensors
          /\ m_header'.metadata_kv_count = out_buf.metadata
      BY <1>2, <2>3 DEF ParserInv, HeaderOK
    <3> QED BY <1>1, <1>2, <2>0, <2>3, <3>1, <3>2, <3>3 DEF DoomedStops
  <2> QED BY <1>7, <2>1, <2>2, <2>3 DEF ReadCounts
<1>8. ASSUME NEW key \in Keys, NEW key_len \in StringLengths \cup {out_buf.first},
             NEW len \in StringLengths, NEW type \in ValueTypes,
             m_cursor = 24 => key_len = out_buf.first, ReadPair(key, key_len, type, len)
      PROVE  DoomedStops'
  <2>1. pc = "metadata" /\ strategy = "MangleStringLength" /\ key_len = HugeCount
    BY <1>2, <1>8 DEF ReadPair, MutantShape
  <2>2. key_len \in Nat /\ len \in Nat /\ type \in Nat
    BY <1>2, GGUFAssumption DEF Buffers
  <2>3. pc' = "idle" /\ UNCHANGED << pairs, m_tensors >> /\ outcome' # "Success"
    BY <1>2, <1>4, <1>8, <2>1, <2>2, PairKeeps
  <2> QED BY <1>1, <1>2, <2>1, <2>3 DEF DoomedStops
<1>9. ASSUME NEW name_len \in StringLengths \cup {out_buf.first}, NEW shape \in Shapes,
             NEW offset \in Offsets,
             m_cursor = 24 => name_len = out_buf.first, ReadTensor(name_len, shape, offset)
      PROVE  DoomedStops'
  <2>1. pc = "metadata" /\ strategy = "MangleStringLength" /\ name_len = HugeCount
    BY <1>2, <1>9 DEF ReadTensor, MutantShape
  <2>2. name_len \in Nat
    BY <1>2, GGUFAssumption DEF Buffers
  <2>3. pc' = "idle" /\ UNCHANGED << pairs, m_tensors >> /\ outcome' # "Success"
    BY <1>2, <1>4, <1>9, <2>1, <2>2, TensorKeeps
  <2> QED BY <1>1, <1>2, <2>1, <2>3 DEF DoomedStops
\* A file without strings is not doomed by a mangled length.
<1>10. CASE FinishParse
  <2>1. pc = "metadata" /\ out_buf.metadata = 0 /\ out_buf.tensors \in Nat
        /\ 0 >= out_buf.tensors /\ strategy = "MangleStringLength"
    BY <1>2, <1>10 DEF FinishParse, Buffers
  <2> QED BY <2>1 DEF Doomed
<1> QED BY <1>5, <1>6, <1>7, <1>8, <1>9, <1>10 DEF HarnessReads

\* The invariant holds in every state of the campaign.
THEOREM CampaignInvariant == CampaignSpec => []GGUFInv
<1>1. CampaignInit => GGUFInv
  <2> SUFFICES ASSUME CampaignInit PROVE GGUFInv
    OBVIOUS
  <2>1. HeaderOK /\ TensorsOK /\ ProgressOK /\ SuccessOK
    BY DEF CampaignInit, Init, HeaderOK, TensorsOK, ProgressOK, SuccessOK, NoHeader
  <2>2. MetadataOK
    <3>1. DOMAIN NoMetadata = {}
      BY DEF NoMetadata
    <3> QED BY <3>1, FS_EmptySet DEF CampaignInit, Init, MetadataOK
  <2>3. ParserInv
    BY <2>1, <2>2 DEF CampaignInit, Init, ParserInv
  <2> QED BY <2>3 DEF CampaignInit, GGUFInv, Buffers, NoBuffer, MutantShape, DoomedStops
<1>2. GGUFInv /\ [CampaignNext]_campaign => GGUFInv'
  <2> SUFFICES ASSUME GGUFInv, [CampaignNext]_campaign
               PROVE  GGUFInv'
    OBVIOUS
  <2>0. ParserInv
    BY DEF GGUFInv
  <2>1. UNCHANGED gguf => ParserInv'
    BY <2>0 DEF gguf, ParserInv, HeaderOK, TensorsOK, MetadataOK, ProgressOK, SuccessOK
  <2>2. CASE UNCHANGED campaign
    BY <2>1, <2>2 DEF campaign, gguf, GGUFInv, DoomedStops, Doomed
  <2>3. CASE stage = "caller" /\ Next /\ UNCHANGED << afl, stage >>
    BY <2>0, <2>3, ParserStep DEF GGUFInv, afl, DoomedStops
  <2>4. ASSUME NEW seed \in Seeds, NEW s \in DOMAIN NeededSize, NEW n \in MaxSizes,
               afl_custom_fuzz(seed, s, n)
        PROVE  GGUFInv'
    <3>1. ParserInv' /\ stage' = "fuzzed" /\ pc' = "idle"
      BY <2>1, <2>4 DEF afl_custom_fuzz, Fresh, gguf
    <3>2. seed \in Buffers /\ n \in Nat
      BY CampaignAssumption DEF Buffers
    <3>3. CASE strategy' = "unchanged" /\ (out_buf' = seed \/ out_buf' = Truncated(seed, n))
      <4>1. out_buf' \in Buffers
        BY <3>2, <3>3, TruncatedKeeps
      <4> QED BY <3>1, <3>3, <4>1 DEF GGUFInv, MutantShape, DoomedStops
    <3>4. CASE strategy' = s /\ \E b \in Mutations(seed)[s] : out_buf' = Truncated(b, n)
      <4>1. out_buf' \in Buffers /\ MutantShape(out_buf', s)
        BY <3>4, MutantMade
      <4> QED BY <3>1, <3>4, <4>1 DEF GGUFInv, DoomedStops
    <3> QED BY <2>4, <3>3, <3>4 DEF afl_custom_fuzz
  <2>5. ASSUME NEW input \in Seeds, AflRuns(input)
        PROVE  GGUFInv'
    <3>1. ParserInv' /\ stage' = "fuzzed" /\ pc' = "idle" /\ out_buf' = input
          /\ strategy' = "unchanged"
      BY <2>1, <2>5 DEF AflRuns, Fresh, gguf
    <3>2. input \in Buffers
      BY CampaignAssumption DEF Buffers
    <3> QED BY <3>1, <3>2 DEF GGUFInv, MutantShape, DoomedStops
  <2>6. NoBuffer \in Buffers
    BY DEF NoBuffer, Buffers
  <2>7. CASE HarnessSkips
    BY <2>1, <2>6, <2>7 DEF HarnessSkips, GGUFInv, MutantShape, DoomedStops
  <2>8. CASE HarnessParses
    <3>1. /\ size' = out_buf.size /\ size' \in Nat /\ size' >= 8
          /\ Cleared /\ pc' = "magic" /\ outcome' = "running"
          /\ UNCHANGED << out_buf, strategy >> /\ stage' = "parsing"
      BY <2>8 DEF HarnessParses, Parse, GGUFInv, Buffers, afl
    <3>2. ParserInv'
      BY <3>1, ClearedKeeps
    <3> QED BY <3>1, <3>2 DEF GGUFInv, DoomedStops, Cleared
  <2>9. CASE HarnessReads
    <3>1. UNCHANGED << out_buf, strategy, stage >> /\ stage = "parsing"
      BY <2>9 DEF HarnessReads, afl
    <3>2. out_buf \in Buffers /\ Counts \subseteq Nat /\ StringLengths \subseteq Nat
          /\ ValueTypes \subseteq Nat
      BY GGUFAssumption DEF GGUFInv
    <3>3. out_buf.tensors \in Nat /\ out_buf.metadata \in Nat /\ out_buf.first \in Nat
      BY <3>2 DEF Buffers
    <3>4. ParserInv'
      BY <2>0, <2>9, <3>2, <3>3, MagicKeeps, VersionKeeps, CountsKeep, PairKeeps,
         TensorKeeps, FinishKeeps DEF HarnessReads
    <3>5. DoomedStops'
      <4>1. CASE Doomed
        BY <2>9, <4>1, DoomedStep
      <4>2. CASE ~Doomed
        BY <3>1, <4>2 DEF Doomed, DoomedStops
      <4> QED BY <4>1, <4>2
    <3>6. size' = size
      <4>1. ReadMagic => size' = size
        BY DEF ReadMagic, Fails
      <4>2. ReadVersion(out_buf.version) => size' = size
        BY DEF ReadVersion, Fails
      <4>3. ReadCounts(out_buf.tensors, out_buf.metadata) => size' = size
        BY Zenon DEF ReadCounts, Fails
      <4>4. ASSUME NEW key, NEW key_len, NEW type, NEW len, ReadPair(key, key_len, type, len)
            PROVE  size' = size
        BY <4>4, Zenon DEF ReadPair, Fails
      <4>5. ASSUME NEW name_len, NEW shape, NEW offset, ReadTensor(name_len, shape, offset)
            PROVE  size' = size
        BY <4>5, Zenon DEF ReadTensor, Fails
      <4>6. FinishParse => size' = size
        BY DEF FinishParse
      <4> QED BY <2>9, <4>1, <4>2, <4>3, <4>4, <4>5, <4>6 DEF HarnessReads
    <3> QED BY <3>1, <3>4, <3>5, <3>6 DEF GGUFInv
  <2>10. CASE HarnessValidates
    BY <2>0, <2>10, RevalidateKeeps DEF HarnessValidates, GGUFInv, DoomedStops, afl
  <2>11. CASE HarnessResets
    <3>1. ParserInv'
      BY <2>11, ClearedKeeps DEF HarnessResets, Reset
    <3> QED BY <2>6, <2>11, <3>1 DEF HarnessResets, GGUFInv, MutantShape, DoomedStops
  <2> QED BY <2>2, <2>3, <2>4, <2>5, <2>7, <2>8, <2>9, <2>10, <2>11 DEF CampaignNext, Harness
<1> QED BY <1>1, <1>2, PTL DEF CampaignSpec

\* No read of the parser leaves the buffer, whatever lengths, counts and types
\* the input claims.
THEOREM CursorInBufferHolds == CampaignSpec => []CursorInBuffer
<1>1. GGUFInv => CursorInBuffer
  BY DEF GGUFInv, ParserInv, CursorInBuffer
<1> QED BY <1>1, CampaignInvariant, PTL

\* A successful parse holds the announced tensors and no more keys than pairs,
\* whatever the object was used for before.
THEOREM SuccessCompleteHolds == CampaignSpec => []SuccessComplete
<1>1. GGUFInv => SuccessComplete
  BY DEF GGUFInv, ParserInv, SuccessOK, MetadataOK, SuccessComplete
<1> QED BY <1>1, CampaignInvariant, PTL

\* Every size a successful parse reports is four times the true product of the
\* dimensions: no wrapped product gets past the divisions that guard it.
THEOREM SizesExactHolds == CampaignSpec => []SizesExact
<1>1. GGUFInv => SizesExact
  <2> SUFFICES ASSUME GGUFInv, outcome = "Success", NEW k \in DOMAIN m_tensors
               PROVE  m_tensors[k].calculated_bytes = 4 * Product(m_tensors[k].dims)
    BY DEF SizesExact
  <2> DEFINE R == [dims : Shapes, offset : Offsets, calculated_bytes : Int]
  <2>1. m_tensors \in Seq(R)
    BY DEF GGUFInv, ParserInv, TensorsOK
  <2>2. k \in 1 .. Len(m_tensors) /\ m_tensors[k] \in R
    <3> HIDE DEF R
    <3> QED BY <2>1
  <2>3. m_tensors[k].dims \in Dims
    BY <2>2, GGUFAssumption DEF Dims
  <2>4. /\ calculated_bytes(m_tensors[k].dims) # Overflow
        /\ m_tensors[k].calculated_bytes = calculated_bytes(m_tensors[k].dims)
    BY <2>2 DEF GGUFInv, ParserInv, SuccessOK
  <2> QED BY <2>3, <2>4, AcceptedBytes
<1> QED BY <1>1, CampaignInvariant, PTL

\* Every mutant of a header field is refused before a pair or tensor is
\* stored, for every seed, truncation, limit and word size.
THEOREM MutantsRefusedHolds == CampaignSpec => []MutantsRefused
<1>1. GGUFInv => MutantsRefused
  <2>1. DOMAIN NeededSize = StrategyNames
    BY DEF NeededSize, StrategyNames
  <2> QED BY <2>1 DEF GGUFInv, DoomedStops, Doomed, MutantsRefused, StrategyNames
<1> QED BY <1>1, CampaignInvariant, PTL

=============================================================================
