----------------------------- MODULE GGUFParser -----------------------------
(***************************************************************************)
(* The GGUF header parser.  The cursor only moves forward and no byte is   *)
(* read twice, so the buffer is not a variable: a read that fits returns   *)
(* some value of the field's set, and only the buffer's length is fixed.   *)
(* One action is one field of the header, one metadata pair or one tensor  *)
(* descriptor; an exception and an error status both end the parse and     *)
(* leave what was read so far in the object.                               *)
(***************************************************************************)
EXTENDS Integers, FiniteSetsExt, SequencesExt

CONSTANTS
  BufferSizes,  \* lengths of the buffers passed to parse
  Versions, Counts, StringLengths, ValueTypes, Keys, Shapes, Offsets,
  MaxMetadata,  \* 65536 pairs
  MaxTensors,   \* 1000000 descriptors
  MaxString,    \* 65536 bytes
  MaxDims,      \* 8 dimensions
  SizeMod       \* number of values of uint64_t

ASSUME GGUFAssumption ==
  /\ SizeMod \in Nat \ {0} /\ {MaxMetadata, MaxTensors, MaxString, MaxDims} \subseteq Nat
  /\ Counts \cup StringLengths \cup Offsets \cup ValueTypes \subseteq Nat
  /\ BufferSizes \subseteq 0 .. (SizeMod - 1)
  /\ Shapes \subseteq Seq(0 .. (SizeMod - 1))

VARIABLES
  size,        \* buffer.size() of the running or last parse, 0 after a reset
  m_cursor, m_header, m_metadata, m_tensors,
  pairs,       \* metadata pairs read so far
  pc,          \* what parse reads next, "idle" outside parse
  outcome      \* status or exception of the last call

gguf == << size, m_cursor, m_header, m_metadata, m_tensors, pairs, pc, outcome >>

NoHeader == [version |-> 0, tensor_count |-> 0, metadata_kv_count |-> 0]
NoMetadata == [k \in {} |-> 0]

(* Reads from position c: whether they succeed, and the cursor they leave.  *)

\* A read that lets the last byte of the value lie one past the buffer.
read_pod_off_by_one(c, bytes) ==
  IF c + bytes > size + 1 THEN [ok |-> FALSE, at |-> c] ELSE [ok |-> TRUE, at |-> c + bytes]

read_pod(c, bytes) ==
  IF c + bytes > size THEN [ok |-> FALSE, at |-> c] ELSE [ok |-> TRUE, at |-> c + bytes]

read_string(c, len) ==
  LET p == read_pod(c, 8) IN
  IF ~p.ok \/ len > MaxString \/ p.at + len > size THEN [ok |-> FALSE, at |-> p.at]
  ELSE [ok |-> TRUE, at |-> p.at + len]

value_bytes(type) ==
  CASE type \in {0, 1, 7}    -> 1
    [] type \in {2, 3}       -> 2
    [] type \in {4, 5, 6}    -> 4
    [] type \in {10, 11, 12} -> 8

\* An array (9) has no case in the code's switch.
read_value(c, type, len) ==
  CASE type = 8 -> read_string(c, len)
    [] type = 9 -> [ok |-> FALSE, at |-> c]
    [] OTHER    -> read_pod(c, value_bytes(type))

\* n values of eight bytes, up to the first that does not fit.
read_dims(c, n) ==
  IF read_pod(c, 8 * n).ok THEN [ok |-> TRUE, at |-> c + 8 * n]
  ELSE [ok |-> FALSE, at |-> c + 8 * ((size - c) \div 8)]

(* validate_tensor_metadata                                                 *)

Overflow == -1
MulDimUnguarded(n, dim) == (n * dim) % SizeMod
MulDim(n, dim) ==
  IF n = Overflow \/ (dim > 0 /\ n > (SizeMod - 1) \div dim) THEN Overflow ELSE n * dim
calculated_bytes(dims) ==
  LET n == FoldLeft(MulDim, 1, dims) IN
  IF n = Overflow \/ n > (SizeMod - 1) \div 4 THEN Overflow ELSE n * 4

Rejected(ts) == {k \in DOMAIN ts : calculated_bytes(ts[k].dims) = Overflow}

\* The tensors before the first rejected one get their size.
Validated(ts) ==
  [k \in DOMAIN ts |->
     IF \E j \in Rejected(ts) : j <= k THEN ts[k]
     ELSE [ts[k] EXCEPT !.calculated_bytes = calculated_bytes(ts[k].dims)]]

validate_tensor_metadata(ts) ==
  /\ m_tensors' = Validated(ts)
  /\ outcome' = IF Rejected(ts) = {} THEN "Success" ELSE "ErrIntegerOverflow"

(* parse                                                                    *)

Fails(status, c) ==
  /\ pc' = "idle" /\ outcome' = status /\ m_cursor' = c
  /\ UNCHANGED << size, m_header, m_metadata, m_tensors, pairs >>

\* A reset that leaves the descriptors of the previous parse.
ClearedKeepsTensors ==
  /\ m_header' = NoHeader /\ m_metadata' = NoMetadata /\ UNCHANGED m_tensors
  /\ m_cursor' = 0 /\ pairs' = 0

Cleared ==
  /\ m_header' = NoHeader /\ m_metadata' = NoMetadata /\ m_tensors' = << >>
  /\ m_cursor' = 0 /\ pairs' = 0

Parse(n) ==
  /\ pc = "idle"
  /\ Cleared
  /\ size' = n /\ pc' = "magic" /\ outcome' = "running"

ReadMagic ==
  /\ pc = "magic"
  /\ LET p == read_pod(m_cursor, 4) IN
     \/ ~p.ok /\ Fails("ErrOutOfBoundsRead", p.at)
     \/ p.ok /\ Fails("ErrInvalidMagic", p.at)
     \/ /\ p.ok /\ m_cursor' = p.at /\ pc' = "version"
        /\ UNCHANGED << size, m_header, m_metadata, m_tensors, pairs, outcome >>

ReadVersion(version) ==
  /\ pc = "version"
  /\ LET p == read_pod(m_cursor, 4) IN
     \/ ~p.ok /\ Fails("ErrOutOfBoundsRead", p.at)
     \/ p.ok /\ version \notin 1 .. 3 /\ Fails("ErrUnsupportedVersion", p.at)
     \/ /\ p.ok /\ version \in 1 .. 3
        /\ m_cursor' = p.at /\ pc' = "counts"
        /\ m_header' = [m_header EXCEPT !.version = version]
        /\ UNCHANGED << size, m_metadata, m_tensors, pairs, outcome >>

\* Caps that only refuse a header in which both counts exceed theirs.
OverBothCaps(tensors, metadata) == metadata > MaxMetadata /\ tensors > MaxTensors

OverCaps(tensors, metadata) == metadata > MaxMetadata \/ tensors > MaxTensors

\* The tensor count, the metadata count and the cap on both.
ReadCounts(tensors, metadata) ==
  /\ pc = "counts"
  /\ LET p == read_pod(m_cursor, 8)
         q == read_pod(p.at, 8)
         h == [m_header EXCEPT !.tensor_count = tensors]
     IN
     \/ ~p.ok /\ Fails("ErrOutOfBoundsRead", p.at)
     \/ /\ p.ok
        /\ m_header' = IF q.ok THEN [h EXCEPT !.metadata_kv_count = metadata] ELSE h
        /\ m_cursor' = q.at
        /\ \/ ~q.ok /\ pc' = "idle" /\ outcome' = "ErrOutOfBoundsRead"
           \/ /\ q.ok /\ OverCaps(tensors, metadata)
              /\ pc' = "idle" /\ outcome' = "ErrMalformedHeader"
           \/ /\ q.ok /\ ~OverCaps(tensors, metadata)
              /\ pc' = "metadata" /\ UNCHANGED outcome
        /\ UNCHANGED << size, m_metadata, m_tensors, pairs >>

\* A pair that is stored without being counted or consumed.
ReadPairStays(key, key_len, type, len) ==
  /\ pc = "metadata" /\ pairs < m_header.metadata_kv_count
  /\ read_string(m_cursor, key_len).ok
  /\ m_metadata' = [x \in DOMAIN m_metadata \cup {key} |->
                      IF x = key THEN type ELSE m_metadata[x]]
  /\ UNCHANGED << size, m_cursor, m_header, m_tensors, pairs, pc, outcome >>

ReadPair(key, key_len, type, len) ==
  /\ pc = "metadata" /\ pairs < m_header.metadata_kv_count
  /\ LET k == read_string(m_cursor, key_len)
         t == read_pod(k.at, 4)
         v == read_value(t.at, type, len)
     IN
     \/ ~k.ok /\ Fails("ErrMalformedHeader", k.at)
     \/ k.ok /\ (~t.ok \/ type > 12) /\ Fails("ErrMalformedHeader", t.at)
     \/ k.ok /\ t.ok /\ type <= 12 /\ ~v.ok /\ Fails("ErrMalformedHeader", v.at)
     \/ /\ k.ok /\ t.ok /\ type <= 12 /\ v.ok
        /\ m_cursor' = v.at /\ pairs' = pairs + 1
        /\ m_metadata' = [x \in DOMAIN m_metadata \cup {key} |->
                            IF x = key THEN type ELSE m_metadata[x]]
        /\ UNCHANGED << size, m_header, m_tensors, pc, outcome >>

ReadTensor(name_len, shape, offset) ==
  /\ pc = "metadata" /\ pairs = m_header.metadata_kv_count
  /\ Len(m_tensors) < m_header.tensor_count
  /\ LET s == read_string(m_cursor, name_len)
         n == read_pod(s.at, 4)
         d == read_dims(n.at, Len(shape))
         t == read_pod(d.at, 4)
         o == read_pod(t.at, 8)
     IN
     \/ ~s.ok /\ Fails("ErrMalformedHeader", s.at)
     \/ s.ok /\ (~n.ok \/ Len(shape) > MaxDims) /\ Fails("ErrMalformedHeader", n.at)
     \/ /\ s.ok /\ n.ok /\ Len(shape) <= MaxDims
        /\ \/ ~(d.ok /\ t.ok /\ o.ok)
              /\ Fails("ErrOutOfBoundsRead",
                       IF ~d.ok THEN d.at ELSE IF ~t.ok THEN t.at ELSE o.at)
           \/ /\ d.ok /\ t.ok /\ o.ok
              /\ m_cursor' = o.at
              /\ m_tensors' = Append(m_tensors, [dims |-> shape, offset |-> offset,
                                                 calculated_bytes |-> 0])
              /\ UNCHANGED << size, m_header, m_metadata, pairs, pc, outcome >>

FinishParse ==
  /\ pc = "metadata" /\ pairs = m_header.metadata_kv_count
  /\ Len(m_tensors) >= m_header.tensor_count
  /\ validate_tensor_metadata(m_tensors)
  /\ pc' = "idle"
  /\ UNCHANGED << size, m_cursor, m_header, m_metadata, pairs >>

\* The harness validates once more, and only after a successful parse.
Revalidate ==
  /\ pc = "idle" /\ outcome = "Success"
  /\ validate_tensor_metadata(m_tensors)
  /\ UNCHANGED << size, m_cursor, m_header, m_metadata, pairs, pc >>

Reset ==
  /\ pc = "idle" /\ Cleared
  /\ size' = 0 /\ outcome' = "reset"
  /\ UNCHANGED pc

Init ==
  /\ size = 0 /\ m_cursor = 0 /\ pairs = 0 /\ pc = "idle" /\ outcome = "reset"
  /\ m_header = NoHeader /\ m_metadata = NoMetadata /\ m_tensors = << >>

\* One step of a running parse.
ParseStep ==
  \/ ReadMagic
  \/ \E v \in Versions : ReadVersion(v)
  \/ \E t, m \in Counts : ReadCounts(t, m)
  \/ \E key \in Keys, key_len, len \in StringLengths, type \in ValueTypes :
       ReadPair(key, key_len, type, len)
  \/ \E name_len \in StringLengths, shape \in Shapes, offset \in Offsets :
       ReadTensor(name_len, shape, offset)
  \/ FinishParse

Next ==
  \/ \E n \in BufferSizes : Parse(n)
  \/ ParseStep
  \/ Revalidate
  \/ Reset

Spec == Init /\ [][Next]_gguf

\* A parse that has begun is not abandoned by its thread.
FairSpec == Spec /\ WF_gguf(ParseStep)

-----------------------------------------------------------------------------
(* Properties                                                               *)

\* The exact product of a sequence of dimensions.
Product(dims) == FoldLeft(LAMBDA n, d : n * d, 1, dims)

\* Every read lies inside the buffer, whatever lengths and counts it claims.
CursorInBuffer == m_cursor <= size

\* A successful parse holds exactly the announced tensors of THIS buffer,
\* whatever earlier parses left behind, and no more pairs than announced.
SuccessComplete ==
  pc = "idle" /\ outcome = "Success" /\ m_cursor > 0 =>
    /\ m_header.version \in 1 .. 3
    /\ Len(m_tensors) = m_header.tensor_count
    /\ Cardinality(DOMAIN m_metadata) <= m_header.metadata_kv_count

\* A tensor that passed has its exact size, zero dimensions included: no
\* order of the dimensions gets a wrapped product past the guards.
SizesExact ==
  outcome = "Success" =>
    \A k \in DOMAIN m_tensors :
      m_tensors[k].calculated_bytes = 4 * Product(m_tensors[k].dims)

\* Every loop iteration consumes input, so a parse ends.
ParseEnds == pc # "idle" ~> pc = "idle"

=============================================================================
