----------------------------- MODULE ONNXParser -----------------------------
(***************************************************************************)
(* The ONNX protobuf auditor: a loop over the wire-format fields of the    *)
(* top-level message.  One action is one iteration of the loop.  Here the  *)
(* bytes matter: tags and lengths are varints, lengths move the cursor     *)
(* with a sum taken modulo SizeMod, so the buffer is a variable.  The word *)
(* is scaled down, and with it the number of seven-bit groups of a varint  *)
(* (MaxGroups = 10 for 64 bits); as in the code the last group may stick   *)
(* out of the word and is truncated.                                       *)
(***************************************************************************)
EXTENDS Integers, Sequences, FiniteSetsExt

CONSTANTS
  Buffers,    \* byte sequences passed to parse
  SizeMod,    \* number of values of uint64_t and size_t
  FieldMod,   \* number of values of the uint32_t field number
  MaxGroups,  \* groups read before the overflow protection stops a varint
  MaxString,  \* 10 MB
  MaxNodes    \* 500000

Bytes == 0 .. 255

\* The weight of a group: 1 << 7 * k.
Weight[k \in 0 .. MaxGroups] == IF k = 0 THEN 1 ELSE 128 * Weight[k - 1]

\* A buffer lies in memory, so that it ends well before the end of the word.
ASSUME ONNXAssumption ==
  /\ SizeMod \in Nat \ {0} /\ FieldMod \in Nat \ {0} /\ MaxGroups \in Nat \ {0}
  /\ MaxString \in Nat /\ MaxNodes \in Nat
  /\ Buffers \subseteq Seq(Bytes) /\ \A b \in Buffers : Len(b) + 8 < SizeMod
  /\ Weight[MaxGroups - 1] < SizeMod /\ SizeMod <= Weight[MaxGroups]

VARIABLES
  buffer, m_cursor, m_header,
  pc,       \* "loop" inside parse, "idle" outside
  outcome   \* status of the last call

onnx == << buffer, m_cursor, m_header, pc, outcome >>

\* node_count saturates at MaxNodes + 1: it is only compared with MaxNodes.
NoHeader == [ir_version |-> 0, producer_name |-> << >>, producer_version |-> << >>,
             node_count |-> 0]

(* Reads of buffer b at position c: whether they succeed, the value, the    *)
(* cursor left.                                                             *)

\* result after n groups of seven bits, before the truncation to the word.
Accumulated(b, c, n) ==
  LET result[k \in 0 .. n] ==
        IF k = 0 THEN 0 ELSE result[k - 1] + (b[c + k] % 128) * Weight[k - 1]
  IN  result[n]

\* The groups after which a varint at c may end.
Ends(b, c) == {k \in 1 .. MaxGroups : c + k <= Len(b) /\ b[c + k] < 128}

\* A varint that shifts by eight bits for each group.
read_varint_shift_8(b, c) ==
  LET n == Min(Ends(b, c)) IN
  IF Ends(b, c) = {} THEN [ok |-> FALSE, value |-> 0, at |-> Min({c + MaxGroups, Len(b)})]
  ELSE [ok |-> TRUE, at |-> c + n,
        value |-> MapThenSumSet(LAMBDA k : (b[c + k] % 128) * 256 ^ (k - 1), 1 .. n)
                    % SizeMod]

read_varint(b, c) ==
  LET n == Min(Ends(b, c)) IN
  IF Ends(b, c) = {} THEN [ok |-> FALSE, value |-> 0, at |-> Min({c + MaxGroups, Len(b)})]
  ELSE [ok |-> TRUE, at |-> c + n, value |-> Accumulated(b, c, n) % SizeMod]

\* A skip that does not compare with the end of the buffer.
skip_unchecked(b, c, n) == [ok |-> TRUE, at |-> (c + n) % SizeMod]

\* A skip that stops at the end of the buffer.
skip_clamped(b, c, n) == [ok |-> TRUE, at |-> Min({(c + n) % SizeMod, Len(b)})]

\* n bytes from c, if c + n as size_t does not pass the end.
skip(b, c, n) ==
  LET next == (c + n) % SizeMod IN
  IF next > Len(b) THEN [ok |-> FALSE, at |-> c] ELSE [ok |-> TRUE, at |-> next]

skip_delimited(b, c) ==
  LET len == read_varint(b, c) IN
  IF len.ok THEN skip(b, len.at, len.value) ELSE [ok |-> FALSE, at |-> len.at]

read_length_delimited_string(b, c) ==
  LET len == read_varint(b, c) IN
  IF len.ok /\ len.value <= MaxString THEN skip(b, len.at, len.value)
  ELSE [ok |-> FALSE, at |-> len.at]

Text(b, c, at) == SubSeq(b, read_varint(b, c).at + 1, at)

(* parse *)

Tag == read_varint(buffer, m_cursor)
field_number == (Tag.value \div 8) % FieldMod
wire_type == Tag.value % 8

\* The loop body runs on a readable tag.
AtField == pc = "loop" /\ m_cursor < Len(buffer) /\ Tag.ok

KnownField == \/ field_number = 1 /\ wire_type = 0
              \/ field_number \in {2, 3, 7} /\ wire_type = 2

Fails(status, c) ==
  /\ m_cursor' = c /\ pc' = "idle" /\ outcome' = status
  /\ UNCHANGED << buffer, m_header >>

Consumes(header, c) ==
  /\ m_cursor' = c /\ m_header' = header
  /\ UNCHANGED << buffer, pc, outcome >>

\* m_initializers is never filled, so only the node count can be refused.
validate_graph_metadata ==
  outcome' = IF m_header.node_count > MaxNodes THEN "ErrMalformedHeader" ELSE "Success"

Parse(b) ==
  /\ pc = "idle"
  /\ buffer' = b /\ m_cursor' = 0 /\ m_header' = NoHeader
  /\ IF b = << >> THEN pc' = "idle" /\ outcome' = "ErrMalformedHeader"
                  ELSE pc' = "loop" /\ outcome' = "running"

ReadIrVersion ==
  /\ AtField /\ field_number = 1 /\ wire_type = 0
  /\ LET v == read_varint(buffer, Tag.at) IN
     IF v.ok THEN Consumes([m_header EXCEPT !.ir_version = v.value], v.at)
             ELSE Fails("ErrOutOfBoundsRead", v.at)

ReadProducer ==
  /\ AtField /\ field_number \in {2, 3} /\ wire_type = 2
  /\ LET s == read_length_delimited_string(buffer, Tag.at) IN
     \/ ~s.ok /\ Fails("ErrOutOfBoundsRead", s.at)
     \/ /\ s.ok /\ field_number = 2
        /\ Consumes([m_header EXCEPT !.producer_name = Text(buffer, Tag.at, s.at)], s.at)
     \/ /\ s.ok /\ field_number = 3
        /\ Consumes([m_header EXCEPT !.producer_version = Text(buffer, Tag.at, s.at)], s.at)

ReadGraph ==
  /\ AtField /\ field_number = 7 /\ wire_type = 2
  /\ LET g == skip_delimited(buffer, Tag.at) IN
     IF g.ok
     THEN Consumes([m_header EXCEPT !.node_count = Min({@ + 1, MaxNodes + 1})], g.at)
     ELSE Fails("ErrOutOfBoundsRead", g.at)

\* A 32-bit field whose value is left in the input, and whose tag is read again.
SkipFieldRereads ==
  /\ AtField /\ ~KnownField /\ wire_type \in {0, 1, 2, 5}
  /\ LET s == CASE wire_type = 0 -> read_varint(buffer, Tag.at)
               [] wire_type = 1 -> skip(buffer, Tag.at, 8)
               [] wire_type = 2 -> skip_delimited(buffer, Tag.at)
               [] wire_type = 5 -> [ok |-> TRUE, at |-> m_cursor]
     IN  IF s.ok THEN Consumes(m_header, s.at) ELSE Fails("ErrOutOfBoundsRead", s.at)

SkipField ==
  /\ AtField /\ ~KnownField /\ wire_type \in {0, 1, 2, 5}
  /\ LET s == CASE wire_type = 0 -> read_varint(buffer, Tag.at)
               [] wire_type = 1 -> skip(buffer, Tag.at, 8)
               [] wire_type = 2 -> skip_delimited(buffer, Tag.at)
               [] wire_type = 5 -> skip(buffer, Tag.at, 4)
     IN  IF s.ok THEN Consumes(m_header, s.at) ELSE Fails("ErrOutOfBoundsRead", s.at)

BadWireType ==
  /\ AtField /\ ~KnownField /\ wire_type \notin {0, 1, 2, 5}
  /\ Fails("ErrMalformedHeader", Tag.at)

\* The loop ends at the end of the buffer, or by the break on a tag that
\* cannot be read.
LeaveLoop ==
  /\ pc = "loop"
  /\ \/ m_cursor >= Len(buffer) /\ UNCHANGED m_cursor
     \/ m_cursor < Len(buffer) /\ ~Tag.ok /\ m_cursor' = Tag.at
  /\ pc' = "idle"
  /\ validate_graph_metadata
  /\ UNCHANGED << buffer, m_header >>

\* The harness validates once more, and only after a successful parse.
Revalidate ==
  /\ pc = "idle" /\ outcome = "Success"
  /\ validate_graph_metadata
  /\ UNCHANGED << buffer, m_cursor, m_header, pc >>

Reset ==
  /\ pc = "idle"
  /\ m_header' = NoHeader /\ m_cursor' = 0 /\ outcome' = "reset"
  /\ UNCHANGED << buffer, pc >>

Init ==
  /\ buffer = << >> /\ m_cursor = 0 /\ m_header = NoHeader
  /\ pc = "idle" /\ outcome = "reset"

ParseStep ==
  ReadIrVersion \/ ReadProducer \/ ReadGraph \/ SkipField \/ BadWireType \/ LeaveLoop

Next == (\E b \in Buffers : Parse(b)) \/ ParseStep \/ Revalidate \/ Reset

Spec == Init /\ [][Next]_onnx

\* A parse that has begun is not abandoned by its thread.
FairSpec == Spec /\ WF_onnx(ParseStep)

-----------------------------------------------------------------------------
(* The protobuf wire format, stated on positions of a buffer b: bytes       *)
(* p + 1 .. q form one varint, or one whole field.                          *)

IsVarint(b, p, q) ==
  /\ p < q /\ q <= Len(b) /\ q - p <= MaxGroups
  /\ b[q] < 128 /\ \A k \in (p + 1) .. (q - 1) : b[k] >= 128

\* Little-endian in base 128, the last group first.
VarintValue(b, p, q) ==
  LET value[k \in p .. q] ==
        IF k = q THEN 0 ELSE (b[k + 1] % 128) + 128 * value[k + 1]
  IN  value[p] % SizeMod

\* A field from p to q whose tag ends at m; the number is not truncated.
IsField(b, p, m, q) ==
  /\ IsVarint(b, p, m) /\ q <= Len(b)
  /\ LET wire == VarintValue(b, p, m) % 8 IN
     \/ wire = 0 /\ IsVarint(b, m, q)
     \/ wire = 1 /\ q = m + 8
     \/ wire = 5 /\ q = m + 4
     \/ /\ wire = 2
        /\ \E n \in (m + 1) .. q : IsVarint(b, m, n) /\ q = n + VarintValue(b, m, n)

Positions(b) == 0 .. Len(b)

\* The positions at which a field begins or the message ends.
Starts(b) ==
  LET upto[p \in Positions(b)] ==
        IF p = 0 THEN {0}
        ELSE LET before == upto[p - 1] IN
             before \cup {q \in {p} : \E s \in before, m \in Positions(b) : IsField(b, s, m, q)}
  IN  upto[Len(b)]

\* The starts before position c of fields with this tag.
FieldsRead(b, c, tag) ==
  {p \in Starts(b) : \E m \in Positions(b) :
     IsVarint(b, p, m) /\ VarintValue(b, p, m) = tag /\ m < c}

(* Properties                                                               *)

\* No read or skip, whatever length it is told, leaves the buffer.
CursorInBuffer == m_cursor <= Len(buffer)

\* The field numbers of the message fit the uint32_t of the code.
NumbersFit(b) ==
  \A p \in Starts(b), m \in Positions(b) :
    IsVarint(b, p, m) => VarintValue(b, p, m) \div 8 < FieldMod

\* Where the varint at p ends.
VarintEnd(b, p) == CHOOSE q \in Positions(b) : IsVarint(b, p, q)

\* The value of the last ir_version before position c, 0 without one.
LastIrVersion(b, c) ==
  LET read == FieldsRead(b, c, 8)
      m    == VarintEnd(b, Max(read))
  IN  IF read = {} THEN 0 ELSE VarintValue(b, m, VarintEnd(b, m))

\* The loop splits the message where the wire format does, counts one node
\* per field 7 and keeps the last ir_version: nothing is read twice, skipped,
\* or left over from the previous parse.
DecodesWireFormat ==
  pc = "loop" /\ NumbersFit(buffer) =>
    /\ m_cursor \in Starts(buffer)
    /\ m_header.node_count =
         Min({Cardinality(FieldsRead(buffer, m_cursor, 58)), MaxNodes + 1})
    /\ m_header.ir_version = LastIrVersion(buffer, m_cursor)

\* A successful parse has split the whole buffer into fields, or up to a
\* position at which no tag can be read: the only input that is dropped
\* without an error.
SuccessReadsAll ==
  pc = "idle" /\ outcome = "Success" =>
    \/ m_cursor = Len(buffer) /\ m_cursor \in Starts(buffer)
    \/ \E p \in Starts(buffer) :
         p < m_cursor /\ \A q \in Positions(buffer) : ~IsVarint(buffer, p, q)

\* Every iteration consumes input, so a parse ends.
ParseEnds == pc = "loop" ~> pc = "idle"

=============================================================================
