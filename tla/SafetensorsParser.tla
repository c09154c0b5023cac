-------------------------- MODULE SafetensorsParser --------------------------
(***************************************************************************)
(* The Safetensors parser and its boundary auditor.  A file is what parse  *)
(* looks at: its length, the length prefix, whether the header text is     *)
(* enclosed in braces, and the pair of offsets of every tensor the regular *)
(* expression matches, in order.  An offset of SizeMod or more is a number *)
(* std::stoull cannot represent.  Exceptions and error statuses both end   *)
(* the parse and leave what was read so far in the object.                 *)
(***************************************************************************)
EXTENDS Integers, Sequences

CONSTANTS
  Files,      \* [size, header_len, braces, offsets] records
  MaxHeader,  \* MAX_HEADER_SIZE
  EntryText,  \* bytes of the shortest header text that matches one tensor
  SizeMod     \* number of values of uint64_t

ASSUME SafetensorsAssumption ==
  /\ SizeMod \in Nat \ {0} /\ MaxHeader \in Nat
  /\ Files \subseteq [size : 0 .. (SizeMod - 1), header_len : 0 .. (SizeMod - 1),
                      braces : BOOLEAN, offsets : Seq(Nat \X Nat)]
  /\ \A f \in Files :
       /\ f.header_len >= EntryText * Len(f.offsets)
       /\ f.braces => f.header_len >= 2 + EntryText * Len(f.offsets)

VARIABLES
  m_header, m_tensors, m_cursor,
  file,     \* the buffer of the last parse, NoFile after a reset
  outcome   \* status or exception of the last call

safetensors == << m_header, m_tensors, m_cursor, file, outcome >>

Prefix == 8
NoHeader == [header_size_bytes |-> 0, total_tensor_count |-> 0]
NoFile == [size |-> 0, header_len |-> 0, braces |-> FALSE, offsets |-> << >>]

(* validate_boundaries *)

\* A verdict that lets a tensor end one byte past the buffer.
VerdictOffByOne(t, header_size, n) ==
  LET start == Prefix + header_size + t.offsets[1]
      end   == (Prefix + header_size + t.offsets[2]) % SizeMod
  IN  IF t.offsets[1] > t.offsets[2] THEN "ErrMalformedHeader"
      ELSE IF start > SizeMod - 1 THEN "ErrIntegerOverflow"
      ELSE IF end > n + 1 \/ start > n + 1 THEN "ErrOutOfBoundsRead"
      ELSE "Success"

\* A verdict that does not compare the two offsets.
VerdictUnordered(t, header_size, n) ==
  LET start == Prefix + header_size + t.offsets[1]
      end   == (Prefix + header_size + t.offsets[2]) % SizeMod
  IN  IF start > SizeMod - 1 THEN "ErrIntegerOverflow"
      ELSE IF end > n \/ start > n THEN "ErrOutOfBoundsRead"
      ELSE "Success"

\* The auditor's verdict on one tensor of a buffer of n bytes.  Only the sum
\* for the start is guarded; the sum for the end may wrap.
Verdict(t, header_size, n) ==
  LET start == Prefix + header_size + t.offsets[1]
      end   == (Prefix + header_size + t.offsets[2]) % SizeMod
  IN  IF t.offsets[1] > t.offsets[2] THEN "ErrMalformedHeader"
      ELSE IF start > SizeMod - 1 THEN "ErrIntegerOverflow"
      ELSE IF end > n \/ start > n THEN "ErrOutOfBoundsRead"
      ELSE "Success"

\* The tensors up to the first failing one get their size.
FirstBad(ts, header_size, n) ==
  {k \in DOMAIN ts : /\ Verdict(ts[k], header_size, n) # "Success"
                     /\ \A j \in 1 .. (k - 1) : Verdict(ts[j], header_size, n) = "Success"}

\* A validation that makes the offsets absolute in place.
SizedAbsolute(ts, header_size, n) ==
  [k \in DOMAIN ts |->
     IF \E j \in FirstBad(ts, header_size, n) : j <= k THEN ts[k]
     ELSE [offsets |-> << ts[k].offsets[1] + Prefix + header_size,
                          ts[k].offsets[2] + Prefix + header_size >>,
           calculated_bytes |-> ts[k].offsets[2] - ts[k].offsets[1]]]

Sized(ts, header_size, n) ==
  [k \in DOMAIN ts |->
     IF \E j \in FirstBad(ts, header_size, n) : j <= k THEN ts[k]
     ELSE [ts[k] EXCEPT !.calculated_bytes = ts[k].offsets[2] - ts[k].offsets[1]]]

validate_boundaries(ts, header_size, n) ==
  /\ m_tensors' = Sized(ts, header_size, n)
  /\ outcome' = IF FirstBad(ts, header_size, n) = {} THEN "Success"
                ELSE Verdict(ts[CHOOSE k \in FirstBad(ts, header_size, n) : TRUE],
                             header_size, n)

(* parse_json_header: the matches before the first number out of range.     *)

Representable(o) == o[1] < SizeMod /\ o[2] < SizeMod
Matches(offsets) ==
  LET good == {k \in 0 .. Len(offsets) : \A j \in 1 .. k : Representable(offsets[j])}
      n == CHOOSE k \in good : \A j \in good : j <= k
  IN  [k \in 1 .. n |-> [offsets |-> offsets[k], calculated_bytes |-> 0]]

(* parse *)

\* The early returns, in the code's order.
HeaderStatus(f) ==
  IF f.size < Prefix THEN "ErrOutOfBoundsRead"
  ELSE IF f.header_len = 0 \/ f.header_len > MaxHeader THEN "ErrMalformedHeader"
  ELSE IF Prefix + f.header_len > f.size THEN "ErrOutOfBoundsRead"
  ELSE IF ~f.braces THEN "ErrMalformedHeader"
  ELSE "Success"

\* The prefix or the header is refused: no tensor is read.
ParseRefused(f) ==
  /\ HeaderStatus(f) # "Success"
  /\ outcome' = HeaderStatus(f)
  /\ LET framed == f.size >= Prefix /\ f.header_len \in 1 .. MaxHeader
                     /\ Prefix + f.header_len <= f.size
     IN  /\ m_header' = [NoHeader EXCEPT !.header_size_bytes =
                                           IF framed THEN f.header_len ELSE 0]
         /\ m_cursor' = IF f.size < Prefix THEN 0
                        ELSE IF framed THEN Prefix + f.header_len ELSE Prefix
  /\ m_tensors' = << >>
  /\ file' = f

\* A match with an unrepresentable offset: the earlier ones stay.
ParseOverflow(f) ==
  /\ HeaderStatus(f) = "Success"
  /\ Len(Matches(f.offsets)) < Len(f.offsets)
  /\ m_header' = [NoHeader EXCEPT !.header_size_bytes = f.header_len]
  /\ m_tensors' = Matches(f.offsets)
  /\ m_cursor' = Prefix + f.header_len
  /\ outcome' = "ErrIntegerOverflow"
  /\ file' = f

\* A parse that forgets to clear the tensors of the previous one.
ParseValidateNoReset(f) ==
  /\ HeaderStatus(f) = "Success"
  /\ Len(Matches(f.offsets)) = Len(f.offsets)
  /\ m_header' = [header_size_bytes |-> f.header_len,
                  total_tensor_count |-> Len(m_tensors) + Len(f.offsets)]
  /\ Len(m_tensors) < 4
  /\ m_cursor' = Prefix + f.header_len
  /\ validate_boundaries(m_tensors \o Matches(f.offsets), f.header_len, f.size)
  /\ file' = f

ParseValidate(f) ==
  /\ HeaderStatus(f) = "Success"
  /\ Len(Matches(f.offsets)) = Len(f.offsets)
  /\ m_header' = [header_size_bytes |-> f.header_len,
                  total_tensor_count |-> Len(f.offsets)]
  /\ m_cursor' = Prefix + f.header_len
  /\ validate_boundaries(Matches(f.offsets), f.header_len, f.size)
  /\ file' = f

parse(f) == ParseRefused(f) \/ ParseOverflow(f) \/ ParseValidate(f)

\* The harness validates once more, and only after a successful parse.
Revalidate ==
  /\ outcome = "Success"
  /\ validate_boundaries(m_tensors, m_header.header_size_bytes, file.size)
  /\ UNCHANGED << m_header, m_cursor, file >>

Reset ==
  /\ m_header' = NoHeader /\ m_tensors' = << >> /\ m_cursor' = 0
  /\ outcome' = "reset" /\ file' = NoFile

Init ==
  /\ m_header = NoHeader /\ m_tensors = << >> /\ m_cursor = 0
  /\ file = NoFile /\ outcome = "reset"

Next ==
  \/ \E f \in Files : parse(f)
  \/ Revalidate
  \/ Reset

Spec == Init /\ [][Next]_safetensors

-----------------------------------------------------------------------------
(* Properties                                                               *)

\* The bytes of the file a tensor claims, from the start of its payload area.
PayloadStart == Prefix + m_header.header_size_bytes

\* Every accepted tensor lies inside the file and after its header, in
\* unbounded arithmetic, and its recorded size is the length of its range.
RangesInFile ==
  outcome = "Success" =>
    \A k \in DOMAIN m_tensors :
      LET o == m_tensors[k].offsets IN
      /\ o[1] <= o[2] /\ PayloadStart + o[2] <= file.size
      /\ m_tensors[k].calculated_bytes = o[2] - o[1]

\* A successful parse reports exactly the tensors of THIS file: nothing of an
\* earlier parse that failed half way, nothing dropped by a late error.
SuccessComplete ==
  outcome = "Success" =>
    /\ m_header.total_tensor_count = Len(file.offsets)
    /\ [k \in DOMAIN m_tensors |-> m_tensors[k].offsets] = file.offsets

\* Validating a parsed file again gives the same answer and changes nothing.
RevalidateStable == [][Revalidate => UNCHANGED safetensors]_safetensors

=============================================================================
