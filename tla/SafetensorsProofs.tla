-------------------------- MODULE SafetensorsProofs --------------------------
(***************************************************************************)
(* The Safetensors parser and its campaign, for every set of files and     *)
(* every limit: what a successful parse leaves in the object is a function *)
(* of the file alone, and the harness's second validation changes nothing. *)
(***************************************************************************)
EXTENDS SafetensorsCampaign, FoldLemmas

(* The inductive invariant *)

AnyFile == [size : Nat, header_len : Nat, braces : BOOLEAN, offsets : Seq(Nat \X Nat)]

\* What the auditor leaves for an accepted file.
Accepted(f) ==
  [k \in 1 .. Len(f.offsets) |->
     [offsets |-> f.offsets[k], calculated_bytes |-> f.offsets[k][2] - f.offsets[k][1]]]

\* A file whose header passes and whose tensors all pass the auditor.
Clean(f) ==
  /\ HeaderStatus(f) = "Success"
  /\ \A k \in 1 .. Len(f.offsets) :
       /\ Representable(f.offsets[k])
       /\ Verdict(Accepted(f)[k], f.header_len, f.size) = "Success"

\* The object after a success holds the file's own tensors, all of them
\* judged good: nothing of an earlier parse, nothing changed by validating twice.
ObjectInv ==
  outcome = "Success" =>
    /\ m_header = [header_size_bytes |-> file.header_len,
                   total_tensor_count |-> Len(file.offsets)]
    /\ m_tensors = Accepted(file)
    /\ Clean(file)

\* The file of a mutated input, as the harness sees it.
MutantShape(f, s) ==
  CASE s = "CorruptHeaderLength" -> f.header_len = HugeLength
    [] s = "InvalidJSONBrackets" -> ~f.braces
    [] s = "ExtremeDataOffsets" ->
         /\ f.header_len = 69 /\ f.braces /\ f.offsets = << << BigOffset, 100 >> >>
         /\ f.size <= Prefix + 69
    [] s = "MangleDTypeString" ->
         /\ f.header_len = 79 /\ f.braces /\ f.offsets = << << 0, 4 >> >>
         /\ f.size <= Prefix + 79
    [] OTHER -> TRUE

SafetensorsInv ==
  /\ file \in Files \cup {NoFile, out_buf}
  /\ out_buf \in AnyFile
  /\ strategy \in Strategies \cup {"unchanged", "none"}
  /\ stage \in {"caller", "fuzzed", "parsed", "validated"}
  /\ ObjectInv
  /\ stage = "caller" => out_buf = NoFile /\ strategy = "none"
  /\ stage = "fuzzed" => file = NoFile
  /\ stage # "caller" => strategy # "none"
  /\ MutantShape(out_buf, strategy)
  /\ strategy = "unchanged" => out_buf \in Files
  /\ stage \in {"parsed", "validated"} => file = out_buf /\ MutantsRefused

-----------------------------------------------------------------------------
(* The operators *)

\* Every file is a record the auditor's arithmetic is defined on.
LEMMA FilesTyped == Files \cup {NoFile} \subseteq AnyFile
<1>1. 0 .. (SizeMod - 1) \subseteq Nat
  BY SafetensorsAssumption
<1>2. NoFile \in AnyFile
  <2>1. << >> \in Seq(Nat \X Nat)
    OBVIOUS
  <2> QED BY <2>1 DEF AnyFile, NoFile
<1>3. ASSUME NEW f \in Files PROVE f \in AnyFile
  <2>1. f \in [size : 0 .. (SizeMod - 1), header_len : 0 .. (SizeMod - 1),
               braces : BOOLEAN, offsets : Seq(Nat \X Nat)]
    BY SafetensorsAssumption
  <2> QED BY <1>1, <2>1, Zenon DEF AnyFile
<1> QED BY <1>2, <1>3

\* The regular expression's loop reads the whole list exactly when no number
\* is out of range; the records it makes carry the offsets of the file.
LEMMA MatchesAll ==
  ASSUME NEW f \in AnyFile
  PROVE  /\ Len(Matches(f.offsets)) \in 0 .. Len(f.offsets)
         /\ Len(Matches(f.offsets)) = Len(f.offsets) <=>
              \A k \in 1 .. Len(f.offsets) : Representable(f.offsets[k])
         /\ Matches(f.offsets) =
              [k \in 1 .. Len(Matches(f.offsets)) |->
                 [offsets |-> f.offsets[k], calculated_bytes |-> 0]]
<1> DEFINE os == f.offsets
           good == {k \in 0 .. Len(os) : \A j \in 1 .. k : Representable(os[j])}
           n == CHOOSE k \in good : \A j \in good : j <= k
<1>1. Len(os) \in Nat
  BY DEF AnyFile
<1>2. 0 \in good /\ good \in SUBSET Int /\ IsFiniteSet(good)
  <2>1. good \in SUBSET (0 .. Len(os)) /\ IsFiniteSet(0 .. Len(os))
    BY <1>1, FS_Interval
  <2>2. IsFiniteSet(good)
    BY <2>1, FS_Subset
  <2> QED BY <1>1, <2>1, <2>2
<1>3. n \in good /\ \A j \in good : j <= n
  <2>1. \E k \in good : \A j \in good : j <= k
    <3> HIDE DEF good
    <3>1. Max(good) \in good /\ \A j \in good : Max(good) >= j
      BY <1>2, MaxMin
    <3> QED BY <1>2, <3>1
  <2> QED BY <2>1
<1>4. Matches(os) = [k \in 1 .. n |-> [offsets |-> os[k], calculated_bytes |-> 0]]
  BY DEF Matches
<1>5. n \in 0 .. Len(os) /\ \A j \in 1 .. n : Representable(os[j])
  BY <1>3
<1>6. (\A k \in 1 .. Len(os) : Representable(os[k])) => n >= Len(os)
  BY <1>1, <1>3
<1> HIDE DEF n
<1>7. Len(Matches(os)) = n
  BY <1>4, <1>5
<1>8. n = Len(os) <=> \A k \in 1 .. Len(os) : Representable(os[k])
  BY <1>1, <1>5, <1>6
<1> QED BY <1>4, <1>5, <1>7, <1>8 DEF os

\* The loop of validate_boundaries returns at a tensor exactly when some
\* tensor fails.
LEMMA NoFirstBad ==
  ASSUME NEW n \in Nat, NEW ts, DOMAIN ts = 1 .. n, NEW h, NEW size
  PROVE  FirstBad(ts, h, size) = {} <=>
           \A k \in 1 .. n : Verdict(ts[k], h, size) = "Success"
<1> DEFINE bad == {k \in 1 .. n : Verdict(ts[k], h, size) # "Success"}
<1>1. ASSUME bad # {} PROVE FirstBad(ts, h, size) # {}
  <2>1. bad \in SUBSET Int /\ IsFiniteSet(bad)
    <3>1. bad \in SUBSET (1 .. n) /\ IsFiniteSet(1 .. n)
      BY FS_Interval
    <3>2. 1 .. n \subseteq Int
      OBVIOUS
    <3> HIDE DEF bad
    <3>3. IsFiniteSet(bad)
      BY <3>1, FS_Subset
    <3> QED BY <3>1, <3>2, <3>3
  <2>2. Min(bad) \in bad /\ \A y \in bad : Min(bad) <= y
    <3> HIDE DEF bad
    <3> QED BY <1>1, <2>1, MaxMin
  <2> DEFINE k == Min(bad)
  <2> HIDE DEF k
  <2>3. k \in bad /\ \A y \in bad : k <= y
    BY <2>2 DEF k
  <2>4. k \in FirstBad(ts, h, size)
    BY <2>3 DEF FirstBad
  <2> QED BY <2>4
<1> QED BY <1>1 DEF FirstBad

\* Validating records that carry a file's offsets: a success leaves exactly
\* Accepted(f), whatever sizes the records had before.
LEMMA ValidateResult ==
  ASSUME NEW f \in AnyFile, NEW ts,
         DOMAIN ts = 1 .. Len(f.offsets),
         \A k \in 1 .. Len(f.offsets) :
           \E n \in Int : ts[k] = [offsets |-> f.offsets[k], calculated_bytes |-> n]
  PROVE  /\ FirstBad(ts, f.header_len, f.size) = {} <=>
              \A k \in 1 .. Len(f.offsets) :
                Verdict(Accepted(f)[k], f.header_len, f.size) = "Success"
         /\ FirstBad(ts, f.header_len, f.size) = {} =>
              Sized(ts, f.header_len, f.size) = Accepted(f)
<1>1. Len(f.offsets) \in Nat
  BY DEF AnyFile
<1>a. \A k \in 1 .. Len(f.offsets) :
        /\ ts[k].offsets = f.offsets[k] /\ Accepted(f)[k].offsets = f.offsets[k]
  <2> SUFFICES ASSUME NEW k \in 1 .. Len(f.offsets)
               PROVE  /\ ts[k].offsets = f.offsets[k]
                      /\ Accepted(f)[k].offsets = f.offsets[k]
    OBVIOUS
  <2>1. PICK n \in Int : ts[k] = [offsets |-> f.offsets[k], calculated_bytes |-> n]
    OBVIOUS
  <2>2. ts[k].offsets = f.offsets[k]
    BY <2>1
  <2>3. Accepted(f)[k].offsets = f.offsets[k]
    BY DEF Accepted
  <2> QED BY <2>2, <2>3
<1>2. \A k \in 1 .. Len(f.offsets) :
        Verdict(ts[k], f.header_len, f.size)
          = Verdict(Accepted(f)[k], f.header_len, f.size)
  BY <1>a, Zenon DEF Verdict
<1>3. FirstBad(ts, f.header_len, f.size) = {} <=>
        \A k \in 1 .. Len(f.offsets) : Verdict(ts[k], f.header_len, f.size) = "Success"
  BY <1>1, NoFirstBad
<1>4. ASSUME FirstBad(ts, f.header_len, f.size) = {}
      PROVE  Sized(ts, f.header_len, f.size) = Accepted(f)
  <2>1. \A k \in 1 .. Len(f.offsets) :
          [ts[k] EXCEPT !.calculated_bytes = ts[k].offsets[2] - ts[k].offsets[1]]
            = Accepted(f)[k]
    <3> SUFFICES ASSUME NEW k \in 1 .. Len(f.offsets)
                 PROVE  [ts[k] EXCEPT !.calculated_bytes =
                                       ts[k].offsets[2] - ts[k].offsets[1]]
                          = Accepted(f)[k]
      OBVIOUS
    <3>1. PICK n \in Int : ts[k] = [offsets |-> f.offsets[k], calculated_bytes |-> n]
      OBVIOUS
    <3> DEFINE o == f.offsets[k]
               r == [offsets |-> o, calculated_bytes |-> n]
               v == o[2] - o[1]
    <3>2. [r EXCEPT !.calculated_bytes = v] = [offsets |-> o, calculated_bytes |-> v]
      <4> HIDE DEF o, v
      <4> QED OBVIOUS
    <3>3. ts[k] = r /\ ts[k].offsets = o
      BY <3>1
    <3>4. Accepted(f)[k] = [offsets |-> o, calculated_bytes |-> v]
      BY DEF Accepted
    <3> HIDE DEF o, r
    <3> QED BY <3>2, <3>3, <3>4
  <2> QED BY <1>4, <2>1 DEF Sized, Accepted
<1> QED BY <1>2, <1>3, <1>4

-----------------------------------------------------------------------------
(* The parser *)

\* A parse leaves an object that is a function of its file: the tensors of an
\* earlier parse never survive into a success.
LEMMA ParseResult ==
  ASSUME NEW f \in AnyFile, parse(f)
  PROVE  file' = f /\ ObjectInv'
<1>1. CASE ParseRefused(f)
  BY <1>1 DEF ParseRefused, ObjectInv
<1>2. CASE ParseOverflow(f)
  BY <1>2 DEF ParseOverflow, ObjectInv
<1>3. CASE ParseValidate(f)
  <2> DEFINE ts == Matches(f.offsets)
  <2>1. /\ DOMAIN ts = 1 .. Len(f.offsets)
        /\ \A k \in 1 .. Len(f.offsets) :
             /\ Representable(f.offsets[k])
             /\ ts[k] = [offsets |-> f.offsets[k], calculated_bytes |-> 0]
    BY <1>3, MatchesAll DEF ParseValidate
  <2>2. \A k \in 1 .. Len(f.offsets) :
           \E n \in Int : ts[k] = [offsets |-> f.offsets[k], calculated_bytes |-> n]
    BY <2>1
  <2>3. HeaderStatus(f) = "Success" /\ file' = f
        /\ m_header' = [header_size_bytes |-> f.header_len,
                        total_tensor_count |-> Len(f.offsets)]
        /\ m_tensors' = Sized(ts, f.header_len, f.size)
    BY <1>3 DEF ParseValidate, validate_boundaries
  <2>4. outcome' = "Success" => FirstBad(ts, f.header_len, f.size) = {}
    <3> SUFFICES ASSUME FirstBad(ts, f.header_len, f.size) # {}
                 PROVE  outcome' # "Success"
      OBVIOUS
    <3>1. (CHOOSE k \in FirstBad(ts, f.header_len, f.size) : TRUE)
            \in FirstBad(ts, f.header_len, f.size)
      OBVIOUS
    <3> QED BY <1>3, <3>1 DEF ParseValidate, validate_boundaries, FirstBad
  <2> HIDE DEF ts
  <2>5. outcome' = "Success" =>
          /\ m_tensors' = Accepted(f)
          /\ \A k \in 1 .. Len(f.offsets) :
                Verdict(Accepted(f)[k], f.header_len, f.size) = "Success"
    BY <2>1, <2>2, <2>3, <2>4, ValidateResult
  <2>6. outcome' = "Success" => Clean(f)
    BY <2>1, <2>3, <2>5 DEF Clean
  <2> QED BY <2>3, <2>5, <2>6 DEF ObjectInv
<1> QED BY <1>1, <1>2, <1>3 DEF parse

\* The second validation of the harness finds every tensor good again and
\* writes the sizes that are already there.
LEMMA RevalidateResult ==
  ASSUME ObjectInv, file \in AnyFile, Revalidate
  PROVE  UNCHANGED safetensors
<1>1. /\ outcome = "Success" /\ m_header.header_size_bytes = file.header_len
      /\ m_tensors = Accepted(file) /\ Clean(file)
  BY DEF ObjectInv, Revalidate
<1>2. /\ DOMAIN m_tensors = 1 .. Len(file.offsets)
      /\ \A k \in 1 .. Len(file.offsets) : \E n \in Int :
           m_tensors[k] = [offsets |-> file.offsets[k], calculated_bytes |-> n]
  <2>1. \A k \in 1 .. Len(file.offsets) :
          file.offsets[k][2] - file.offsets[k][1] \in Int
    BY DEF AnyFile
  <2> QED BY <1>1, <2>1 DEF Accepted
<1>3. FirstBad(m_tensors, file.header_len, file.size) = {}
  BY <1>1, <1>2, ValidateResult DEF Clean
<1>4. m_tensors' = m_tensors
  BY <1>1, <1>2, <1>3, ValidateResult DEF Revalidate, validate_boundaries
<1> QED BY <1>1, <1>3, <1>4 DEF Revalidate, validate_boundaries, safetensors

\* A parser object on its own keeps the invariant too.
LEMMA NextResult ==
  ASSUME ObjectInv, file \in AnyFile, Next
  PROVE  ObjectInv' /\ file' \in Files \cup {NoFile, file}
<1>1. ASSUME NEW f \in Files, parse(f)
      PROVE  ObjectInv' /\ file' = f
  BY <1>1, ParseResult, FilesTyped
<1>2. CASE Revalidate
  <2>1. UNCHANGED safetensors
    BY <1>2, RevalidateResult
  <2> QED BY <2>1 DEF safetensors, ObjectInv
<1>3. CASE Reset
  BY <1>3 DEF Reset, ObjectInv
<1> QED BY <1>1, <1>2, <1>3 DEF Next

-----------------------------------------------------------------------------
(* The campaign *)

\* Overwriting a field of an input keeps the others.
LEMMA FileUpdates ==
  ASSUME NEW S, NEW v \in Nat, NEW b \in BOOLEAN,
         NEW r \in [size : Nat, header_len : Nat, braces : BOOLEAN, offsets : S]
  PROVE  /\ [r EXCEPT !.header_len = v]
              = [size |-> r.size, header_len |-> v, braces |-> r.braces, offsets |-> r.offsets]
         /\ [r EXCEPT !.braces = b]
              = [size |-> r.size, header_len |-> r.header_len, braces |-> b,
                 offsets |-> r.offsets]
         /\ [r EXCEPT !.size = v]
              = [size |-> v, header_len |-> r.header_len, braces |-> r.braces,
                 offsets |-> r.offsets]
OBVIOUS

\* Whatever the seed and wherever max_size cuts, the mutant keeps the shape
\* its strategy is written for.
LEMMA MutantMade ==
  ASSUME NEW seed \in Files, NEW s \in Strategies, NEW n \in MaxSizes
  PROVE  /\ Truncated(Apply(s, seed), n) \in AnyFile
         /\ MutantShape(Truncated(Apply(s, seed), n), s)
<1> DEFINE buf == Apply(s, seed)
<1>1. n \in Nat /\ BigOffset \in Nat /\ HugeLength \in Nat
  BY SafetensorsAssumption, CampaignAssumption DEF HugeLength
<1>2. seed \in AnyFile
  BY FilesTyped
<1>3. buf \in AnyFile
  <2>1. << << BigOffset, 100 >> >> \in Seq(Nat \X Nat) /\ << << 0, 4 >> >> \in Seq(Nat \X Nat)
    BY <1>1
  <2>2. \A o \in Nat \X Nat : \A k \in {69, 79} :
          << o >> \in Seq(Nat \X Nat) => HeaderOnly(k, o) \in AnyFile
    BY DEF HeaderOnly, AnyFile, Prefix
  <2>3. /\ [seed EXCEPT !.header_len = HugeLength] \in AnyFile
        /\ [seed EXCEPT !.braces = FALSE] \in AnyFile
    BY <1>1, <1>2, FileUpdates DEF AnyFile
  <2>4. /\ HeaderOnly(69, << BigOffset, 100 >>) \in AnyFile
        /\ HeaderOnly(79, << 0, 4 >>) \in AnyFile
    BY <1>1, <2>1, <2>2
  <2> QED BY <2>3, <2>4 DEF Apply, Strategies
<1>4. /\ s = "CorruptHeaderLength" => buf.header_len = HugeLength
      /\ s = "InvalidJSONBrackets" => buf.braces = FALSE
      /\ s = "ExtremeDataOffsets" => buf = HeaderOnly(69, << BigOffset, 100 >>)
      /\ s = "MangleDTypeString" => buf = HeaderOnly(79, << 0, 4 >>)
  BY <1>2 DEF Apply, AnyFile
<1> HIDE DEF buf
<1> DEFINE m == Truncated(buf, n)
<1>5. /\ m \in AnyFile /\ m.size <= buf.size
      /\ m.header_len = buf.header_len /\ m.braces = buf.braces
      /\ m.offsets = buf.offsets
  <2> DEFINE v == IF buf.size > n THEN n ELSE buf.size
  <2>1. buf.size \in Nat
    BY <1>3 DEF AnyFile
  <2>2. v \in Nat /\ v <= buf.size
    BY <1>1, <2>1
  <2>3. m = [buf EXCEPT !.size = v]
    BY <1>3 DEF Truncated, AnyFile
  <2> HIDE DEF v, m
  <2>4. m = [size |-> v, header_len |-> buf.header_len, braces |-> buf.braces,
             offsets |-> buf.offsets]
    BY <1>3, <2>2, <2>3, FileUpdates DEF AnyFile
  <2>5. m \in AnyFile
    BY <1>3, <2>2, <2>4 DEF AnyFile
  <2> QED BY <2>2, <2>4, <2>5
<1> HIDE DEF m
<1>6. MutantShape(m, s)
  BY <1>4, <1>5 DEF MutantShape, HeaderOnly, Strategies, Prefix
<1> QED BY <1>5, <1>6 DEF m, buf

\* Each mutant meets the check it is written for.
LEMMA MutantParsed ==
  ASSUME NEW f \in AnyFile, NEW s \in Strategies, MutantShape(f, s),
         f.size >= Prefix, parse(f)
  PROVE  /\ s = "CorruptHeaderLength" => outcome' = "ErrMalformedHeader"
         /\ s = "InvalidJSONBrackets" =>
              outcome' \in {"ErrMalformedHeader", "ErrOutOfBoundsRead"}
         /\ s = "ExtremeDataOffsets" =>
              outcome' = IF f.size = Prefix + f.header_len THEN "ErrMalformedHeader"
                         ELSE "ErrOutOfBoundsRead"
         /\ s = "MangleDTypeString" => outcome' = "ErrOutOfBoundsRead"
<1>1. MaxHeader \in Nat /\ SizeMod \in Nat /\ 79 <= MaxHeader /\ MaxHeader < HugeLength
      /\ BigOffset \in Nat /\ BigOffset > 100 /\ BigOffset < SizeMod /\ SizeMod > 95
  BY SafetensorsAssumption, CampaignAssumption DEF HugeLength
<1>2. f.size \in Nat /\ f.header_len \in Nat
  BY DEF AnyFile
<1>3. HeaderStatus(f) # "Success" => outcome' = HeaderStatus(f)
  BY DEF parse, ParseRefused, ParseOverflow, ParseValidate
<1>4. ASSUME s = "CorruptHeaderLength"
      PROVE  outcome' = "ErrMalformedHeader"
  <2>1. f.header_len = HugeLength
    BY <1>4 DEF MutantShape
  <2>2. HeaderStatus(f) = "ErrMalformedHeader"
    BY <1>1, <1>2, <2>1 DEF HeaderStatus, Prefix
  <2> QED BY <1>3, <2>2
<1>5. ASSUME s = "InvalidJSONBrackets"
      PROVE  outcome' \in {"ErrMalformedHeader", "ErrOutOfBoundsRead"}
  <2>1. ~f.braces
    BY <1>5 DEF MutantShape
  <2>2. HeaderStatus(f) \in {"ErrMalformedHeader", "ErrOutOfBoundsRead"}
    BY <2>1 DEF HeaderStatus
  <2> QED BY <1>3, <2>2
\* A single tensor in range of std::stoull: the outcome is its own verdict.
<1>6. ASSUME NEW o \in Nat \X Nat, f.offsets = << o >>, Representable(o),
             HeaderStatus(f) = "Success",
             NEW v, v # "Success",
             \A n : Verdict([offsets |-> o, calculated_bytes |-> n], f.header_len, f.size) = v
      PROVE  outcome' = v
  <2> DEFINE ts == Matches(f.offsets)
  <2>1. Len(f.offsets) = 1 /\ f.offsets[1] = o
    BY <1>6
  <2>a. \A k \in 1 .. Len(f.offsets) : Representable(f.offsets[k])
    BY <1>6, <2>1
  <2>b. Len(ts) = 1
    BY <2>a, <2>1, MatchesAll
  <2>c. ts = [k \in 1 .. 1 |-> [offsets |-> f.offsets[k], calculated_bytes |-> 0]]
    BY <2>b, MatchesAll
  <2>2. Len(ts) = 1 /\ DOMAIN ts = 1 .. 1
        /\ ts[1] = [offsets |-> o, calculated_bytes |-> 0]
    <3> HIDE DEF ts
    <3> QED BY <2>b, <2>c, <2>1
  <2>3. ParseValidate(f)
    BY <1>6, <2>1, <2>2 DEF parse, ParseRefused, ParseOverflow
  <2> HIDE DEF ts
  <2>4. Verdict(ts[1], f.header_len, f.size) = v
    BY <1>6, <2>2
  <2>5. FirstBad(ts, f.header_len, f.size) = {1}
    BY <1>6, <2>2, <2>4 DEF FirstBad
  <2>6. (CHOOSE k \in FirstBad(ts, f.header_len, f.size) : TRUE) = 1
    BY <2>5
  <2> QED BY <2>3, <2>4, <2>5, <2>6 DEF ParseValidate, validate_boundaries, ts
<1>7. ASSUME s = "ExtremeDataOffsets"
      PROVE  outcome' = IF f.size = Prefix + f.header_len THEN "ErrMalformedHeader"
                        ELSE "ErrOutOfBoundsRead"
  <2> DEFINE o == << BigOffset, 100 >>
  <2>1. f.header_len = 69 /\ f.braces /\ f.offsets = << o >> /\ f.size <= Prefix + 69
    BY <1>7 DEF MutantShape
  <2>2. CASE f.size < Prefix + 69
    <3>1. HeaderStatus(f) = "ErrOutOfBoundsRead"
      BY <1>1, <1>2, <2>1, <2>2 DEF HeaderStatus, Prefix
    <3> QED BY <1>2, <1>3, <2>1, <2>2, <3>1 DEF Prefix
  <2>3. CASE f.size = Prefix + 69
    <3>1. HeaderStatus(f) = "Success"
      BY <1>1, <1>2, <2>1, <2>3 DEF HeaderStatus, Prefix
    <3>2. \A n : Verdict([offsets |-> o, calculated_bytes |-> n], f.header_len, f.size)
                   = "ErrMalformedHeader"
      BY <1>1 DEF Verdict
    <3>3. o \in Nat \X Nat /\ Representable(o)
      BY <1>1 DEF Representable
    <3> HIDE DEF o
    <3>4. outcome' = "ErrMalformedHeader"
      BY <1>6, <2>1, <3>1, <3>2, <3>3
    <3> QED BY <2>1, <2>3, <3>4
  <2> QED BY <1>2, <2>1, <2>2, <2>3 DEF Prefix
<1>8. ASSUME s = "MangleDTypeString"
      PROVE  outcome' = "ErrOutOfBoundsRead"
  <2> DEFINE o == << 0, 4 >>
  <2>1. f.header_len = 79 /\ f.braces /\ f.offsets = << o >> /\ f.size <= Prefix + 79
    BY <1>8 DEF MutantShape
  <2>2. CASE f.size < Prefix + 79
    <3>1. HeaderStatus(f) = "ErrOutOfBoundsRead"
      BY <1>1, <1>2, <2>1, <2>2 DEF HeaderStatus, Prefix
    <3> QED BY <1>3, <3>1
  <2>3. CASE f.size = Prefix + 79
    <3>1. HeaderStatus(f) = "Success"
      BY <1>1, <1>2, <2>1, <2>3 DEF HeaderStatus, Prefix
    <3>2. \A n : Verdict([offsets |-> o, calculated_bytes |-> n], f.header_len, f.size)
                   = "ErrOutOfBoundsRead"
      <4>1. (Prefix + 79 + 4) % SizeMod = 91
        BY <1>1 DEF Prefix
      <4> QED BY <1>1, <2>1, <2>3, <4>1 DEF Verdict, Prefix
    <3>3. o \in Nat \X Nat /\ Representable(o)
      BY <1>1 DEF Representable
    <3> HIDE DEF o
    <3> QED BY <1>6, <2>1, <3>1, <3>2, <3>3
  <2> QED BY <1>2, <2>1, <2>2, <2>3 DEF Prefix
<1> QED BY <1>4, <1>5, <1>7, <1>8

\* The invariant holds in every state of the campaign.
THEOREM CampaignInvariant == CampaignSpec => []SafetensorsInv
<1>1. CampaignInit => SafetensorsInv
  BY FilesTyped DEF CampaignInit, Init, SafetensorsInv, ObjectInv, MutantShape, Strategies
<1>2. SafetensorsInv /\ [CampaignNext]_campaign => SafetensorsInv'
  <2> SUFFICES ASSUME SafetensorsInv, [CampaignNext]_campaign
               PROVE  SafetensorsInv'
    OBVIOUS
  <2> USE DEF SafetensorsInv
  <2>1. file \in AnyFile
    BY FilesTyped
  <2>2. CASE UNCHANGED campaign
    BY <2>2 DEF campaign, safetensors, ObjectInv, MutantsRefused
  <2>3. CASE stage = "caller" /\ Next /\ UNCHANGED << out_buf, strategy, stage >>
    BY <2>1, <2>3, NextResult
  <2>4. ASSUME NEW seed \in Files, NEW s \in Strategies, NEW n \in MaxSizes,
               afl_custom_fuzz(seed, s, n)
        PROVE  SafetensorsInv'
    <3>1. file = NoFile /\ UNCHANGED safetensors /\ stage' = "fuzzed"
      BY <2>4 DEF afl_custom_fuzz, Fresh
    <3>2. ObjectInv'
      BY <3>1 DEF ObjectInv, safetensors
    <3>3. CASE out_buf' = seed /\ strategy' = "unchanged"
      BY <3>1, <3>2, <3>3, FilesTyped DEF safetensors, MutantShape
    <3>4. CASE out_buf' = Truncated(Apply(s, seed), n) /\ strategy' = s
      BY <3>1, <3>2, <3>4, MutantMade DEF safetensors, Strategies
    <3> QED BY <2>4, <3>3, <3>4 DEF afl_custom_fuzz
  <2>5. ASSUME NEW input \in Files, AflRuns(input)
        PROVE  SafetensorsInv'
    <3>1. ObjectInv'
      BY <2>5 DEF AflRuns, ObjectInv, safetensors
    <3> QED BY <2>5, <3>1, FilesTyped DEF AflRuns, Fresh, safetensors, MutantShape
  <2>6. CASE HarnessSkips
    <3>1. ObjectInv'
      BY <2>6 DEF HarnessSkips, ObjectInv, safetensors
    <3> QED BY <2>6, <3>1, FilesTyped DEF HarnessSkips, safetensors, MutantShape, Strategies
  <2>7. CASE HarnessParses
    <3>1. file' = out_buf /\ ObjectInv' /\ UNCHANGED << out_buf, strategy >>
          /\ stage' = "parsed" /\ strategy # "none"
      BY <2>7, ParseResult DEF HarnessParses
    <3>2. MutantsRefused'
      <4>1. CASE strategy = "unchanged"
        BY <3>1, <4>1 DEF MutantsRefused
      <4>2. CASE strategy \in Strategies
        BY <2>7, <3>1, <4>2, MutantParsed DEF MutantsRefused, HarnessParses, Strategies
      <4> QED BY <3>1, <4>1, <4>2
    <3> QED BY <3>1, <3>2
  <2>8. CASE HarnessValidates
    <3>1. UNCHANGED safetensors /\ UNCHANGED << out_buf, strategy >>
          /\ stage = "parsed" /\ stage' = "validated"
      BY <2>1, <2>8, RevalidateResult DEF HarnessValidates
    <3>2. ObjectInv' /\ MutantsRefused'
      BY <3>1 DEF ObjectInv, MutantsRefused, safetensors
    <3> QED BY <3>1, <3>2 DEF safetensors
  <2>9. CASE HarnessResets
    <3>1. ObjectInv'
      BY <2>9 DEF HarnessResets, Reset, ObjectInv
    <3> QED BY <2>9, <3>1, FilesTyped DEF HarnessResets, Reset, MutantShape, Strategies
  <2> QED BY <2>2, <2>3, <2>4, <2>5, <2>6, <2>7, <2>8, <2>9 DEF CampaignNext
<1> QED BY <1>1, <1>2, PTL DEF CampaignSpec

\* A sequence is the function of its elements.
LEMMA SeqIsFunction ==
  ASSUME NEW S, NEW s \in Seq(S)
  PROVE  s = [k \in 1 .. Len(s) |-> s[k]]
OBVIOUS

\* A successful parse reports exactly the tensors of its own file, however
\* the object was used before and whatever was validated again after it.
THEOREM SuccessCompleteHolds == CampaignSpec => []SuccessComplete
<1>1. SafetensorsInv => SuccessComplete
  <2> SUFFICES ASSUME SafetensorsInv, outcome = "Success"
               PROVE  /\ m_header.total_tensor_count = Len(file.offsets)
                      /\ [k \in DOMAIN m_tensors |-> m_tensors[k].offsets] = file.offsets
    BY DEF SuccessComplete
  <2>1. /\ m_header.total_tensor_count = Len(file.offsets) /\ m_tensors = Accepted(file)
    BY DEF SafetensorsInv, ObjectInv
  <2>2. file.offsets \in Seq(Nat \X Nat)
    BY FilesTyped DEF SafetensorsInv, AnyFile
  <2>3. DOMAIN m_tensors = 1 .. Len(file.offsets)
        /\ \A k \in 1 .. Len(file.offsets) : m_tensors[k].offsets = file.offsets[k]
    BY <2>1 DEF Accepted
  <2>4. file.offsets = [k \in 1 .. Len(file.offsets) |-> file.offsets[k]]
    BY <2>2, SeqIsFunction
  <2>5. [k \in DOMAIN m_tensors |-> m_tensors[k].offsets] = file.offsets
    BY <2>3, <2>4, Zenon
  <2> QED BY <2>1, <2>5
<1> QED BY <1>1, CampaignInvariant, PTL

\* Every mutant the campaign feeds the parser is refused by the check it was
\* written for, for every seed, truncation, limit and word size.
THEOREM MutantsRefusedHolds == CampaignSpec => []MutantsRefused
<1>1. SafetensorsInv => MutantsRefused
  BY DEF SafetensorsInv, MutantsRefused
<1> QED BY <1>1, CampaignInvariant, PTL

\* validate_boundaries is idempotent on the object a successful parse leaves:
\* the harness's second call cannot disagree with the first.
THEOREM RevalidateStableHolds == CampaignSpec => RevalidateStable
<1>1. SafetensorsInv => (Revalidate => UNCHANGED safetensors)
  BY FilesTyped, RevalidateResult DEF SafetensorsInv
<1>2. SafetensorsInv /\ [CampaignNext]_campaign
        => [Revalidate => UNCHANGED safetensors]_safetensors
  BY <1>1
<1> QED BY <1>2, CampaignInvariant, PTL DEF CampaignSpec, RevalidateStable

\* No well-framed file has an offset whose sum with the header wraps.
EndsDoNotWrap ==
  \A f \in Files : HeaderStatus(f) = "Success" =>
    \A k \in 1 .. Len(f.offsets) :
      Representable(f.offsets[k]) => Prefix + f.header_len + f.offsets[k][2] < SizeMod

\* The wrap of the end is the only thing wrong with the auditor's arithmetic:
\* where it does not happen, every tensor of an accepted file lies inside it.
THEOREM RangesInFileHolds ==
  ASSUME EndsDoNotWrap
  PROVE  CampaignSpec => []RangesInFile
<1>1. SafetensorsInv => RangesInFile
  <2> SUFFICES ASSUME SafetensorsInv, outcome = "Success", NEW k \in DOMAIN m_tensors
               PROVE  LET o == m_tensors[k].offsets IN
                      /\ o[1] <= o[2] /\ PayloadStart + o[2] <= file.size
                      /\ m_tensors[k].calculated_bytes = o[2] - o[1]
    BY DEF RangesInFile
  <2>1. /\ m_header.header_size_bytes = file.header_len
        /\ m_tensors = Accepted(file) /\ Clean(file)
    BY DEF SafetensorsInv, ObjectInv
  <2>2. file \in AnyFile
    BY FilesTyped DEF SafetensorsInv
  <2>3. k \in 1 .. Len(file.offsets)
    BY <2>1 DEF Accepted
  <2> DEFINE o == file.offsets[k]
  <2>4. m_tensors[k] = [offsets |-> o, calculated_bytes |-> o[2] - o[1]]
    BY <2>1, <2>3 DEF Accepted
  <2>5. o \in Nat \X Nat /\ file.header_len \in Nat /\ file.size \in Nat /\ SizeMod \in Nat
    BY <2>2, <2>3, SafetensorsAssumption DEF AnyFile
  <2>6. Representable(o) /\ Verdict(m_tensors[k], file.header_len, file.size) = "Success"
    BY <2>1, <2>3 DEF Clean
  <2>7. file \in Files
    <3>1. HeaderStatus(file) = "Success"
      BY <2>1 DEF Clean
    <3>2. file # NoFile
      BY <3>1 DEF HeaderStatus, NoFile, Prefix
    <3>3. strategy \notin Strategies \/ file # out_buf \/ stage \notin {"parsed", "validated"}
      BY DEF SafetensorsInv, MutantsRefused, Strategies
    <3> QED BY <3>2, <3>3 DEF SafetensorsInv
  <2>8. Prefix + file.header_len + o[2] < SizeMod
    BY <2>1, <2>3, <2>6, <2>7 DEF EndsDoNotWrap, Clean
  <2> HIDE DEF o
  <2>9. o[1] \in Nat /\ o[2] \in Nat /\ m_tensors[k].offsets = o
        /\ m_tensors[k].calculated_bytes = o[2] - o[1]
    BY <2>4, <2>5
  <2> DEFINE e == Prefix + file.header_len + o[2]
  <2>10. e % SizeMod = e
    BY <2>5, <2>8, <2>9 DEF Prefix
  <2>11. o[1] <= o[2] /\ e % SizeMod <= file.size
    <3>1. e % SizeMod \in Nat
      BY <2>5, <2>8, <2>9, <2>10 DEF Prefix
    <3> QED BY <2>5, <2>6, <2>9, <3>1 DEF Verdict
  <2> QED BY <2>1, <2>9, <2>10, <2>11 DEF PayloadStart
<1> QED BY <1>1, CampaignInvariant, PTL

=============================================================================
