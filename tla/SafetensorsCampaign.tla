------------------------- MODULE SafetensorsCampaign -------------------------
(***************************************************************************)
(* A fuzzing campaign on the Safetensors parser: the AFL++ mutator         *)
(* (mutators/safetensors_mutator.cpp) turns a seed into an input, and the  *)
(* harness (harnesses/fuzz_safetensors.cpp) runs a fresh parser object on  *)
(* it.  Between inputs the object may also be used directly, by any other  *)
(* caller of the parser.  The draws of std::mt19937 are arbitrary.         *)
(***************************************************************************)
EXTENDS SafetensorsParser

CONSTANTS
  MaxSizes,    \* max_size of a call: the largest input AFL++ accepts
  BigOffset    \* scaled 99999999, more than the 100 it is paired with

\* The limit on the header admits the mutator's own headers and refuses its
\* huge length.
ASSUME CampaignAssumption ==
  /\ MaxSizes \subseteq Nat /\ BigOffset \in 101 .. (SizeMod - 1)
  /\ MaxHeader \in 79 .. (SizeMod - 17)

VARIABLES
  out_buf,     \* what afl_custom_fuzz handed to AFL++
  strategy,    \* how it was made
  stage        \* what the harness does next, "caller" outside of it

campaign == << safetensors, out_buf, strategy, stage >>

Strategies == {"CorruptHeaderLength", "InvalidJSONBrackets", "ExtremeDataOffsets",
               "MangleDTypeString"}

(* The mutator *)

HugeLength == SizeMod - 16    \* 0xFFFFFFFFFF000000

\* A file that is nothing but a header of n bytes with one tensor.
HeaderOnly(n, offsets) ==
  [size |-> Prefix + n, header_len |-> n, braces |-> TRUE, offsets |-> << offsets >>]

Apply(s, buf) ==
  CASE s = "CorruptHeaderLength" -> [buf EXCEPT !.header_len = HugeLength]
    [] s = "InvalidJSONBrackets" -> [buf EXCEPT !.braces = FALSE]
    [] s = "ExtremeDataOffsets"  -> HeaderOnly(69, << BigOffset, 100 >>)
    [] s = "MangleDTypeString"   -> HeaderOnly(79, << 0, 4 >>)

Truncated(buf, max_size) == [buf EXCEPT !.size = IF @ > max_size THEN max_size ELSE @]

Fresh == m_header = NoHeader /\ m_tensors = << >> /\ m_cursor = 0 /\ file = NoFile

\* A seed too short to hold a header is handed back as it is.
afl_custom_fuzz(seed, s, max_size) ==
  /\ stage = "caller" /\ Fresh
  /\ \/ /\ seed.size < 12
        /\ out_buf' = seed /\ strategy' = "unchanged"
     \/ /\ seed.size >= 12
        /\ out_buf' = Truncated(Apply(s, seed), max_size) /\ strategy' = s
  /\ stage' = "fuzzed"
  /\ UNCHANGED safetensors

\* AFL++ runs a seed as it is, or after mutations of its own.
AflRuns(input) ==
  /\ stage = "caller" /\ Fresh
  /\ out_buf' = input /\ strategy' = "unchanged"
  /\ stage' = "fuzzed"
  /\ UNCHANGED safetensors

(* The harness: LLVMFuzzerTestOneInput *)

HarnessSkips ==
  /\ stage = "fuzzed" /\ out_buf.size < Prefix
  /\ stage' = "caller"
  /\ out_buf' = NoFile /\ strategy' = "none"
  /\ UNCHANGED safetensors

HarnessParses ==
  /\ stage = "fuzzed" /\ out_buf.size >= Prefix
  /\ parse(out_buf)
  /\ stage' = "parsed"
  /\ UNCHANGED << out_buf, strategy >>

\* Only a success is validated a second time.
HarnessValidates ==
  /\ stage = "parsed"
  /\ Revalidate
  /\ stage' = "validated"
  /\ UNCHANGED << out_buf, strategy >>

HarnessResets ==
  /\ \/ stage = "validated"
     \/ stage = "parsed" /\ outcome # "Success"
  /\ Reset
  /\ stage' = "caller"
  /\ out_buf' = NoFile /\ strategy' = "none"

CampaignInit == Init /\ out_buf = NoFile /\ strategy = "none" /\ stage = "caller"

CampaignNext ==
  \/ stage = "caller" /\ Next /\ UNCHANGED << out_buf, strategy, stage >>
  \/ \E seed \in Files, s \in Strategies, n \in MaxSizes : afl_custom_fuzz(seed, s, n)
  \/ \E input \in Files : AflRuns(input)
  \/ HarnessSkips
  \/ HarnessParses
  \/ HarnessValidates
  \/ HarnessResets

CampaignSpec == CampaignInit /\ [][CampaignNext]_campaign

-----------------------------------------------------------------------------
(* Properties                                                               *)

\* What the campaign tests: every mutant meets the check it is written for,
\* and none is accepted, whatever the seed and wherever max_size cuts it.
\* The exception is the unknown dtype, which the parser never judges: that
\* mutant is refused because its payload is missing.
MutantsRefused ==
  stage \in {"parsed", "validated"} =>
    LET whole == out_buf.size = Prefix + out_buf.header_len IN
    CASE strategy = "CorruptHeaderLength" -> outcome = "ErrMalformedHeader"
      [] strategy = "InvalidJSONBrackets" ->
           outcome \in {"ErrMalformedHeader", "ErrOutOfBoundsRead"}
      [] strategy = "ExtremeDataOffsets" ->
           outcome = IF whole THEN "ErrMalformedHeader" ELSE "ErrOutOfBoundsRead"
      [] strategy = "MangleDTypeString" -> outcome = "ErrOutOfBoundsRead"
      [] strategy = "unchanged" -> TRUE

=============================================================================
