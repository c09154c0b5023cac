---------------------------- MODULE GGUFCampaign ----------------------------
(***************************************************************************)
(* A fuzzing campaign on the GGUF parser: the AFL++ mutator                *)
(* (mutators/gguf_mutator.cpp) turns a seed into an input, and the harness *)
(* (harnesses/fuzz_gguf.cpp) runs a fresh parser object on it.  Between    *)
(* inputs the object may also be used directly, by any other caller.       *)
(*                                                                         *)
(* GGUFParser lets every read return anything.  Here the fields at the     *)
(* fixed offsets 0, 4, 8, 16 and 24, those the mutator writes, have the    *)
(* values of the buffer; the 8 bytes at 24 are the length of the first     *)
(* string, a key or a tensor name.  The mutator's source names a           *)
(* distribution the library does not have and a literal of 80 bits: they   *)
(* are read as std::uniform_int_distribution and the literal's low 64      *)
(* bits.  The draws are arbitrary.                                         *)
(***************************************************************************)
EXTENDS GGUFParser

CONSTANTS
  Seeds,      \* [size, magic, version, tensors, metadata, first] records
  MaxSizes    \* max_size of a call: the largest input AFL++ accepts

\* Every limit of the parser is below the numbers the mutator plants.
ASSUME CampaignAssumption ==
  /\ Seeds \subseteq [size : Nat, magic : BOOLEAN, version : Nat, tensors : Nat,
                      metadata : Nat, first : Nat]
  /\ MaxSizes \subseteq Nat
  /\ \A n \in {MaxMetadata, MaxTensors, MaxString} : n < SizeMod - 1

VARIABLES
  out_buf,    \* what afl_custom_fuzz handed to AFL++
  strategy,   \* how it was made
  stage       \* what the harness does next, "caller" outside of it

afl == << out_buf, strategy >>
campaign == << gguf, out_buf, strategy, stage >>

NoBuffer == [size |-> 0, magic |-> FALSE, version |-> 0, tensors |-> 0,
             metadata |-> 0, first |-> 0]

(* The mutator *)

HugeCount == SizeMod - 1   \* 0xFFFFFFFFFFFF0000, 0x7FFFFFFFFFFFFFFF, 0x0000FFFFFFFFFFFF

\* Strategy -> the buffers it makes of b when b is long enough for it.
Mutations(b) ==
  [CorruptMagic         |-> {[b EXCEPT !.magic = FALSE]},
   CorruptVersion       |-> {[b EXCEPT !.version = v] : v \in {0, 9999}},
   ExtremeTensorCount   |-> {[b EXCEPT !.tensors = HugeCount]},
   ExtremeMetadataCount |-> {[b EXCEPT !.metadata = HugeCount]},
   MangleStringLength   |-> {[b EXCEPT !.first = HugeCount]},
   BitFlipPayload       |-> {[b EXCEPT !.first = n] : n \in StringLengths \ {b.first}}]

\* The shortest buffer a strategy changes.
NeededSize ==
  [CorruptMagic |-> 8, CorruptVersion |-> 8, ExtremeTensorCount |-> 16,
   ExtremeMetadataCount |-> 24, MangleStringLength |-> 32, BitFlipPayload |-> 25]

Truncated(b, max_size) == [b EXCEPT !.size = IF @ > max_size THEN max_size ELSE @]

Fresh ==
  /\ pc = "idle" /\ m_header = NoHeader /\ m_tensors = << >>
  /\ m_metadata = NoMetadata /\ m_cursor = 0 /\ size = 0

\* A short seed is handed back as it is, or copied without the mutation.
afl_custom_fuzz(seed, s, max_size) ==
  /\ stage = "caller" /\ Fresh
  /\ \/ /\ seed.size < 8
        /\ out_buf' = seed /\ strategy' = "unchanged"
     \/ /\ seed.size >= 8 /\ seed.size < NeededSize[s]
        /\ out_buf' = Truncated(seed, max_size) /\ strategy' = "unchanged"
     \/ /\ seed.size >= NeededSize[s]
        /\ \E b \in Mutations(seed)[s] : out_buf' = Truncated(b, max_size)
        /\ strategy' = s
  /\ stage' = "fuzzed"
  /\ UNCHANGED gguf

\* AFL++ runs a seed as it is, or after mutations of its own.
AflRuns(input) ==
  /\ stage = "caller" /\ Fresh
  /\ out_buf' = input /\ strategy' = "unchanged"
  /\ stage' = "fuzzed"
  /\ UNCHANGED gguf

(* The harness: LLVMFuzzerTestOneInput *)

HarnessSkips ==
  /\ stage = "fuzzed" /\ out_buf.size < 8
  /\ stage' = "caller"
  /\ out_buf' = NoBuffer /\ strategy' = "none"
  /\ UNCHANGED gguf

HarnessParses ==
  /\ stage = "fuzzed" /\ out_buf.size >= 8
  /\ Parse(out_buf.size)
  /\ stage' = "parsing"
  /\ UNCHANGED afl

\* A step of the parser on the fields of this buffer.
HarnessReads ==
  /\ stage = "parsing"
  /\ \/ ReadMagic /\ (outcome' = "ErrInvalidMagic" <=> ~out_buf.magic)
     \/ ReadVersion(out_buf.version)
     \/ ReadCounts(out_buf.tensors, out_buf.metadata)
     \/ \E key \in Keys, key_len \in StringLengths \cup {out_buf.first},
           len \in StringLengths, type \in ValueTypes :
          (m_cursor = 24 => key_len = out_buf.first) /\ ReadPair(key, key_len, type, len)
     \/ \E name_len \in StringLengths \cup {out_buf.first}, shape \in Shapes,
           offset \in Offsets :
          (m_cursor = 24 => name_len = out_buf.first) /\ ReadTensor(name_len, shape, offset)
     \/ FinishParse
  /\ UNCHANGED << afl, stage >>

\* Only a success is validated a second time.
HarnessValidates ==
  /\ stage = "parsing"
  /\ Revalidate
  /\ stage' = "validated"
  /\ UNCHANGED afl

HarnessResets ==
  /\ \/ stage = "validated"
     \/ stage = "parsing" /\ pc = "idle" /\ outcome # "Success"
  /\ Reset
  /\ stage' = "caller"
  /\ out_buf' = NoBuffer /\ strategy' = "none"

CampaignInit == Init /\ out_buf = NoBuffer /\ strategy = "none" /\ stage = "caller"

CallerParses == stage = "caller" /\ ParseStep /\ UNCHANGED << afl, stage >>
Harness ==
  HarnessSkips \/ HarnessParses \/ HarnessReads \/ HarnessValidates \/ HarnessResets

CampaignNext ==
  \/ stage = "caller" /\ Next /\ UNCHANGED << afl, stage >>
  \/ \E seed \in Seeds, s \in DOMAIN NeededSize, n \in MaxSizes : afl_custom_fuzz(seed, s, n)
  \/ \E input \in Seeds : AflRuns(input)
  \/ Harness

CampaignSpec ==
  /\ CampaignInit /\ [][CampaignNext]_campaign
  /\ WF_campaign(CallerParses) /\ WF_campaign(Harness)

-----------------------------------------------------------------------------
(* Properties                                                               *)

\* What the campaign tests: every mutant of a header field is refused by the
\* check it is written for, before a single pair or tensor is stored, so no
\* huge count or length ever drives a loop, whatever the seed and wherever
\* max_size cuts it.  A mangled string length needs a string to be there,
\* and a flipped bit may give a length that fits.
MutantsRefused ==
  /\ stage = "parsing" /\ pc = "idle"
  /\ \/ strategy \in DOMAIN NeededSize \ {"MangleStringLength", "BitFlipPayload"}
     \/ strategy = "MangleStringLength" /\ out_buf.metadata + out_buf.tensors > 0
  => /\ outcome # "Success" /\ pairs = 0 /\ m_tensors = << >>
     /\ out_buf.magic /\ strategy = "CorruptVersion" => outcome = "ErrUnsupportedVersion"

\* Every input handed to the harness is answered: control returns to AFL++.
InputsReturn == stage # "caller" ~> stage = "caller"

=============================================================================
