# A TLA+ verification of sentinel-rt

sentinel-rt is a C++20/CUDA toolkit that audits native AI runtimes: a VRAM
auditor that wraps `cudaMalloc` and `cudaFree`, adapters that put LibTorch, vLLM
and llama.cpp on top of it, zero-dependency parsers for GGUF, Safetensors and
ONNX with fuzzing harnesses, AFL++ mutators, and crash triage in C++ and Python.
This directory models its core, model-checks it with TLC and proves with TLAPS, for
every value of the constants, the safety properties that the runs check on small
instances: of the auditor, the adapters, the three parsers with their campaigns and
the triage. Paths below are relative to the repository root.

## Inventory

| component | state | operations | interacts with |
|---|---|---|---|
| `CUDASanitizer` (`src/sanitizers/cuda_sanitizer.cu`) | `m_mutex`, `m_tracked_regions`, `m_last_violation`, `m_total_bytes` | `audit_malloc`, `audit_free`, `check_bounds`, `poison_region`, `unpoison_region`, `reset`, getters | a process-wide singleton called by all threads; calls the CUDA driver |
| `LibTorchAdapter` | `m_tensors` | `allocate_tensor`, `validate_view_access`, `free_tensor`, `reset`, destructor | the auditor |
| `VLLMAdapter` | `m_blocks` | `allocate_kv_block`, `validate_token_access`, `free_kv_block`, `reset`, defaulted destructor | the auditor |
| `LlamaCppAdapter` | `m_params`, `m_gpu_context_ptr`, `m_allocated_bytes`, `m_initialized` | `init_context`, `audit_tokens`, `audit_prompt_string`, `release`, destructor, defaulted moves | the auditor |
| `GGUFParser` | `m_header`, `m_metadata`, `m_tensors`, `m_cursor` | `parse`, `validate_tensor_metadata`, `reset` | its harness |
| `SafetensorsParser` | `m_header`, `m_tensors`, `m_cursor` | `parse`, `validate_boundaries`, `reset` | its harness |
| `ONNXParser` | `m_header`, `m_nodes`, `m_initializers`, `m_cursor` | `parse`, `validate_graph_metadata`, `reset` | its harness |
| `CrashTriager` (`scripts/triage_crashes.py`) | futures of a thread pool, `unique_crashes`, `total_processed`, the report file | `run_target`, `parse_asan_log`, `triage_all`, `main` | the crash directory, the target binary |
| `CrashAnalyzer` | none of its own; exported report files | `analyze_signal`, `analyze_sanitizer_log`, `classify_cwe`, `evaluate_severity`, `export_json` | signal handlers, logs |
| mutators (`mutators/*.cpp`) | a generator and the output buffer of one call | `afl_custom_fuzz` | AFL++, the harnesses |
| harnesses | a fresh parser per input | `LLVMFuzzerTestOneInput` | parsers, auditor |
| campaign scripts | none | command lines of AFL++ tools | AFL++, libFuzzer |

What is hard here:

* the auditor changes its table under a lock but calls the driver outside it
  (`audit_malloc`, `audit_free`) or many times under it (`reset`), so the table and
  the driver's heap change at different moments, and either driver call may fail;
* addresses are reused by the driver, so records and pointers go stale;
* every size is an unsigned word, and sums and products are guarded in some places
  and not in others;
* parsers must stay inside a buffer that lies about its counts and lengths, must
  end, and are reused after an error left them half filled;
* the mutators aim at single checks of the parsers, and their output may be cut
  anywhere by `max_size`;
* the triage script merges results in completion order, with hanging targets, and
  overwrites the last report; two classifiers judge the same log in different ways.

What makes each component correct is stated in its module and summarised below;
`PROJECT.json` lists the hazards line by line with the properties aimed at them.

## Modules

| module | models |
|---|---|
| `CUDASanitizer` | the auditor, one action per lock scope or driver call, any number of threads |
| `CUDASanitizerInv` | its inductive invariant, and the ledger it implements |
| `VRAMLedger` | abstract specification: an atomic ledger of disjoint regions |
| `CUDASanitizerProofs` | the theorems about the auditor |
| `CUDASanitizerClients` | the auditor with the pointers callers still hold after a free, for what its header promises about double frees |
| `AuditedVRAM` | the ledger as the adapters call it |
| `LibTorchAdapter`, `VLLMAdapter`, `LlamaCppAdapter` | the adapters |
| `AdapterRuntime` | the three adapters on one auditor that a third party may reset, and the properties across them |
| `AdapterRuntimeInv`, `AdapterRuntimeProofs` | its inductive invariant and the theorems |
| `GGUFParser`, `SafetensorsParser`, `ONNXParser` | the parsers |
| `GGUFCampaign`, `SafetensorsCampaign` | AFL++ mutator, harness and parser together |
| `GGUFProofs`, `SafetensorsProofs`, `ONNXProofs` | the theorems about parsers and campaigns |
| `LogText` | what a search finds in a log, with and without lowering it |
| `CrashTriager` | the triage script, from the scan of the directory to its exit code |
| `CrashAnalyzer` | the C++ classifier and the export of its reports |
| `TriagePipeline` | both classifiers on the same replays |
| `TriagePipelineProofs` | the theorems about the triage |
| `FoldLemmas` | induction over finite sets and intervals, sums, folds and remainders, for the proofs |
| `MC*` | finite instances for TLC |

### The auditor

`m_tracked_regions`, `m_total_bytes`, `m_last_violation` and `m_mutex` are the
members; `vram` is the driver's heap (external: a block is placed anywhere off the
live ones, and either call may fail without effect); `pc` and `arg` say where each
thread's call is and what it carries. `audit_malloc` is `AuditMallocAllocate`
(driver, no lock) then `AuditMallocRegister` (locked), or `AuditMallocRefused` then
`AuditMallocReport`; `audit_free` is `AuditFreeUnregister` (locked) then
`AuditFreeRelease` (driver); `reset` is `ResetBegin`, one `ResetFree` per region in
any order, `ResetEnd`, with the lock held throughout. A lock scope without a driver
call is one action taken while the lock is free. All arithmetic is modulo
`SizeMod`. `lost` is a history variable: live blocks whose `cudaFree` failed.
The getters and the destructor's warning change nothing and are left out.

### The adapters

`Implementation` (proved) says that the auditor's table changes as `VRAMLedger`
does, so an adapter's call is one ledger step and steps of adapters interleave at
every auditor call: `reset()` of an adapter is one step per record, `init_context`
is `release()` and then, in a later step, the allocation. Requests so large that
the padded size wraps are outside that theorem and outside `AuditedVRAM`
(assumption `BoundedRequests`). `audit_prompt_string` is a stateless comparison
and is left out.

`CUDASanitizer::reset()` is public and the auditor is a singleton, so
`AuditorReset` lets a third party call it at any moment. It frees every region
under the adapters' records. The history variable `forgotten` holds the addresses
that such records still have; an address leaves it when no record holds it any
more. The properties across adapters are stated for all other addresses (`Sound`):
a reset damages the records made before it and whoever is handed one of their
addresses, and nobody else. `NothingElseLeaks` needs no such premise.

### The parsers

The GGUF parser reads forward only, so the buffer is a length and each read that
fits returns a value from a small set. The Safetensors file is the length, the
prefix, the braces and the list of offset pairs the regular expression matches;
numbers beyond the word are those `std::stoull` refuses. The ONNX loop runs on real
bytes: varints, lengths and the wrapping cursor are the point, so its word is scaled
(10 bits, two varint groups, a 5-bit field number) as 64 bits, ten groups and 32 bits
are in the code; the last group sticks out of the word in both. `node_count`
saturates just above its cap. Exceptions and error statuses are outcomes. Direct
callers revalidate only after a success and may parse again after anything, which
is more than one harness run does.

A campaign adds the mutator and the harness. `afl_custom_fuzz` applies a strategy
to the fields the parser will read (`Mutations`, `Apply`), leaves short seeds alone
and cuts the result to `max_size`; `AflRuns` is an input AFL++ made itself. The
harness skips short inputs, parses, validates once more after a success and resets.
In `GGUFCampaign` the parser's free choices are narrowed to the buffer's values at
the offsets the mutator writes (0, 4, 8, 16 and 24); the rest of the buffer stays
arbitrary. `gguf_mutator.cpp` as it stands names a distribution the standard library
does not have and a literal of 80 bits; the model reads them as
`std::uniform_int_distribution` and the literal's low 64 bits. In
`SafetensorsCampaign` the two JSON mutants keep their real lengths, 69 and 79 bytes.

### The triage script

Futures move from submitted to running (at most `max_workers`), finished and
collected; `as_completed` may yield any finished one. A log is what `parse_asan_log`
looks at; a text in it is the set of the searched phrases that occur in it, each
with its spelling (`LogText`), so a phrase inside a longer word counts and capitals
matter to a search that does not lower them. The truncated hash of a signature is taken to be injective. Around the pool
are `scan` (files that are neither folders nor hidden), `WriteSummary`, and what can
raise: the constructor's checks (`ScanRaises`) and the writing of the report
(`WriteRaises`), which leaves the earlier report or a truncated one. `output` is the
report file.

`CrashAnalyzer` is given the logs of the same replays once the script has exited (the
two share no state, so their order does not matter), or a signal. `classify_cwe`
searches the whole log for phrases as they stand, `parse_asan_log` mostly the report
type, lowered, in another order; `evaluate_severity` looks at the address too. The numeric address is
the first one in the log, 0 without one; one of more than 64 bits makes `stoull`
throw, and the call has no result. `export_json` writes the last report, fails to
open its file, or is cut short.

## Runs

Passing:

| run | instance | shows |
|---|---|---|
| `auditor` | 2 threads, payloads 1-2, redzones 0-1, heap of 4, word of 8 | `IInv`, `OneHolder` (every live block has exactly one holder: nothing leaks except by a failed `cudaFree`, nothing is released twice), `CudaFreeOfLive`, `TotalBytesExact`, `CheckBoundsExact`, and the refinement `ImplementsLedger` |
| `auditor_liveness` | 2 threads, heap of 2 | `LockReleased`, `CallsReturn` |
| `adapters` | 2 tensors, 1 block, 2 contexts, 2 places in the heap, word of 64, resets of the auditor | `RuntimeInv`, the inductive invariant, with its parts `RecordsBacked`, `OneRecordPerRegion`, `NothingElseLeaks`, and `ViewAccessSound`, `TokenAccessSound`, `TokensAddressable`, `PromptFits` of the access checks |
| `gguf` | buffers of 3 to 100 bytes, up to 2 pairs and 2 tensors; all six mutations, cut at 7, 28 and 100 | `CursorInBuffer`, `SuccessComplete`, `SizesExact`, `ParseEnds`, `MutantsRefused` (a header mutant is refused before a pair or tensor is stored), `InputsReturn` (the harness answers every input) |
| `safetensors` | files of 7 to 84 bytes, up to 2 tensors; all four mutations, cut at 7, 40, 80 and 100 | `RangesInFile`, `SuccessComplete`, `RevalidateStable`, `MutantsRefused` |
| `onnx` | all strings up to 3 bytes over 9 bytes, and longer messages | `CursorInBuffer`, `DecodesWireFormat` (against a declarative definition of the wire format), `SuccessReadsAll` (a success leaves bytes unread only where a tag cannot be read), `ParseEnds` |
| `triage` | 4 files, a folder and a hidden file, 2 workers, two hangs, a failing replay, phrases with and without capitals | `EveryFileCounted`, `EntriesConsistent`, `SummaryComplete` (exit code 0 exactly with a whole report on every visible file), `SeverityNotLowered` (the C++ classifier against the script, on phrases in lower case), `TriageEnds` (with both workers hanging, too) |

The bounds are small but reach the cases that matter. A heap of four bytes and two
threads has two neighbouring blocks with redzones, a full heap, the reuse of a freed
address by the other thread, a free and an allocation in flight during a reset, and
failed driver calls; sizes and accesses do not wrap there (`BoundedRequests`), which
is also what the proofs assume. The adapters' heap holds several objects next to
each other with reuse across adapters, and includes products at the overflow guards,
and offsets and lengths up to the end of the word. The GGUF instance has every early return, type
widths 1, 2, 4, 8 and string, the unsupported array, counts, dimensions and strings
above their caps (scaled to 2, 2 and 8). Safetensors buffers end one byte before and
exactly at a tensor's end; the cuts of `max_size` fall below the prefix, inside a
mutant's header, between the two mutants' lengths and above both. The logs of the
triage have two crashes with one signature, some without frames, report types inside
longer words, phrases with capitals only, and addresses in the first page, above it
and beyond the word.

Violations, each a disagreement between the code and a line of its own
documentation (quoted in `PROJECT.json`, "findings"):

| run | shows |
|---|---|
| `double_free` | a stale pointer freed again is accepted once another thread has been given the address |
| `bounds_wrap` | `check_bounds` passes an access whose end wraps at `cuda_sanitizer.cu:130` |
| `moved_context` | defaulted moves leave two owners of one buffer |
| `safetensors_wrap` | a tensor whose absolute end wraps is accepted |
| `onnx_length_wrap` | a wrapping length moves the cursor backwards and the loop never ends |

Other places where code and documentation part, or where the code is known to be
weak, have no run: the padding at `cuda_sanitizer.cu:42`, the products in the adapters and
the view length, each unguarded against wrapping; rejections of `check_bounds` that
`get_last_violation()` does not show; GGUF offsets and Safetensors overlaps that are
never compared; `std::regex` recursing over a header of up to 100 MB; a copied
`LibTorchAdapter`, which frees its tensors twice; ONNX field numbers cut to 32 bits; a timed-out replay that the triage
script classes as a NULL pointer dereference; `export_json`, whose `Success` does not
say that the file was written; the classes the two classifiers give a
`global-buffer-overflow`, a null address, or a phrase written with capitals, which
the script lowers and `CrashAnalyzer` does not find: an `Integer-Overflow` above the
first page is High in the one and Medium in the other.

## Fairness

* `CUDASanitizer!FairSpec`: a thread inside a call is scheduled again (weak fairness
  of `Continue`). Nobody has to begin a call. The mutex is not assumed fair, so
  `CallsReturn` is stated for behaviours in which the lock is eventually left alone.
* `GGUFCampaign!CampaignSpec`, `ONNXParser!FairSpec`: a running parse is not abandoned,
  and the harness, a function of the fuzzer's own thread, goes on to its return. No
  input has to be run.
* `CrashTriager!Fairness`: the main thread goes on, an idle worker takes the next
  future, and a replay ends: by itself, or for a file in `Hangs` only by the timeout
  that `subprocess.run` enforces.

Of `CrashAnalyzer`, which only answers calls, nothing is assumed.

## Proofs

Each theorem holds for every value of the constants that meets the named `ASSUME`s;
TLC evaluates those on the runs' instances. Liveness apart, every property of a
passing run is a theorem.

### The auditor (`CUDASanitizerProofs`)

* `Invariance`: `Spec => []IInv`, and from it `TypeCorrect`, `NoDoubleCudaFree`
  (`CudaFreeOfLive`), `BoundsExact` (`CheckBoundsExact`), `TotalBytes`
  (`TotalBytesExact`) and `ExactlyOneHolder` (`OneHolder`);
* `Implementation`: `Spec => ImplementsLedger`.

Assumptions: `ThreadAssumption`, `WordAssumption` (constants are words, the heap is
smaller than the word), `RequestAssumption` (no request of zero bytes reaches the
driver) and `BoundedRequests` (padded sizes and access ends do not wrap). The code
does not enforce the last; `fuzz_cuda_alloc.cpp` caps its requests so, and
`bounds_wrap` shows what an access beyond it does.

The properties are not inductive by themselves. That `cudaFree` only gets live
blocks needs to know that no two holders share a block (`HoldersDistinct`: table
entries not yet freed by a running reset, calls in flight, lost blocks), which needs
every tracked region to be backed by a live block of exactly its padded size
(`TrackedBacked`, `CarriedBacked`), blocks to be apart (`HeapWellFormed`) and the
lock to match the thread inside `reset` (`LockMatchesPC`). That `check_bounds` has one answer
needs entries to be disjoint (`RegionsDisjoint`), which follows step by step from
the same facts. `IInv` is the conjunction; there is one lemma per action
(`AllocateStep`, `RegisterStep`, `UnregisterStep`, `ReleaseStep`, `ResetFreeStep`
and so on) and `NextInv` puts them together. For the refinement, only
`RegisterImplements` needs work: the new region is apart from every other because
the block the thread carries is. The counter is inductive with `IInv` once a wrapped
sum is known to follow each insertion and removal (`SumInsert`, `ModAdd`);
`OneHolder` counts what `HoldersDistinct` and `HoldersComplete` say.

### The adapters (`AdapterRuntimeProofs`)

`RuntimeInvariant`: `RuntimeSpec => []RuntimeInv`. The invariant ties the records of
three adapters to the ledger: regions are apart with their redzones
(`RegionsApart`), sizes are those of the geometry or the parameters (`BlocksSized`,
`ContextsSized`), and the three properties `RecordsBacked`, `OneRecordPerRegion` and
`NothingElseLeaks` are inductive only together: a new record cannot meet an older one
because that one's region would be in the way, and a free takes only its own region
because no other record shares it. Addresses in `forgotten` are outside all three,
so the proof also shows that the damage of a foreign `reset()` stays there.

`ViewAccessSoundHolds`, `TokenAccessSoundHolds`, `TokensAddressableHolds` and
`PromptFitsHolds` add the arithmetic of the access checks and are the only ones to
use `BoundedCalls`: the products the code leaves unguarded fit a word, and redzones
are not empty. `ViewAccessSoundHolds` is about every offset and length of a word: a
view is accepted beyond its tensor only if its end wraps inside `check_bounds` as
well (`EndWraps`), as (1, 2^64 - 1) does; the run has such views.

### The parsers

`GGUFProofs`, over the whole campaign: `CampaignInvariant` (`GGUFInv`), then
`CursorInBufferHolds`, `SuccessCompleteHolds`, `SizesExactHolds` and
`MutantsRefusedHolds`. The invariant relates the counts already read, the loop
counters and what is stored, at every program point; a doomed mutant has to be
followed from the field that was mangled to the check that refuses it
(`DoomedStops`). `SizesExactHolds` rests on `GuardedProduct`: the guard
`n <= max / d` before each factor is the exact condition for the product to fit,
over any number of dimensions, zeros included. Assumed are words, caps below the
word and seeds of the shape the harness reads.

`SafetensorsProofs`: `CampaignInvariant` (`SafetensorsInv`), `SuccessCompleteHolds`,
`MutantsRefusedHolds`, the action property `RevalidateStableHolds`, and
`RangesInFileHolds` under the hypothesis `EndsDoNotWrap`: no well-framed file has an
offset whose sum with the header wraps. The run `safetensors` satisfies it and
`safetensors_wrap` violates the property without it, so the wrap at
`safetensors_parser.cpp:118` is the only thing wrong with that arithmetic.

`ONNXProofs`: `TypeCorrect` and `CursorInBufferHolds` without further hypotheses,
wrapped lengths included; under `LengthsDoNotWrap` (behind no length-delimited field
of a parsed message does the cursor wrap, again what the run satisfies and
`onnx_length_wrap` breaks) `DecodingInvariant`, `DecodesWireFormatHolds`,
`SuccessReadsAllHolds` and `LoopAdvancesHolds`. Two arguments carry them. The
loop of `read_varint` adds groups with growing weights while the wire format is
defined from the last group: `Horner` shows that both give the same word for any
number of groups. And no field begins inside another (`SplitStep`): the invariant
`SplitAt` keeps the fields before the cursor closed, so a first start inside
the current field would have a predecessor that is neither before, at nor behind
its beginning. `LoopAdvancesHolds` is the safety half of `ParseEnds`.

### The triage (`TriagePipelineProofs`)

`PipelineInvariant` (`PipelineInv`), for any finite set of files and any number of workers:
futures are in one place at a time, there is one entry per signature met with the
number of its files, and the processed count is the sum of the entries and the
failures. From it `EntriesConsistentHolds`, `EveryFileCountedHolds` (a sum over a
table that grows in completion order), `SummaryCompleteHolds` and
`SeverityNotLoweredHolds` (case by case over both classifiers' orders of search). The
last has the premise `InLowerCase`, that no phrase of the log is written with capitals
only; without it the property is false, on the run's own logs. Assumed of a log: its
report type is a part of its text.

### Folds

The library's induction theorems take predicates, which the provers cannot
instantiate. `FoldLemmas` states induction over sets instead: a non-empty set of
counterexamples has a minimal member (`MinimalSet`, `IntervalInduction`). From that
follow the solutions of recursive definitions along finite sets and intervals
(`FoldExists`, `IntervalRecursion`), maxima and sums, which is what the counters,
products, varints and split points of the models need.

### Model-checked only

Liveness, which needs fairness and `ENABLED`: `LockReleased`, `CallsReturn`,
`ParseEnds`, `InputsReturn`, `TriageEnds`. `CUDASanitizerClients` and
`MCMovedContext` exist for their violations and have no theorems.

## Not modelled

The CUDA driver beyond placement and failure, `cudaMemset`; labels, messages and
the text of JSON output; `capture_stack_trace` (what `backtrace` and `dladdr` say of
the running process); `audit_prompt_string`; the making and deleting of the mutators'
generators; `fuzz_cuda_alloc.cpp`, six auditor calls in a fixed order, each an action
of `CUDASanitizer` that the `auditor` run takes in every order; the standalone `main`
of `fuzz_gguf.cpp`; campaign scripts and build files, which are command lines of other
tools; and the files that are empty in the repository (fuzz engine,
coverage tracker, mutator interface, ASan hooks, arena checker, CVE classifier,
stack trace).

## Plan

Done, in this order: the auditor with its invariant, ledger and proofs; the clients'
view; the adapters on the ledger; the parsers; the triage pool; a third party's reset
of the auditor under the adapters; mutators and harnesses; the whole triage script;
`CrashAnalyzer` beside it.

The proofs followed: the auditor's counter and holders, the adapters, the parsers'
campaigns, the triage, the ONNX decoding.

Next:

1. The safety halves of the other liveness properties, as action properties: every
   step of a GGUF parse lowers a bound on what is left, and a worker of the triage
   pool is idle whenever a future waits.
2. `AdapterRuntime` on the auditor itself instead of the ledger, so that
   `Implementation` is used inside a theorem and not beside it.
