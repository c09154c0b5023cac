--------------------------- MODULE AdapterRuntime ---------------------------
(***************************************************************************)
(* The three adapters in one process, each object driven by its own        *)
(* thread, all on the one auditor: every call to the auditor interleaves   *)
(* with the others, and the driver may give a freed address to anybody.    *)
(***************************************************************************)
EXTENDS LibTorchAdapter, VLLMAdapter, LlamaCppAdapter

VARIABLE
  forgotten   \* addresses that records made before a reset() of the auditor
              \* still hold (history)

runtimeVars == << vram, torchVars, vllmVars, llamaVars, forgotten >>

\* What each record holds: its owner, its pointer and the bytes behind it.
\* The records a running reset() has already passed hold nothing.
TorchHoldings ==
  {<< "torch", id, m_tensors[id].device_ptr, m_tensors[id].allocated_bytes >> :
     id \in IF torchReset THEN tensorsToFree ELSE DOMAIN m_tensors}
VllmHoldings ==
  {<< "vllm", id, m_blocks[id].device_ptr, m_blocks[id].total_bytes >> :
     id \in IF vllmReset THEN blocksToFree ELSE DOMAIN m_blocks}
LlamaHoldings ==
  {<< "llama", c, ctx[c].m_gpu_context_ptr, ctx[c].m_allocated_bytes >> :
     c \in {c \in Contexts : ctx[c].m_gpu_context_ptr # Null}}

Holdings == TorchHoldings \cup VllmHoldings \cup LlamaHoldings

Held == {h[3] : h \in Holdings} \ {Null}

RuntimeInit ==
  /\ Ledger!Init
  /\ TorchInit
  /\ VllmInit
  /\ LlamaInit
  /\ forgotten = {}

\* Anybody may reset the process-wide auditor: its regions go, and with them
\* the orphans, but no adapter hears of it.
AuditorReset ==
  /\ Ledger!Clear
  /\ orphaned' = {}
  /\ forgotten' = Held
  /\ UNCHANGED << torchVars, m_blocks, vllmReset, blocksToFree, llamaVars >>

\* A step of an adapter.  An address is forgotten until no record holds it.
AdapterStep(step) == step /\ forgotten' = forgotten \cap Held'

AdaptersNext ==
  \/ AdapterStep(TorchNext /\ UNCHANGED << vllmVars, llamaVars >>)
  \/ AdapterStep(VllmNext /\ UNCHANGED << torchVars, llamaVars >>)
  \/ AdapterStep(LlamaNextWithoutMoves /\ UNCHANGED << torchVars, vllmVars >>)

RuntimeNext == AdaptersNext \/ AuditorReset

RuntimeSpec == RuntimeInit /\ [][RuntimeNext]_runtimeVars

\* The adapters alone, with objects of LlamaCppAdapter moved.
MovingNext ==
  \/ AdaptersNext
  \/ AdapterStep(LlamaNext /\ UNCHANGED << torchVars, vllmVars >>)

MovingSpec == RuntimeInit /\ [][MovingNext]_runtimeVars

-----------------------------------------------------------------------------
(* Properties                                                               *)

\* A pointer that no record from before a reset() of the auditor shares.
Sound(ptr) == ptr # Null /\ ptr \notin forgotten

\* A record with a sound pointer always has its region, of the bytes it
\* recorded: no free, reset or reuse of addresses by one adapter takes a
\* region away under another.  A reset() of the auditor by a third party
\* breaks the records made before it, and a later one only by giving it an
\* address such a record still holds: all other records keep their region.
RecordsBacked ==
  \A h \in Holdings :
    Sound(h[3]) => h[3] \in DOMAIN regions /\ regions[h[3]].size_bytes = h[4]

\* No region has two records, across all adapters and objects, except by the
\* reuse of an address that a reset() of the auditor made stale.
OneRecordPerRegion ==
  \A g, h \in Holdings : Sound(g[3]) /\ g[3] = h[3] => g = h

\* Every region has a record that will free it, or was dropped by the
\* defaulted destructor of VLLMAdapter: the adapters leak nothing else, on
\* any path of init_context, free or reset, the auditor's own included.
NothingElseLeaks ==
  DOMAIN regions \subseteq {h[3] : h \in Holdings} \cup orphaned

\* The sum inside check_bounds, the address plus the length, wraps.
EndWraps(id, o, n) == Wrap(m_tensors[id].device_ptr + o) + n >= SizeMod

\* A view that validate_view_access passes lies inside its own tensor, even
\* when offset_bytes + access_bytes or device_ptr + offset_bytes wraps around
\* the word: check_bounds then rejects it, because a range cannot leave one
\* payload and enter another.  The views accepted beyond their tensor are
\* those whose end wraps inside check_bounds as well, and no others.
ViewAccessSound ==
  \A id \in TensorIds, o \in Offsets, n \in Lengths :
    /\ ~torchReset /\ validate_view_access(id, o, n)
    /\ Sound(m_tensors[id].device_ptr)
    => o + n <= m_tensors[id].allocated_bytes \/ EndWraps(id, o, n)

\* A token that validate_token_access passes lies inside its own block, not
\* in a neighbour's.
TokenAccessSound ==
  \A id \in BlockIds, k \in Tokens :
    ~vllmReset /\ validate_token_access(id, k) /\ Sound(m_blocks[id].device_ptr) =>
      /\ m_blocks[id].device_ptr <= token_addr(id, k)
      /\ token_addr(id, k) + token_bytes(id)
           <= m_blocks[id].device_ptr + m_blocks[id].total_bytes

\* validate_token_access passes every token of a block: the block is large
\* enough for the tokens it was allocated for.
TokensAddressable ==
  \A id \in BlockIds, k \in Tokens :
    /\ ~vllmReset /\ id \in DOMAIN m_blocks
    /\ k < m_blocks[id].block_size_tokens
    /\ Sound(m_blocks[id].device_ptr)
    => validate_token_access(id, k)

\* A prompt that audit_tokens passes fits the keys and values allocated for
\* it, on the GPU if the context has GPU layers: after a failed init_context
\* or a release() no prompt passes on the parameters of the old context.
PromptFits ==
  \A c \in Contexts, prompt \in Prompts :
    audit_tokens(c, prompt) =>
      /\ Len(prompt) * ctx[c].m_params[2] * 2 * 2 <= ctx[c].m_allocated_bytes
      /\ ctx[c].m_params[3] > 0 =>
           \/ ctx[c].m_gpu_context_ptr \in DOMAIN regions
           \/ ctx[c].m_gpu_context_ptr \in forgotten

\* One object owns a GPU buffer: releasing another leaves it alone.
ContextExclusive ==
  \A c, d \in Contexts :
    c # d /\ ctx[c].m_gpu_context_ptr # Null
      => ctx[c].m_gpu_context_ptr # ctx[d].m_gpu_context_ptr

=============================================================================
