------------------------- MODULE AdapterRuntimeInv --------------------------
(***************************************************************************)
(* The inductive invariant of the three adapters on the one auditor, and   *)
(* what the access checks need of their callers.                           *)
(***************************************************************************)
EXTENDS AdapterRuntime

\* The products the code leaves unchecked fit a word: the bytes of a block,
\* and twice the elements of a context that passes the guard on
\* n_ctx * embedding_dim.  The default redzone is 256.
ASSUME BoundedCalls ==
  /\ Redzone > 0
  /\ \A g \in Geometries :
       LET bytes == g[2] * g[3] * 2 * 2 IN
       bytes \in 1 .. (SizeMod - 1) /\ g[1] * bytes < SizeMod
  /\ \A p \in ContextParams :
       Acceptable(p) => p[1] * p[2] * 2 < SizeMod

Region == [size_bytes : Word \ {0}, redzone_bytes : {Redzone}, is_poisoned : {FALSE}]
Tensor == [device_ptr : Bases \cup {Null}, allocated_bytes : Word]
KVCacheBlock == [block_size_tokens : Word, num_heads : Word, head_dim : Word,
                 device_ptr : Bases \cup {Null}, total_bytes : Word]
Context == [m_gpu_context_ptr : Bases \cup {Null}, m_allocated_bytes : Word,
            m_initialized : BOOLEAN, m_params : ContextParams \cup {NoParams}]

RegionsTyped ==
  /\ DOMAIN regions \subseteq Bases
  /\ regions \in [DOMAIN regions -> Region]

TensorsTyped ==
  /\ DOMAIN m_tensors \subseteq TensorIds
  /\ m_tensors \in [DOMAIN m_tensors -> Tensor]
  /\ torchReset \in BOOLEAN
  /\ tensorsToFree \subseteq DOMAIN m_tensors
  /\ torchReset \/ tensorsToFree = {}

BlocksTyped ==
  /\ DOMAIN m_blocks \subseteq BlockIds
  /\ m_blocks \in [DOMAIN m_blocks -> KVCacheBlock]
  /\ vllmReset \in BOOLEAN
  /\ blocksToFree \subseteq DOMAIN m_blocks
  /\ vllmReset \/ blocksToFree = {}

ContextsTyped ==
  /\ ctx \in [Contexts -> Context]
  /\ requested \in [Contexts -> ContextParams \cup {NoParams}]

RuntimeTypeOK == RegionsTyped /\ TensorsTyped /\ BlocksTyped /\ ContextsTyped

\* Regions fit the heap with their redzones, and no two overlap.
RegionsApart ==
  /\ \A a \in DOMAIN regions : a + regions[a].size_bytes + Redzone <= HeapTop + 1
  /\ \A a, b \in DOMAIN regions :
       a < b => a + regions[a].size_bytes + Redzone <= b - Redzone

\* A block has the bytes of its geometry.
BlocksSized ==
  \A id \in DOMAIN m_blocks :
    LET b == m_blocks[id] IN
    /\ << b.block_size_tokens, b.num_heads, b.head_dim >> \in Geometries
    /\ b.total_bytes = kv_block_bytes(b.block_size_tokens, b.num_heads, b.head_dim)

\* An initialized context has the bytes of its parameters, and a GPU buffer
\* if it has GPU layers; one between the two calls of init_context has none.
ContextsSized ==
  \A c \in Contexts :
    /\ requested[c] # NoParams =>
         /\ requested[c] \in ContextParams /\ Acceptable(requested[c])
         /\ ctx[c].m_gpu_context_ptr = Null
    /\ ctx[c].m_initialized =>
         /\ ctx[c].m_params \in ContextParams /\ Acceptable(ctx[c].m_params)
         /\ ctx[c].m_allocated_bytes
              = required_bytes(ctx[c].m_params[1], ctx[c].m_params[2])
         /\ ctx[c].m_params[3] > 0 /\ ctx[c].m_allocated_bytes # 0
              => ctx[c].m_gpu_context_ptr # Null

\* A new record never meets an older one on its address, because the older
\* one's region would be in the way; a free takes only its own region,
\* because no other record shares it.
RecordsInv == RecordsBacked /\ OneRecordPerRegion /\ NothingElseLeaks

RuntimeInv ==
  /\ RuntimeTypeOK
  /\ RegionsApart
  /\ BlocksSized
  /\ ContextsSized
  /\ RecordsInv

=============================================================================
