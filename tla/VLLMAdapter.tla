---------------------------- MODULE VLLMAdapter -----------------------------
(***************************************************************************)
(* The PagedAttention auditor: m_blocks maps a block id to its geometry    *)
(* and device pointer.  No product of the code is checked for overflow.    *)
(* The destructor is defaulted: it drops the records and frees nothing.    *)
(***************************************************************************)
EXTENDS AuditedVRAM

CONSTANTS
  BlockIds,
  Geometries,  \* <<block_size, num_heads, head_dim>> of allocate_kv_block
  Tokens       \* token_index passed to validate_token_access

ASSUME VLLMAssumption ==
  /\ Geometries \subseteq Word \X Word \X Word
  /\ Tokens \subseteq Word

VARIABLES
  m_blocks,    \* block id -> KVCacheBlockMetadata
  vllmReset,   \* reset() is running
  blocksToFree,
  orphaned     \* device pointers dropped by the destructor (history)

vllmVars == << m_blocks, vllmReset, blocksToFree, orphaned >>

\* num_heads * head_dim * element_size * 2, with FP16 elements.
bytes_per_token(num_heads, head_dim) == Wrap(num_heads * head_dim * 2 * 2)

\* A block of one token less than asked for.
kv_block_bytes_short(block_size, num_heads, head_dim) ==
  Wrap((block_size - 1) * bytes_per_token(num_heads, head_dim))
kv_block_bytes(block_size, num_heads, head_dim) ==
  Wrap(block_size * bytes_per_token(num_heads, head_dim))

AllocateKvBlock(id, block_size, num_heads, head_dim) ==
  /\ ~vllmReset
  /\ id \notin DOMAIN m_blocks
  /\ LET bytes == kv_block_bytes(block_size, num_heads, head_dim) IN
     \E dev_ptr \in Bases \cup {Null} :
       /\ audit_malloc(dev_ptr, bytes)
       /\ m_blocks' = With(m_blocks, id,
            [block_size_tokens |-> block_size, num_heads |-> num_heads,
             head_dim |-> head_dim, device_ptr |-> dev_ptr, total_bytes |-> bytes])
  /\ UNCHANGED << vllmReset, blocksToFree, orphaned >>

\* The address and the length of a token inside its block.
token_addr(id, token_index) ==
  Wrap(m_blocks[id].device_ptr
         + Wrap(token_index * bytes_per_token(m_blocks[id].num_heads, m_blocks[id].head_dim)))
token_bytes(id) == bytes_per_token(m_blocks[id].num_heads, m_blocks[id].head_dim)

\* A check without the bound on the token index.
validate_any_token(id, token_index) ==
  /\ id \in DOMAIN m_blocks
  /\ check_bounds(token_addr(id, token_index), token_bytes(id))

validate_token_access(id, token_index) ==
  /\ id \in DOMAIN m_blocks
  /\ token_index < m_blocks[id].block_size_tokens
  /\ check_bounds(token_addr(id, token_index), token_bytes(id))

FreeKvBlock(id) ==
  /\ ~vllmReset
  /\ id \in DOMAIN m_blocks
  /\ audit_free(m_blocks[id].device_ptr)
  /\ m_blocks' = Without(m_blocks, id)
  /\ UNCHANGED << vllmReset, blocksToFree, orphaned >>

VllmResetBegin ==
  /\ ~vllmReset
  /\ vllmReset' = TRUE /\ blocksToFree' = DOMAIN m_blocks
  /\ UNCHANGED << vram, m_blocks, orphaned >>

\* A reset that forgets a block without freeing it.
VllmResetSkips(id) ==
  /\ vllmReset /\ id \in blocksToFree
  /\ blocksToFree' = blocksToFree \ {id}
  /\ UNCHANGED << vram, m_blocks, vllmReset, orphaned >>

VllmResetFree(id) ==
  /\ vllmReset /\ id \in blocksToFree
  /\ audit_free(m_blocks[id].device_ptr)
  /\ blocksToFree' = blocksToFree \ {id}
  /\ UNCHANGED << m_blocks, vllmReset, orphaned >>

VllmResetEnd ==
  /\ vllmReset /\ blocksToFree = {}
  /\ m_blocks' = Empty
  /\ vllmReset' = FALSE
  /\ UNCHANGED << vram, blocksToFree, orphaned >>

\* The object is destroyed and a new one takes its place.
VllmDestroy ==
  /\ ~vllmReset
  /\ orphaned' = orphaned \cup {m_blocks[id].device_ptr : id \in DOMAIN m_blocks}
  /\ m_blocks' = Empty
  /\ UNCHANGED << vram, vllmReset, blocksToFree >>

VllmInit ==
  /\ m_blocks = Empty
  /\ vllmReset = FALSE
  /\ blocksToFree = {}
  /\ orphaned = {}

VllmNext ==
  \/ \E id \in BlockIds, g \in Geometries : AllocateKvBlock(id, g[1], g[2], g[3])
  \/ \E id \in BlockIds : FreeKvBlock(id) \/ VllmResetFree(id)
  \/ VllmResetBegin
  \/ VllmResetEnd
  \/ VllmDestroy

=============================================================================
