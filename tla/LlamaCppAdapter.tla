-------------------------- MODULE LlamaCppAdapter ---------------------------
(***************************************************************************)
(* The llama.cpp auditor: each object owns at most one GPU context buffer. *)
(* The class is declared movable with defaulted moves, which copy the raw  *)
(* pointer and leave it in the source object; LlamaNextWithoutMoves is the *)
(* class as its callers use it.  init_context calls the auditor twice, and *)
(* other threads may allocate in between.                                  *)
(***************************************************************************)
EXTENDS AuditedVRAM

CONSTANTS
  Contexts,       \* LlamaCppAdapter objects
  ContextParams,  \* <<n_ctx, embedding_dim, n_gpu_layers, vocab_size>>
  Prompts         \* token sequences passed to audit_tokens

ASSUME LlamaAssumption ==
  /\ ContextParams \subseteq Word \X Word \X Word \X Word
  /\ Prompts \subseteq Seq(Int)

VARIABLES
  ctx,            \* object -> its members
  requested       \* object -> params of the init_context between its two calls

llamaVars == << ctx, requested >>
NoParams == << 0, 0, 0, 0 >>
Fresh == [m_gpu_context_ptr |-> Null, m_allocated_bytes |-> 0,
          m_initialized |-> FALSE, m_params |-> NoParams]

\* A release that does not clear the pointer, and one that leaves the flag.
ReleasedKeepsPointer(c) == [ctx[c] EXCEPT !.m_allocated_bytes = 0,
                                          !.m_initialized = FALSE]
ReleasedStaysInitialized(c) == [ctx[c] EXCEPT !.m_gpu_context_ptr = Null,
                                              !.m_allocated_bytes = 0]

\* What release() leaves of an object; m_params stays.
Released(c) == [ctx[c] EXCEPT !.m_gpu_context_ptr = Null,
                              !.m_allocated_bytes = 0, !.m_initialized = FALSE]

release(c) == audit_free(ctx[c].m_gpu_context_ptr)

\* n_ctx * embedding_dim is checked, its double is not; -1 is an overflow.
required_bytes(n_ctx, embedding_dim) ==
  LET total_elements == Wrap(n_ctx * embedding_dim * 2) IN
  IF \/ n_ctx > (SizeMod - 1) \div embedding_dim
     \/ total_elements > (SizeMod - 1) \div 2
  THEN -1 ELSE total_elements * 2

\* The members after a successful init_context.
Initialized(c, p, dev_ptr) ==
  [Released(c) EXCEPT !.m_gpu_context_ptr = dev_ptr, !.m_params = p,
                      !.m_allocated_bytes = required_bytes(p[1], p[2]),
                      !.m_initialized = TRUE]

Valid(p) == p[1] # 0 /\ p[2] # 0 /\ p[4] # 0

Acceptable(p) == Valid(p) /\ required_bytes(p[1], p[2]) # -1

\* release(), then an early return, a context without GPU layers, or the
\* request for a GPU buffer.
InitContext(c, p) ==
  /\ requested[c] = NoParams
  /\ release(c)
  /\ \/ /\ ~Acceptable(p)
        /\ ctx' = [ctx EXCEPT ![c] = Released(c)]
        /\ UNCHANGED requested
     \/ /\ Acceptable(p) /\ p[3] = 0
        /\ ctx' = [ctx EXCEPT ![c] = Initialized(c, p, Null)]
        /\ UNCHANGED requested
     \/ /\ Acceptable(p) /\ p[3] > 0
        /\ ctx' = [ctx EXCEPT ![c] = Released(c)]
        /\ requested' = [requested EXCEPT ![c] = p]

\* audit_malloc answers: a buffer, or an error that leaves the object empty.
InitContextAllocate(c) ==
  /\ requested[c] # NoParams
  /\ \/ \E dev_ptr \in Bases \cup {Null} :
          /\ audit_malloc(dev_ptr, required_bytes(requested[c][1], requested[c][2]))
          /\ ctx' = [ctx EXCEPT ![c] = Initialized(c, requested[c], dev_ptr)]
     \/ UNCHANGED << vram, ctx >>
  /\ requested' = [requested EXCEPT ![c] = NoParams]

audit_tokens(c, tokens) ==
  /\ ctx[c].m_initialized
  /\ Len(tokens) <= ctx[c].m_params[1]
  /\ \A i \in DOMAIN tokens : tokens[i] >= 0 /\ tokens[i] < ctx[c].m_params[4]

\* release(), and the destructor followed by a new object.
Release(c) ==
  /\ requested[c] = NoParams
  /\ release(c)
  /\ ctx' = [ctx EXCEPT ![c] = Released(c)]
  /\ UNCHANGED requested

Destroy(c) ==
  /\ requested[c] = NoParams
  /\ release(c)
  /\ ctx' = [ctx EXCEPT ![c] = Fresh]
  /\ UNCHANGED requested

\* The defaulted moves copy every member and change nothing in the source.
Move(c, d) ==
  /\ c # d /\ requested[c] = NoParams /\ requested[d] = NoParams
  /\ ctx' = [ctx EXCEPT ![d] = ctx[c]]
  /\ UNCHANGED << vram, requested >>

LlamaInit ==
  /\ ctx = [c \in Contexts |-> Fresh]
  /\ requested = [c \in Contexts |-> NoParams]

LlamaNextWithoutMoves ==
  \E c \in Contexts :
    \/ \E p \in ContextParams : InitContext(c, p)
    \/ InitContextAllocate(c)
    \/ Release(c)
    \/ Destroy(c)

LlamaNext == LlamaNextWithoutMoves \/ \E c, d \in Contexts : Move(c, d)

=============================================================================
