---------------------------- MODULE AuditedVRAM -----------------------------
(***************************************************************************)
(* The VRAM auditor as the runtime adapters call it.  By the theorem       *)
(* Implementation of CUDASanitizerProofs its table changes as the ledger   *)
(* does, one entry at a time, so a call of an adapter is one ledger step   *)
(* and the driver and the lock do not appear.  Adapters always use the     *)
(* default redzone_bytes; requests so large that the padded size wraps are *)
(* outside that theorem and outside this module (CUDASanitizer has them).  *)
(***************************************************************************)
EXTENDS Integers, FiniteSets, SequencesExt

CONSTANTS
  Bases,     \* usable addresses the driver may hand out
  HeapTop,   \* the last address of the driver's heap
  Redzone,   \* the default redzone_bytes of audit_malloc
  SizeMod    \* number of values of size_t, uint64_t and uintptr_t

ASSUME VRAMAssumption ==
  /\ SizeMod \in Nat /\ HeapTop \in Nat /\ Redzone \in Nat
  /\ HeapTop + 1 + 2 * Redzone < SizeMod
  /\ \A a \in Bases : a \in Nat /\ a > Redzone

VARIABLES
  regions,   \* m_tracked_regions: usable address -> region
  total      \* m_total_bytes

vram == << regions, total >>

Word == 0 .. (SizeMod - 1)
Null == 0
Wrap(x) == x % SizeMod

Ledger == INSTANCE VRAMLedger WITH Sizes <- Word \ {0}, Redzones <- {Redzone}

\* audit_malloc succeeds: ptr is nullptr for a size of zero, and otherwise
\* the start of a new region that fits the heap with its redzones.
audit_malloc(ptr, size) ==
  IF size = 0 THEN ptr = Null /\ UNCHANGED vram
  ELSE /\ ptr \in Bases
       /\ ptr + size + Redzone <= HeapTop + 1
       /\ Ledger!Register(ptr, size, Redzone)

\* audit_free: nullptr and untracked addresses leave the table alone.
audit_free(ptr) ==
  IF ptr \in DOMAIN regions THEN Ledger!Unregister(ptr) ELSE UNCHANGED vram

\* check_bounds: the region whose payload holds p decides.
check_bounds(p, n) ==
  /\ p # Null /\ n # 0
  /\ \E a \in DOMAIN regions :
       LET valid_end == Wrap(a + regions[a].size_bytes) IN
       /\ a <= p /\ p < valid_end
       /\ Wrap(p + n) <= valid_end
       /\ ~regions[a].is_poisoned

Without(f, k) == [x \in DOMAIN f \ {k} |-> f[x]]
With(f, k, v) == [x \in DOMAIN f \cup {k} |-> IF x = k THEN v ELSE f[x]]
Empty == [x \in {} |-> 0]

=============================================================================
