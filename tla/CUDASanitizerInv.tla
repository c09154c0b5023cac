-------------------------- MODULE CUDASanitizerInv --------------------------
(***************************************************************************)
(* The inductive invariant of CUDASanitizer and the ledger it implements,  *)
(* for requests whose sums fit a word.  The code does not check that       *)
(* size + 2 * redzone_bytes and address + access_bytes do: the assumption  *)
(* is the callers' (fuzz_cuda_alloc.cpp caps both sizes).                  *)
(***************************************************************************)
EXTENDS CUDASanitizer

ASSUME BoundedRequests ==
  /\ \A s \in Sizes, r \in Redzones : s + 2 * r < SizeMod
  /\ \A n \in Accesses : HeapTop + n < SizeMod

\* A call that still has to register its block holds one of the right length.
CarriedBacked ==
  \A t \in Threads :
    /\ pc[t] = "register" =>
         /\ arg[t].size \in Sizes
         /\ arg[t].redzone \in Redzones
         /\ arg[t].raw \in DOMAIN vram
         /\ vram[arg[t].raw] = arg[t].size + 2 * arg[t].redzone
    /\ pc[t] = "cudaFree" => arg[t].raw \in DOMAIN vram

\* The driver's blocks are inside the heap and apart from each other.
HeapWellFormed ==
  /\ \A b \in DOMAIN vram : b + vram[b] <= HeapTop + 1
  /\ \A b, c \in DOMAIN vram : b # c => ~Overlap(b, vram[b], c, vram[c])

\* An entry starts past its front redzone and fits the heap.
EntriesWellFormed ==
  \A a \in DOMAIN m_tracked_regions :
    LET r == m_tracked_regions[a] IN
    /\ r.size_bytes > 0
    /\ a - r.redzone_bytes >= 1
    /\ a + r.size_bytes + r.redzone_bytes <= HeapTop + 1

\* No block has two holders.
HoldersDistinct ==
  /\ \A s, t \in Carriers : s # t => arg[s].raw # arg[t].raw
  /\ \A t \in Carriers : arg[t].raw \notin lost
  /\ \A a \in Unfreed : /\ RawAddress(a) \notin lost
                        /\ \A t \in Carriers : arg[t].raw # RawAddress(a)

\* No block is without a holder.
HoldersComplete ==
  \A b \in DOMAIN vram : \/ \E a \in Unfreed : RawAddress(a) = b
                         \/ \E t \in Carriers : arg[t].raw = b
                         \/ b \in lost

\* The lock is held exactly by the thread inside reset().
LockMatchesPC ==
  /\ \A t \in Threads : pc[t] = "reset" <=> m_mutex = t
  /\ LockFree => to_free = {}

IInv ==
  /\ TypeOK
  /\ LockMatchesPC
  /\ HeapWellFormed
  /\ EntriesWellFormed
  /\ RegionsDisjoint
  /\ TrackedBacked
  /\ CarriedBacked
  /\ HoldersDistinct
  /\ HoldersComplete

\* The table with its byte count behaves as the atomic ledger.
Ledger == INSTANCE VRAMLedger WITH regions <- m_tracked_regions,
                                   total <- m_total_bytes

\* Seen through its table, the auditor takes only steps of the ledger: a
\* registered region never overlaps another, and each call changes the table
\* once and atomically, whatever the driver and the other threads do.
ImplementsLedger == Ledger!Spec

=============================================================================
