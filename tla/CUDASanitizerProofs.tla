------------------------ MODULE CUDASanitizerProofs -------------------------
(***************************************************************************)
(* IInv is an invariant of CUDASanitizer, for any number of threads and    *)
(* any sets of requests whose sums fit a word, and the properties that     *)
(* follow from it.                                                         *)
(***************************************************************************)
EXTENDS CUDASanitizerInv, FoldLemmas

-----------------------------------------------------------------------------
(* Word arithmetic                                                          *)

\* A sum that fits a word is exact: Plus models C++ unsigned addition.
LEMMA PlusExact ==
  ASSUME NEW x \in Nat, NEW y \in Nat, x + y < SizeMod
  PROVE  Plus(x, y) = x + y
BY WordAssumption DEF Plus

\* A difference that does not go below zero is exact.
LEMMA MinusExact ==
  ASSUME NEW x \in Nat, NEW y \in Nat, x < SizeMod, y <= x
  PROVE  Minus(x, y) = x - y
BY WordAssumption DEF Minus

\* Sums and differences of words are words.
LEMMA WordClosed ==
  ASSUME NEW x \in Int, NEW y \in Int
  PROVE  Plus(x, y) \in Word /\ Minus(x, y) \in Word
BY WordAssumption DEF Plus, Minus, Word

-----------------------------------------------------------------------------
(* Facts about the states of the invariant                                  *)

\* The subtraction of audit_free and reset finds the start of the block.
LEMMA RawExact ==
  ASSUME IInv
  PROVE  \A a \in DOMAIN m_tracked_regions :
           /\ RawAddress(a) = a - m_tracked_regions[a].redzone_bytes
           /\ RawAddress(a) \in 1 .. HeapTop
<1> SUFFICES ASSUME NEW a \in DOMAIN m_tracked_regions
             PROVE  /\ RawAddress(a) = a - m_tracked_regions[a].redzone_bytes
                    /\ RawAddress(a) \in 1 .. HeapTop
  OBVIOUS
<1>1. a \in Word /\ m_tracked_regions[a] \in CUDAMemoryRegion
  BY DEF IInv, TypeOK
<1>2. /\ m_tracked_regions[a].size_bytes \in Word
      /\ m_tracked_regions[a].redzone_bytes \in Word
      /\ a \in Nat /\ a < SizeMod
      /\ m_tracked_regions[a].redzone_bytes \in Nat
      /\ m_tracked_regions[a].size_bytes \in Nat
  BY <1>1, WordAssumption DEF CUDAMemoryRegion, Word
<1>3. /\ m_tracked_regions[a].size_bytes > 0
      /\ a - m_tracked_regions[a].redzone_bytes >= 1
      /\ a + m_tracked_regions[a].size_bytes + m_tracked_regions[a].redzone_bytes
           <= HeapTop + 1
  BY DEF IInv, EntriesWellFormed
<1>4. RawAddress(a) = a - m_tracked_regions[a].redzone_bytes
  BY <1>2, <1>3, MinusExact DEF RawAddress
<1> QED
  BY <1>2, <1>3, <1>4, WordAssumption

\* Different entries of the table are different blocks of the driver.
LEMMA RawDistinct ==
  ASSUME IInv, NEW a \in DOMAIN m_tracked_regions,
         NEW b \in DOMAIN m_tracked_regions, a # b
  PROVE  RawAddress(a) # RawAddress(b)
<1>1. /\ m_tracked_regions[a].size_bytes \in Nat \ {0}
      /\ m_tracked_regions[b].size_bytes \in Nat \ {0}
      /\ m_tracked_regions[a].redzone_bytes \in Nat
      /\ m_tracked_regions[b].redzone_bytes \in Nat
  BY WordAssumption DEF IInv, TypeOK, EntriesWellFormed, CUDAMemoryRegion, Word
<1>2. RawAddress(a) \in Int /\ RawAddress(b) \in Int
  BY RawExact
<1> QED
  BY <1>1, <1>2 DEF IInv, RegionsDisjoint, Overlap

\* A step that leaves the table, the driver and the lock alone, and no call
\* in the middle of its hand-over, keeps the invariant.
LEMMA QuietStep ==
  ASSUME IInv, TypeOK',
         UNCHANGED << m_mutex, m_tracked_regions, vram, lost, to_free >>,
         \A t \in Threads : pc'[t] = "reset" <=> pc[t] = "reset",
         Carriers' = Carriers,
         \A t \in Carriers : pc'[t] = pc[t] /\ arg'[t] = arg[t]
  PROVE  IInv'
<1>1. /\ Unfreed' = Unfreed
      /\ \A a : RawAddress(a)' = RawAddress(a)
  BY DEF Unfreed, LockFree, RawAddress
<1>2. LockMatchesPC'
  BY DEF IInv, LockMatchesPC, LockFree
<1>3. HeapWellFormed' /\ EntriesWellFormed' /\ RegionsDisjoint' /\ TrackedBacked'
  BY <1>1 DEF IInv, HeapWellFormed, EntriesWellFormed, RegionsDisjoint, TrackedBacked
<1>4. CarriedBacked'
  <2> SUFFICES ASSUME NEW t \in Threads, pc'[t] \in {"register", "cudaFree"}
               PROVE  t \in Carriers
    BY DEF IInv, CarriedBacked
  <2> QED BY DEF Carriers
<1>5. HoldersDistinct' /\ HoldersComplete'
  BY <1>1 DEF IInv, HoldersDistinct, HoldersComplete
<1> QED BY <1>2, <1>3, <1>4, <1>5 DEF IInv

-----------------------------------------------------------------------------
(* Each action keeps the invariant                                          *)

\* Calls that end at once, a cudaMalloc that failed, and its report.
LEMMA QuietActions ==
  ASSUME IInv, NEW t \in Threads,
         \/ AuditMallocTrivial(t)
         \/ \E size \in Sizes : AuditMallocRefused(t, size)
         \/ AuditMallocReport(t)
         \/ AuditFreeNull(t)
         \/ \E p \in Pointers \ {Null} : AuditFreeUntracked(t, p)
         \/ \E p \in Pointers, n \in Accesses : CheckBounds(t, p, n)
  PROVE  IInv'
<1>1. /\ UNCHANGED << m_mutex, m_tracked_regions, m_total_bytes, vram, lost, to_free >>
      /\ pc[t] \in {"idle", "report"}
      /\ \E step \in {"idle", "report"} : pc' = [pc EXCEPT ![t] = step]
      /\ \E locals \in Locals : arg' = [arg EXCEPT ![t] = locals]
      /\ m_last_violation' \in CUDAViolationReport
  <2>0. NoLocals \in Locals /\ m_last_violation \in CUDAViolationReport
    BY WordAssumption DEF NoLocals, Locals, Word, IInv, TypeOK
  <2>1. CASE \E size \in Sizes : AuditMallocRefused(t, size)
    <3>1. PICK size \in Sizes : AuditMallocRefused(t, size)
      BY <2>1
    <3>2. [NoLocals EXCEPT !.size = size] \in Locals
      BY WordAssumption DEF NoLocals, Locals, Word
    <3> QED BY <2>0, <3>1, <3>2 DEF AuditMallocRefused, Idle, Enter, TableUnchanged,
               DriverUnchanged
  <2>2. CASE AuditMallocReport(t)
    <3>1. m_last_violation' \in CUDAViolationReport
      BY <2>2, WordAssumption DEF AuditMallocReport, IInv, TypeOK, Locals, Word,
         Status, CUDAViolationReport
    <3> QED BY <2>0, <2>2, <3>1 DEF AuditMallocReport, Return, Enter, TableUnchanged,
               DriverUnchanged
  <2>3. CASE \E p \in Pointers \ {Null} : AuditFreeUntracked(t, p)
    <3>1. m_last_violation' \in CUDAViolationReport
      BY <2>3, WordAssumption DEF AuditFreeUntracked, Word, Status, CUDAViolationReport
    <3> QED BY <2>0, <2>3, <3>1 DEF AuditFreeUntracked, Idle, Return, Enter,
               TableUnchanged, DriverUnchanged
  <2>4. CASE \/ AuditMallocTrivial(t) \/ AuditFreeNull(t)
             \/ \E p \in Pointers, n \in Accesses : CheckBounds(t, p, n)
    BY <2>0, <2>4 DEF AuditMallocTrivial, AuditFreeNull, CheckBounds, Idle,
       Return, Enter, TableUnchanged, DriverUnchanged
  <2> QED BY <2>1, <2>2, <2>3, <2>4
<1>2. TypeOK'
  BY <1>1 DEF IInv, TypeOK, Steps
<1>3. /\ \A u \in Threads : pc'[u] = "reset" <=> pc[u] = "reset"
      /\ Carriers' = Carriers
      /\ \A u \in Carriers : pc'[u] = pc[u] /\ arg'[u] = arg[u]
  BY <1>1 DEF IInv, TypeOK, Carriers
<1> QED BY <1>1, <1>2, <1>3, QuietStep

\* cudaMalloc returns a block of the payload and two redzones, apart from
\* the live ones; until it is registered the calling thread holds it.
LEMMA AllocateStep ==
  ASSUME IInv, NEW t \in Threads, NEW size \in Sizes, NEW redzone \in Redzones,
         AuditMallocAllocate(t, size, redzone)
  PROVE  IInv'
<1> DEFINE n == size + 2 * redzone
<1>0. /\ size \in Nat \ {0} /\ redzone \in Nat /\ size \in Word /\ redzone \in Word
      /\ n \in Nat \ {0} /\ n \in Word
      /\ Plus(size, 2 * redzone) = n
  <2>1. size \in Nat \ {0} /\ redzone \in Nat /\ n < SizeMod
    BY WordAssumption, BoundedRequests
  <2> QED BY <2>1, WordAssumption, BoundedRequests, PlusExact DEF Word
<1>1. PICK raw \in 1 .. HeapTop :
         /\ cudaMalloc(raw, n)
         /\ Enter(t, "register", [raw |-> raw, size |-> size, redzone |-> redzone])
  BY <1>0 DEF AuditMallocAllocate
<1> HIDE DEF n
<1>2. /\ pc[t] = "idle" /\ pc' = [pc EXCEPT ![t] = "register"]
      /\ arg' = [arg EXCEPT ![t] = [raw |-> raw, size |-> size, redzone |-> redzone]]
      /\ UNCHANGED << m_mutex, m_tracked_regions, m_total_bytes, to_free, lost,
                      m_last_violation >>
  BY <1>1 DEF AuditMallocAllocate, Idle, Enter, TableUnchanged
<1>3. \A b \in DOMAIN vram : b \in Nat /\ vram[b] \in Nat \ {0}
  BY WordAssumption DEF IInv, TypeOK, Word
<1>4. raw \notin DOMAIN vram
  BY <1>0, <1>1, <1>3 DEF cudaMalloc, Overlap
<1>5. /\ DOMAIN vram' = DOMAIN vram \cup {raw}
      /\ vram'[raw] = n
      /\ \A b \in DOMAIN vram : vram'[b] = vram[b]
      /\ vram' \in [DOMAIN vram' -> Word \ {0}]
  BY <1>0, <1>1, <1>4 DEF cudaMalloc, insert_or_assign, IInv, TypeOK
<1>6. /\ Carriers' = Carriers \cup {t} /\ t \notin Carriers
      /\ arg'[t].raw = raw /\ arg'[t].size = size /\ arg'[t].redzone = redzone
      /\ pc'[t] = "register"
      /\ \A u \in Threads \ {t} : pc'[u] = pc[u] /\ arg'[u] = arg[u]
  BY <1>2 DEF Carriers, IInv, TypeOK
<1>7. /\ Unfreed' = Unfreed
      /\ \A a : RawAddress(a)' = RawAddress(a)
  BY <1>2 DEF Unfreed, LockFree, RawAddress
<1>8. \A a \in Unfreed : RawAddress(a) \in DOMAIN vram
  BY DEF IInv, TrackedBacked
<1>9. \A u \in Carriers : arg[u].raw \in DOMAIN vram
  BY DEF IInv, CarriedBacked, Carriers
<1>10. TypeOK'
  <2>1. arg' \in [Threads -> Locals] /\ pc' \in [Threads -> Steps]
    <3>1. raw \in Word
      BY WordAssumption DEF Word
    <3> QED BY <1>0, <1>2, <3>1 DEF IInv, TypeOK, Locals, Steps
  <2> QED BY <1>2, <1>5, <2>1 DEF IInv, TypeOK
<1>11. LockMatchesPC'
  BY <1>2, <1>6 DEF IInv, LockMatchesPC, LockFree
<1>12. HeapWellFormed'
  <2>1. \A b \in DOMAIN vram' : b + vram'[b] <= HeapTop + 1
    BY <1>1, <1>5 DEF IInv, HeapWellFormed, cudaMalloc
  <2>2. \A b, c \in DOMAIN vram' : b # c => ~Overlap(b, vram'[b], c, vram'[c])
    BY <1>0, <1>1, <1>3, <1>5 DEF IInv, HeapWellFormed, cudaMalloc, Overlap
  <2> QED BY <2>1, <2>2 DEF HeapWellFormed
<1>13. EntriesWellFormed' /\ RegionsDisjoint'
  BY <1>2, <1>7 DEF IInv, EntriesWellFormed, RegionsDisjoint
<1>14. TrackedBacked'
  BY <1>2, <1>5, <1>7 DEF IInv, TrackedBacked
<1>15. CarriedBacked'
  BY <1>5, <1>6 DEF IInv, CarriedBacked, n
<1>16. HoldersDistinct'
  <2>1. lost \subseteq DOMAIN vram
    BY DEF IInv, TypeOK
  <2>2. \A u \in Carriers : u # t /\ u \in Threads
    BY <1>6 DEF Carriers
  <2> QED BY <1>2, <1>4, <1>6, <1>7, <1>8, <1>9, <2>1, <2>2 DEF IInv, HoldersDistinct
<1>17. HoldersComplete'
  <2>1. \A u \in Carriers : arg'[u] = arg[u]
    BY <1>6 DEF Carriers
  <2> QED BY <1>2, <1>5, <1>6, <1>7, <2>1 DEF IInv, HoldersComplete
<1> QED
  BY <1>10, <1>11, <1>12, <1>13, <1>14, <1>15, <1>16, <1>17 DEF IInv

\* Registration moves the block from the calling thread to the table, under
\* an address no entry has: two live blocks have different usable addresses.
LEMMA RegisterStep ==
  ASSUME IInv, NEW t \in Threads, AuditMallocRegister(t)
  PROVE  IInv'
<1>1. /\ pc[t] = "register" /\ LockFree
      /\ pc' = [pc EXCEPT ![t] = "idle"] /\ arg' = [arg EXCEPT ![t] = NoLocals]
      /\ UNCHANGED << vram, lost, m_mutex, m_last_violation, to_free >>
  BY DEF AuditMallocRegister, Return, Enter, DriverUnchanged
<1>0. PICK raw \in Word, size \in Word, rz \in Word :
         arg[t].raw = raw /\ arg[t].size = size /\ arg[t].redzone = rz
  BY DEF IInv, TypeOK, Locals
<1> DEFINE u == raw + rz
           entry == [size_bytes |-> size, redzone_bytes |-> rz, is_poisoned |-> FALSE]
<1>2. /\ raw \in DOMAIN vram /\ vram[raw] = size + 2 * rz
      /\ size \in Nat \ {0} /\ rz \in Nat /\ size \in Word /\ rz \in Word
      /\ raw \in Nat /\ raw >= 1 /\ raw + size + 2 * rz <= HeapTop + 1
  BY <1>0, <1>1, WordAssumption DEF IInv, TypeOK, CarriedBacked, HeapWellFormed, Word
<1>3. /\ Plus(raw, rz) = u /\ u \in Word /\ u \in Nat
      /\ u - rz >= 1 /\ u + size + rz <= HeapTop + 1
  BY <1>2, WordAssumption, PlusExact DEF Word
<1>a. /\ arg[t].raw = raw /\ u = raw + rz
      /\ m_tracked_regions' = insert_or_assign(m_tracked_regions, u, entry)
      /\ m_total_bytes' = Plus(m_total_bytes, size)
      /\ entry \in CUDAMemoryRegion
      /\ entry.size_bytes = size /\ entry.redzone_bytes = rz
  BY <1>0, <1>2, <1>3 DEF AuditMallocRegister, CUDAMemoryRegion
<1> HIDE DEF u, entry
<1>4. Unfreed = DOMAIN m_tracked_regions /\ Unfreed' = DOMAIN m_tracked_regions'
  BY <1>1 DEF Unfreed, LockFree
<1>5. \A a \in DOMAIN m_tracked_regions :
         /\ a \in Nat
         /\ m_tracked_regions[a].size_bytes \in Nat \ {0}
         /\ m_tracked_regions[a].redzone_bytes \in Nat
         /\ RawAddress(a) = a - m_tracked_regions[a].redzone_bytes
         /\ RawAddress(a) \in 1 .. HeapTop
         /\ RawAddress(a) \in DOMAIN vram
         /\ vram[RawAddress(a)] = m_tracked_regions[a].size_bytes
                                    + 2 * m_tracked_regions[a].redzone_bytes
         /\ RawAddress(a) # raw
  <2>1. \A a \in DOMAIN m_tracked_regions :
           /\ a \in Nat
           /\ m_tracked_regions[a].size_bytes \in Nat \ {0}
           /\ m_tracked_regions[a].redzone_bytes \in Nat
    BY WordAssumption DEF IInv, TypeOK, EntriesWellFormed, CUDAMemoryRegion, Word
  <2>2. t \in Carriers
    BY <1>1 DEF Carriers
  <2> QED BY <1>4, <1>a, <2>1, <2>2, RawExact DEF IInv, TrackedBacked, HoldersDistinct
<1>6. \A a \in DOMAIN m_tracked_regions :
         ~Overlap(raw, size + 2 * rz, RawAddress(a), m_tracked_regions[a].size_bytes
                                        + 2 * m_tracked_regions[a].redzone_bytes)
  BY <1>2, <1>5 DEF IInv, HeapWellFormed
<1>7. u \notin DOMAIN m_tracked_regions
  <2> SUFFICES ASSUME u \in DOMAIN m_tracked_regions PROVE FALSE
    OBVIOUS
  <2>1. ~Overlap(raw, size + 2 * rz, u - m_tracked_regions[u].redzone_bytes,
                 m_tracked_regions[u].size_bytes + 2 * m_tracked_regions[u].redzone_bytes)
    BY <1>5, <1>6
  <2> QED BY <2>1, <1>2, <1>a, <1>5 DEF Overlap
<1>8. /\ DOMAIN m_tracked_regions' = DOMAIN m_tracked_regions \cup {u}
      /\ m_tracked_regions'[u] = entry
      /\ \A a \in DOMAIN m_tracked_regions : m_tracked_regions'[a] = m_tracked_regions[a]
      /\ m_tracked_regions' \in [DOMAIN m_tracked_regions' -> CUDAMemoryRegion]
  BY <1>7, <1>a DEF insert_or_assign, IInv, TypeOK
<1>9. /\ RawAddress(u)' = raw
      /\ \A a \in DOMAIN m_tracked_regions : RawAddress(a)' = RawAddress(a)
  <2>1. RawAddress(u)' = Minus(u, rz)
    BY <1>8, <1>a DEF RawAddress
  <2>2. Minus(u, rz) = raw
    BY <1>2, <1>3, <1>a, WordAssumption, MinusExact
  <2>3. \A a \in DOMAIN m_tracked_regions : RawAddress(a)' = RawAddress(a)
    BY <1>8 DEF RawAddress
  <2> QED BY <2>1, <2>2, <2>3
<1>10. /\ Carriers' = Carriers \ {t} /\ t \in Carriers
       /\ \A w \in Threads \ {t} : pc'[w] = pc[w] /\ arg'[w] = arg[w]
       /\ pc'[t] = "idle"
  BY <1>1 DEF Carriers, IInv, TypeOK
<1>11. TypeOK'
  <2>1. m_total_bytes' \in Word
    BY <1>2, <1>a, WordClosed, WordAssumption DEF IInv, TypeOK, Word
  <2>2. pc' \in [Threads -> Steps] /\ arg' \in [Threads -> Locals]
    BY <1>1, WordAssumption DEF IInv, TypeOK, Steps, Locals, NoLocals, Word
  <2> QED BY <1>1, <1>3, <1>8, <2>1, <2>2 DEF IInv, TypeOK
<1>12. LockMatchesPC'
  BY <1>1, <1>10 DEF IInv, LockMatchesPC, LockFree
<1>13. HeapWellFormed'
  BY <1>1 DEF IInv, HeapWellFormed
<1>14. EntriesWellFormed'
  BY <1>2, <1>3, <1>8, <1>a DEF IInv, EntriesWellFormed
<1>15. RegionsDisjoint'
  <2> SUFFICES ASSUME NEW a \in DOMAIN m_tracked_regions', NEW b \in DOMAIN m_tracked_regions',
                      a # b
               PROVE  ~Overlap(RawAddress(a)', m_tracked_regions'[a].size_bytes
                                 + 2 * m_tracked_regions'[a].redzone_bytes,
                               RawAddress(b)', m_tracked_regions'[b].size_bytes
                                 + 2 * m_tracked_regions'[b].redzone_bytes)
    BY DEF RegionsDisjoint
  <2>1. CASE a # u /\ b # u
    BY <2>1, <1>8, <1>9 DEF IInv, RegionsDisjoint
  <2>2. CASE a = u /\ b # u
    BY <2>2, <1>6, <1>8, <1>9, <1>a
  <2>3. CASE a # u /\ b = u
    BY <2>3, <1>6, <1>8, <1>9, <1>a DEF Overlap
  <2> QED BY <2>1, <2>2, <2>3
<1>16. TrackedBacked'
  BY <1>1, <1>2, <1>4, <1>5, <1>8, <1>9, <1>a DEF TrackedBacked
<1>17. CarriedBacked'
  BY <1>1, <1>10 DEF IInv, CarriedBacked
<1>18. HoldersDistinct'
  <2>1. \A w \in Carriers' : w \in Carriers /\ w # t /\ arg'[w] = arg[w]
    BY <1>10 DEF Carriers
  <2> QED BY <1>1, <1>4, <1>8, <1>9, <1>10, <1>a, <2>1 DEF IInv, HoldersDistinct
<1>19. HoldersComplete'
  <2>1. \A w \in Carriers : w = t \/ (w \in Carriers' /\ arg'[w] = arg[w])
    BY <1>10 DEF Carriers
  <2> QED BY <1>1, <1>4, <1>8, <1>9, <1>a, <2>1 DEF IInv, HoldersComplete
<1> QED
  BY <1>11, <1>12, <1>13, <1>14, <1>15, <1>16, <1>17, <1>18, <1>19 DEF IInv

\* Poisoning changes one flag, which no other part of the invariant reads.
LEMMA PoisonStep ==
  ASSUME IInv, NEW t \in Threads, NEW p \in Pointers, NEW n \in Accesses,
         NEW flag \in BOOLEAN, SetPoison(t, p, n, flag)
  PROVE  IInv'
<1>1. /\ pc[t] = "idle" /\ pc' = [pc EXCEPT ![t] = "idle"]
      /\ arg' = [arg EXCEPT ![t] = NoLocals]
      /\ UNCHANGED << vram, lost, m_mutex, m_total_bytes, m_last_violation, to_free >>
  BY DEF SetPoison, Idle, Return, Enter, DriverUnchanged
<1>2. /\ DOMAIN m_tracked_regions' = DOMAIN m_tracked_regions
      /\ m_tracked_regions' \in [DOMAIN m_tracked_regions -> CUDAMemoryRegion]
      /\ \A a \in DOMAIN m_tracked_regions :
           /\ m_tracked_regions'[a].size_bytes = m_tracked_regions[a].size_bytes
           /\ m_tracked_regions'[a].redzone_bytes = m_tracked_regions[a].redzone_bytes
  <2>1. CASE UNCHANGED m_tracked_regions
    BY <2>1 DEF IInv, TypeOK
  <2>2. CASE /\ p \in DOMAIN m_tracked_regions
             /\ m_tracked_regions' = [m_tracked_regions EXCEPT ![p].is_poisoned = flag]
    BY <2>2 DEF IInv, TypeOK, CUDAMemoryRegion
  <2> QED BY <2>1, <2>2 DEF SetPoison
<1>3. /\ Unfreed' = Unfreed /\ Unfreed \subseteq DOMAIN m_tracked_regions
      /\ \A a \in DOMAIN m_tracked_regions : RawAddress(a)' = RawAddress(a)
  BY <1>1, <1>2 DEF Unfreed, LockFree, RawAddress, IInv, TypeOK
<1>4. /\ Carriers' = Carriers
      /\ \A u \in Threads : pc'[u] = pc[u]
      /\ \A u \in Carriers : arg'[u] = arg[u]
  BY <1>1 DEF Carriers, IInv, TypeOK
<1>5. TypeOK'
  <2>1. pc' \in [Threads -> Steps] /\ arg' \in [Threads -> Locals]
    BY <1>1, WordAssumption DEF IInv, TypeOK, Steps, Locals, NoLocals, Word
  <2> QED BY <1>1, <1>2, <2>1 DEF IInv, TypeOK
<1>6. LockMatchesPC' /\ HeapWellFormed'
  BY <1>1, <1>4 DEF IInv, LockMatchesPC, LockFree, HeapWellFormed
<1>7. EntriesWellFormed'
  BY <1>2 DEF IInv, EntriesWellFormed
<1>8. RegionsDisjoint'
  BY <1>2, <1>3 DEF IInv, RegionsDisjoint
<1>9. TrackedBacked'
  BY <1>1, <1>2, <1>3 DEF IInv, TrackedBacked
<1>10. CarriedBacked'
  <2> SUFFICES ASSUME NEW u \in Threads, pc'[u] \in {"register", "cudaFree"}
               PROVE  u \in Carriers
    BY <1>1, <1>4 DEF IInv, CarriedBacked
  <2> QED BY <1>4 DEF Carriers
<1>11. HoldersDistinct' /\ HoldersComplete'
  BY <1>1, <1>3, <1>4 DEF IInv, HoldersDistinct, HoldersComplete
<1> QED BY <1>5, <1>6, <1>7, <1>8, <1>9, <1>10, <1>11 DEF IInv

\* audit_free moves the block of the entry to the calling thread.
LEMMA UnregisterStep ==
  ASSUME IInv, NEW t \in Threads, NEW p \in Pointers, AuditFreeUnregister(t, p)
  PROVE  IInv'
<1>1. /\ pc[t] = "idle" /\ LockFree /\ p \in DOMAIN m_tracked_regions
      /\ UNCHANGED << vram, lost, m_mutex, m_last_violation, to_free >>
  BY DEF AuditFreeUnregister, Idle, DriverUnchanged
<1>2. PICK raw \in 1 .. HeapTop : RawAddress(p) = raw
  BY <1>1, RawExact
<1>3. /\ pc' = [pc EXCEPT ![t] = "cudaFree"]
      /\ \E locals \in Locals : locals.raw = raw /\ arg' = [arg EXCEPT ![t] = locals]
  <2>1. [NoLocals EXCEPT !.raw = raw] \in Locals /\ [NoLocals EXCEPT !.raw = raw].raw = raw
    BY WordAssumption DEF NoLocals, Locals, Word
  <2> QED BY <1>2, <2>1 DEF AuditFreeUnregister, Enter
<1>4. /\ DOMAIN m_tracked_regions' = DOMAIN m_tracked_regions \ {p}
      /\ \A a \in DOMAIN m_tracked_regions \ {p} :
           m_tracked_regions'[a] = m_tracked_regions[a]
      /\ m_tracked_regions' \in [DOMAIN m_tracked_regions' -> CUDAMemoryRegion]
  BY DEF AuditFreeUnregister, erase, IInv, TypeOK
<1>5. /\ Unfreed = DOMAIN m_tracked_regions /\ Unfreed' = DOMAIN m_tracked_regions'
      /\ to_free = {}
  BY <1>1 DEF Unfreed, LockFree, IInv, LockMatchesPC
<1>6. \A a \in DOMAIN m_tracked_regions \ {p} :
         RawAddress(a)' = RawAddress(a) /\ RawAddress(a) # raw
  <2>1. \A a \in DOMAIN m_tracked_regions \ {p} : RawAddress(a)' = RawAddress(a)
    BY <1>4 DEF RawAddress
  <2> QED BY <1>1, <1>2, <2>1, RawDistinct
<1>7. raw \in DOMAIN vram /\ raw \notin lost /\ \A w \in Carriers : arg[w].raw # raw
  BY <1>1, <1>2, <1>5 DEF IInv, TrackedBacked, HoldersDistinct
<1>8. /\ Carriers' = Carriers \cup {t} /\ t \notin Carriers
      /\ \A w \in Threads \ {t} : pc'[w] = pc[w] /\ arg'[w] = arg[w]
      /\ pc'[t] = "cudaFree" /\ arg'[t].raw = raw
  BY <1>1, <1>3 DEF Carriers, IInv, TypeOK
<1>9. TypeOK'
  <2>1. m_total_bytes' \in Word
    <3>1. m_tracked_regions[p].size_bytes \in Int /\ m_total_bytes \in Int
      BY <1>1, WordAssumption DEF IInv, TypeOK, CUDAMemoryRegion, Word
    <3> QED BY <3>1, WordClosed DEF AuditFreeUnregister
  <2>2. pc' \in [Threads -> Steps] /\ arg' \in [Threads -> Locals]
    BY <1>3, WordAssumption DEF IInv, TypeOK, Steps, Locals, Word
  <2> QED BY <1>1, <1>4, <1>5, <2>1, <2>2 DEF IInv, TypeOK
<1>10. LockMatchesPC' /\ HeapWellFormed'
  BY <1>1, <1>8 DEF IInv, LockMatchesPC, LockFree, HeapWellFormed
<1>11. EntriesWellFormed'
  BY <1>4 DEF IInv, EntriesWellFormed
<1>12. RegionsDisjoint'
  BY <1>4, <1>6 DEF IInv, RegionsDisjoint
<1>13. TrackedBacked'
  BY <1>1, <1>4, <1>5, <1>6 DEF IInv, TrackedBacked
<1>14. CarriedBacked'
  BY <1>1, <1>7, <1>8 DEF IInv, CarriedBacked
<1>15. HoldersDistinct'
  <2>1. \A w \in Carriers : w \in Threads \ {t}
    BY <1>8 DEF Carriers
  <2> QED BY <1>1, <1>4, <1>5, <1>6, <1>7, <1>8, <2>1 DEF IInv, HoldersDistinct
<1>16. HoldersComplete'
  <2>1. \A w \in Carriers : w \in Carriers' /\ arg'[w] = arg[w]
    BY <1>8 DEF Carriers
  <2> QED BY <1>1, <1>2, <1>4, <1>5, <1>6, <1>8, <2>1 DEF IInv, HoldersComplete
<1> QED
  BY <1>9, <1>10, <1>11, <1>12, <1>13, <1>14, <1>15, <1>16 DEF IInv

\* The driver takes back a block that only the calling thread holds, or
\* refuses to, and then nobody will free it any more.
LEMMA ReleaseStep ==
  ASSUME IInv, NEW t \in Threads, AuditFreeRelease(t)
  PROVE  IInv'
<1>1. /\ pc[t] = "cudaFree" /\ pc' = [pc EXCEPT ![t] = "idle"]
      /\ arg' = [arg EXCEPT ![t] = NoLocals]
      /\ UNCHANGED << m_mutex, m_tracked_regions, m_total_bytes, to_free, m_last_violation >>
  BY DEF AuditFreeRelease, Return, Enter, TableUnchanged
<1>2. PICK raw \in DOMAIN vram : arg[t].raw = raw
  BY <1>1 DEF IInv, CarriedBacked
<1>3. \/ /\ DOMAIN vram' = DOMAIN vram \ {raw}
         /\ \A b \in DOMAIN vram \ {raw} : vram'[b] = vram[b]
         /\ vram' = [b \in DOMAIN vram \ {raw} |-> vram[b]]
         /\ lost' = lost
      \/ vram' = vram /\ lost' = lost \cup {raw}
  BY <1>2 DEF AuditFreeRelease, cudaFree, erase
<1>4. /\ Carriers' = Carriers \ {t} /\ t \in Carriers
      /\ \A w \in Threads \ {t} : pc'[w] = pc[w] /\ arg'[w] = arg[w]
      /\ pc'[t] = "idle"
  BY <1>1 DEF Carriers, IInv, TypeOK
<1>5. /\ Unfreed' = Unfreed
      /\ \A a : RawAddress(a)' = RawAddress(a)
  BY <1>1 DEF Unfreed, LockFree, RawAddress
<1>6. /\ raw \notin lost
      /\ \A w \in Carriers \ {t} : arg[w].raw # raw
      /\ \A a \in Unfreed : RawAddress(a) # raw
  BY <1>2, <1>4 DEF IInv, HoldersDistinct
<1>7. TypeOK'
  <2>1. pc' \in [Threads -> Steps] /\ arg' \in [Threads -> Locals]
    BY <1>1, WordAssumption DEF IInv, TypeOK, Steps, Locals, NoLocals, Word
  <2>2. /\ DOMAIN vram' \subseteq 1 .. HeapTop
        /\ vram' \in [DOMAIN vram' -> Word \ {0}]
        /\ lost' \subseteq DOMAIN vram'
    BY <1>3, <1>6 DEF IInv, TypeOK
  <2> QED BY <1>1, <2>1, <2>2 DEF IInv, TypeOK
<1>8. LockMatchesPC'
  BY <1>1, <1>4 DEF IInv, LockMatchesPC, LockFree
<1>9. HeapWellFormed'
  BY <1>3 DEF IInv, HeapWellFormed
<1>10. EntriesWellFormed' /\ RegionsDisjoint'
  BY <1>1, <1>5 DEF IInv, EntriesWellFormed, RegionsDisjoint
<1>11. TrackedBacked'
  BY <1>1, <1>3, <1>5, <1>6 DEF IInv, TrackedBacked
<1>12. CarriedBacked'
  <2> SUFFICES ASSUME NEW w \in Threads, pc'[w] \in {"register", "cudaFree"}
               PROVE  /\ w # t /\ pc'[w] = pc[w] /\ arg'[w] = arg[w]
                      /\ arg[w].raw # raw
    BY <1>3 DEF IInv, CarriedBacked
  <2> QED BY <1>4, <1>6 DEF Carriers
<1>13. HoldersDistinct'
  <2>1. \A w \in Carriers' : w \in Carriers \ {t} /\ arg'[w] = arg[w]
    BY <1>4 DEF Carriers
  <2> QED BY <1>3, <1>5, <1>6, <2>1 DEF IInv, HoldersDistinct
<1>14. HoldersComplete'
  <2>1. \A w \in Carriers : w = t \/ (w \in Carriers' /\ arg'[w] = arg[w])
    BY <1>4 DEF Carriers
  <2> QED BY <1>2, <1>3, <1>5, <2>1 DEF IInv, HoldersComplete
<1> QED
  BY <1>7, <1>8, <1>9, <1>10, <1>11, <1>12, <1>13, <1>14 DEF IInv

\* reset() takes the lock, and the table becomes its list of blocks to free.
LEMMA ResetBeginStep ==
  ASSUME IInv, NEW t \in Threads, ResetBegin(t)
  PROVE  IInv'
<1>1. /\ pc[t] = "idle" /\ LockFree /\ m_mutex' = t /\ to_free' = DOMAIN m_tracked_regions
      /\ pc' = [pc EXCEPT ![t] = "reset"] /\ arg' = [arg EXCEPT ![t] = NoLocals]
      /\ UNCHANGED << vram, lost, m_tracked_regions, m_total_bytes, m_last_violation >>
  BY DEF ResetBegin, Idle, Enter, DriverUnchanged
<1>2. /\ ~LockFree' /\ Unfreed' = Unfreed
      /\ \A a : RawAddress(a)' = RawAddress(a)
  BY <1>1, ThreadAssumption DEF Unfreed, LockFree, RawAddress
<1>3. /\ Carriers' = Carriers
      /\ \A w \in Carriers : pc'[w] = pc[w] /\ arg'[w] = arg[w]
      /\ \A w \in Threads \ {t} : pc'[w] = pc[w]
      /\ pc'[t] = "reset"
  BY <1>1 DEF Carriers, IInv, TypeOK
<1>4. TypeOK'
  <2>1. pc' \in [Threads -> Steps] /\ arg' \in [Threads -> Locals]
    BY <1>1, WordAssumption DEF IInv, TypeOK, Steps, Locals, NoLocals, Word
  <2> QED BY <1>1, <2>1 DEF IInv, TypeOK
<1>5. LockMatchesPC'
  BY <1>1, <1>2, <1>3, ThreadAssumption DEF IInv, LockMatchesPC, LockFree
<1>6. HeapWellFormed' /\ EntriesWellFormed' /\ RegionsDisjoint' /\ TrackedBacked'
  BY <1>1, <1>2 DEF IInv, HeapWellFormed, EntriesWellFormed, RegionsDisjoint, TrackedBacked
<1>7. CarriedBacked'
  <2> SUFFICES ASSUME NEW w \in Threads, pc'[w] \in {"register", "cudaFree"}
               PROVE  w \in Carriers
    BY <1>1, <1>3 DEF IInv, CarriedBacked
  <2> QED BY <1>3 DEF Carriers
<1>8. HoldersDistinct' /\ HoldersComplete'
  BY <1>1, <1>2, <1>3 DEF IInv, HoldersDistinct, HoldersComplete
<1> QED BY <1>4, <1>5, <1>6, <1>7, <1>8 DEF IInv

\* reset() frees one block and crosses it off, whether or not the driver
\* took it: until the table is cleared its entry is left without a block.
LEMMA ResetFreeStep ==
  ASSUME IInv, NEW t \in Threads, NEW a \in to_free, ResetFree(t, a)
  PROVE  IInv'
<1>1. /\ pc[t] = "reset" /\ m_mutex = t /\ ~LockFree
      /\ UNCHANGED << m_mutex, m_tracked_regions, m_total_bytes, m_last_violation, pc, arg >>
      /\ to_free' = to_free \ {a}
  BY ThreadAssumption DEF ResetFree, IInv, LockMatchesPC, LockFree
<1>2. /\ Unfreed = to_free /\ Unfreed' = to_free \ {a} /\ ~LockFree'
      /\ Carriers' = Carriers
      /\ \A b : RawAddress(b)' = RawAddress(b)
  BY <1>1 DEF Unfreed, LockFree, RawAddress, Carriers
<1>3. PICK raw \in DOMAIN vram : RawAddress(a) = raw
  BY <1>2 DEF IInv, TrackedBacked
<1>4. /\ raw \notin lost
      /\ \A w \in Carriers : arg[w].raw # raw
      /\ \A b \in to_free \ {a} : RawAddress(b) # raw
  <2>1. a \in DOMAIN m_tracked_regions /\ to_free \subseteq DOMAIN m_tracked_regions
    BY DEF IInv, TypeOK
  <2>2. \A b \in to_free \ {a} : RawAddress(b) # RawAddress(a)
    BY <2>1, RawDistinct
  <2> QED BY <1>2, <1>3, <2>2 DEF IInv, HoldersDistinct
<1>5. \/ /\ DOMAIN vram' = DOMAIN vram \ {raw}
         /\ \A b \in DOMAIN vram \ {raw} : vram'[b] = vram[b]
         /\ vram' = [b \in DOMAIN vram \ {raw} |-> vram[b]]
         /\ lost' = lost
      \/ vram' = vram /\ lost' = lost \cup {raw}
  BY <1>3 DEF ResetFree, cudaFree, erase
<1>6. TypeOK'
  <2>1. /\ DOMAIN vram' \subseteq 1 .. HeapTop
        /\ vram' \in [DOMAIN vram' -> Word \ {0}]
        /\ lost' \subseteq DOMAIN vram'
    BY <1>4, <1>5 DEF IInv, TypeOK
  <2> QED BY <1>1, <2>1 DEF IInv, TypeOK
<1>7. LockMatchesPC' /\ EntriesWellFormed' /\ RegionsDisjoint'
  BY <1>1, <1>2 DEF IInv, LockMatchesPC, EntriesWellFormed, RegionsDisjoint
<1>8. HeapWellFormed'
  BY <1>5 DEF IInv, HeapWellFormed
<1>9. TrackedBacked'
  BY <1>1, <1>2, <1>4, <1>5 DEF IInv, TrackedBacked
<1>10. CarriedBacked'
  <2>1. \A w \in Threads : pc[w] \in {"register", "cudaFree"} => arg[w].raw # raw
    BY <1>4 DEF Carriers
  <2> QED BY <1>1, <1>5, <2>1 DEF IInv, CarriedBacked
<1>11. HoldersDistinct'
  BY <1>1, <1>2, <1>4, <1>5 DEF IInv, HoldersDistinct
<1>12. HoldersComplete'
  BY <1>1, <1>2, <1>3, <1>5 DEF IInv, HoldersComplete
<1> QED
  BY <1>6, <1>7, <1>8, <1>9, <1>10, <1>11, <1>12 DEF IInv

\* reset() clears the table when every block of it has been handed back.
LEMMA ResetEndStep ==
  ASSUME IInv, NEW t \in Threads, ResetEnd(t)
  PROVE  IInv'
<1>1. /\ pc[t] = "reset" /\ m_mutex = t /\ to_free = {} /\ to_free' = {}
      /\ m_mutex' = NoThread /\ m_total_bytes' = 0 /\ m_last_violation' = NoViolation
      /\ pc' = [pc EXCEPT ![t] = "idle"] /\ arg' = [arg EXCEPT ![t] = NoLocals]
      /\ UNCHANGED << vram, lost >>
  BY DEF ResetEnd, Enter, DriverUnchanged, IInv, LockMatchesPC
<1>2. /\ DOMAIN m_tracked_regions' = {}
      /\ m_tracked_regions' \in [DOMAIN m_tracked_regions' -> CUDAMemoryRegion]
  BY DEF ResetEnd, NoMapping
<1>3. Unfreed = {} /\ Unfreed' = {}
  BY <1>1, <1>2, ThreadAssumption DEF Unfreed, LockFree
<1>4. /\ Carriers' = Carriers
      /\ \A w \in Carriers : pc'[w] = pc[w] /\ arg'[w] = arg[w]
      /\ \A w \in Threads \ {t} : pc'[w] = pc[w]
      /\ pc'[t] = "idle"
  BY <1>1 DEF Carriers, IInv, TypeOK
<1>5. TypeOK'
  <2>1. pc' \in [Threads -> Steps] /\ arg' \in [Threads -> Locals]
    BY <1>1, WordAssumption DEF IInv, TypeOK, Steps, Locals, NoLocals, Word
  <2>2. m_last_violation' \in CUDAViolationReport /\ m_total_bytes' \in Word
    BY <1>1, WordAssumption DEF NoViolation, CUDAViolationReport, Status, Word
  <2> QED BY <1>1, <1>2, <2>1, <2>2 DEF IInv, TypeOK
<1>6. LockMatchesPC'
  BY <1>1, <1>4, ThreadAssumption DEF IInv, LockMatchesPC, LockFree
<1>7. HeapWellFormed' /\ EntriesWellFormed' /\ RegionsDisjoint' /\ TrackedBacked'
  BY <1>1, <1>2, <1>3 DEF IInv, HeapWellFormed, EntriesWellFormed, RegionsDisjoint, TrackedBacked
<1>8. CarriedBacked'
  <2> SUFFICES ASSUME NEW w \in Threads, pc'[w] \in {"register", "cudaFree"}
               PROVE  w \in Carriers
    BY <1>1, <1>4 DEF IInv, CarriedBacked
  <2> QED BY <1>4 DEF Carriers
<1>9. HoldersDistinct' /\ HoldersComplete'
  BY <1>1, <1>3, <1>4 DEF IInv, HoldersDistinct, HoldersComplete
<1> QED BY <1>5, <1>6, <1>7, <1>8, <1>9 DEF IInv

-----------------------------------------------------------------------------
(* The theorems                                                             *)

\* The auditor starts with an empty table and an empty heap.
LEMMA InitInv == Init => IInv
<1> SUFFICES ASSUME Init PROVE IInv
  OBVIOUS
<1>1. TypeOK
  BY WordAssumption DEF Init, TypeOK, NoMapping, NoViolation, NoLocals, Word, Steps,
     Locals, CUDAViolationReport, Status
<1>2. Carriers = {} /\ Unfreed = {} /\ DOMAIN m_tracked_regions = {} /\ DOMAIN vram = {}
  BY DEF Init, Carriers, Unfreed, NoMapping
<1>3. LockMatchesPC
  BY ThreadAssumption DEF Init, LockMatchesPC
<1>4. HeapWellFormed /\ EntriesWellFormed /\ RegionsDisjoint /\ TrackedBacked
  BY <1>2 DEF HeapWellFormed, EntriesWellFormed, RegionsDisjoint, TrackedBacked
<1>5. CarriedBacked
  BY DEF Init, CarriedBacked
<1>6. HoldersDistinct /\ HoldersComplete
  BY <1>2 DEF HoldersDistinct, HoldersComplete
<1> QED BY <1>1, <1>3, <1>4, <1>5, <1>6 DEF IInv

\* IInv is inductive.
LEMMA NextInv == IInv /\ [Next]_vars => IInv'
<1> SUFFICES ASSUME IInv, [Next]_vars PROVE IInv'
  OBVIOUS
<1>1. CASE UNCHANGED vars
  BY <1>1 DEF vars, IInv, TypeOK, LockMatchesPC, LockFree, HeapWellFormed,
     EntriesWellFormed, RegionsDisjoint, TrackedBacked, CarriedBacked, HoldersDistinct,
     HoldersComplete, Unfreed, Carriers, RawAddress
<1>2. CASE Next
  <2>1. PICK t \in Threads : Begin(t) \/ Continue(t)
    BY <1>2 DEF Next
  <2>2. ASSUME NEW size \in Sizes, NEW redzone \in Redzones,
               AuditMallocAllocate(t, size, redzone)
        PROVE  IInv'
    BY <2>2, AllocateStep
  <2>3. ASSUME NEW p \in Pointers, AuditFreeUnregister(t, p) PROVE IInv'
    BY <2>3, UnregisterStep
  <2>4. ASSUME NEW p \in Pointers, NEW n \in Accesses,
               PoisonRegion(t, p, n) \/ UnpoisonRegion(t, p, n)
        PROVE  IInv'
    BY <2>4, PoisonStep DEF PoisonRegion, UnpoisonRegion
  <2>5. CASE ResetBegin(t)
    BY <2>5, ResetBeginStep
  <2>6. CASE AuditMallocRegister(t)
    BY <2>6, RegisterStep
  <2>7. CASE AuditFreeRelease(t)
    BY <2>7, ReleaseStep
  <2>8. ASSUME NEW a \in to_free, ResetFree(t, a) PROVE IInv'
    BY <2>8, ResetFreeStep
  <2>9. CASE ResetEnd(t)
    BY <2>9, ResetEndStep
  <2>10. CASE \/ AuditMallocTrivial(t)
              \/ \E size \in Sizes : AuditMallocRefused(t, size)
              \/ AuditMallocReport(t)
              \/ AuditFreeNull(t)
              \/ \E p \in Pointers \ {Null} : AuditFreeUntracked(t, p)
              \/ \E p \in Pointers, n \in Accesses : CheckBounds(t, p, n)
    BY <2>10, QuietActions
  <2> QED
    BY <2>1, <2>2, <2>3, <2>4, <2>5, <2>6, <2>7, <2>8, <2>9, <2>10 DEF Begin, Continue
<1> QED BY <1>1, <1>2

\* Whatever the threads do, the table, the driver's heap and the calls in
\* flight agree: IInv holds in every reachable state.
THEOREM Invariance == Spec => []IInv
<1>1. Init => IInv
  BY InitInv
<1>2. IInv /\ [Next]_vars => IInv'
  BY NextInv
<1> QED BY <1>1, <1>2, PTL DEF Spec

\* Every variable keeps its type: in particular reset()'s list of blocks is
\* always a part of the table, and a block given up is still a live one.
THEOREM TypeCorrect == Spec => []TypeOK
<1>1. IInv => TypeOK
  BY DEF IInv
<1> QED BY <1>1, Invariance, PTL

\* audit_free and reset never hand cudaFree a block that is not live, for
\* any number of threads freeing and resetting at once.
THEOREM NoDoubleCudaFree == Spec => []CudaFreeOfLive
<1>1. IInv => CudaFreeOfLive
  <2> SUFFICES ASSUME IInv PROVE CudaFreeOfLive
    OBVIOUS
  <2>1. \A t \in Threads : pc[t] = "cudaFree" => arg[t].raw \in DOMAIN vram
    BY DEF IInv, CarriedBacked
  <2>2. to_free \subseteq Unfreed
    BY DEF IInv, TypeOK, LockMatchesPC, Unfreed
  <2> QED BY <2>1, <2>2 DEF IInv, TrackedBacked, CudaFreeOfLive
<1> QED BY <1>1, Invariance, PTL

\* The sums of check_bounds are exact on the entries of the table, and a
\* tracked region is a live block.
LEMMA EntryFacts ==
  ASSUME IInv, LockFree, NEW a \in DOMAIN m_tracked_regions, NEW n \in Accesses, n # 0
  PROVE  LET r == m_tracked_regions[a] IN
         /\ a \in Nat /\ a >= 1 /\ n \in Nat
         /\ r.size_bytes \in Nat \ {0} /\ r.redzone_bytes \in Nat /\ r.is_poisoned \in BOOLEAN
         /\ Plus(a, r.size_bytes) = a + r.size_bytes
         /\ a + r.size_bytes <= HeapTop + 1
         /\ RawAddress(a) = a - r.redzone_bytes
         /\ RawAddress(a) \in DOMAIN vram
         /\ vram[RawAddress(a)] = r.size_bytes + 2 * r.redzone_bytes
<1>1. /\ a \in Nat /\ n \in Nat
      /\ m_tracked_regions[a].size_bytes \in Nat \ {0}
      /\ m_tracked_regions[a].redzone_bytes \in Nat
      /\ m_tracked_regions[a].is_poisoned \in BOOLEAN
      /\ a - m_tracked_regions[a].redzone_bytes >= 1
      /\ a + m_tracked_regions[a].size_bytes + m_tracked_regions[a].redzone_bytes
           <= HeapTop + 1
  BY WordAssumption DEF IInv, TypeOK, EntriesWellFormed, CUDAMemoryRegion, Word
<1>2. HeapTop + 1 < SizeMod
  BY <1>1, BoundedRequests, WordAssumption
<1>3. /\ Plus(a, m_tracked_regions[a].size_bytes) = a + m_tracked_regions[a].size_bytes
      /\ a + m_tracked_regions[a].size_bytes <= HeapTop + 1 /\ a >= 1
  BY <1>1, <1>2, PlusExact, WordAssumption
<1>4. a \in Unfreed
  BY DEF Unfreed
<1> QED BY <1>1, <1>3, <1>4, RawExact DEF IInv, TrackedBacked

\* While the lock is free check_bounds has exactly one possible answer, and
\* it is true for exactly the ranges inside one live, unpoisoned payload.
THEOREM BoundsExact == Spec => []CheckBoundsExact
<1>1. IInv => CheckBoundsExact
  <2> SUFFICES ASSUME IInv, LockFree, NEW p \in Pointers, NEW n \in Accesses
               PROVE  BoundsVerdicts(p, n) = {Accessible(p, n)}
    BY DEF CheckBoundsExact
  <2>0. p \in Nat /\ n \in Nat
    BY WordAssumption
  <2>1. CASE n = 0
    BY <2>1 DEF BoundsVerdicts, Accessible
  <2>2. CASE n # 0 /\ Hits(p) = {}
    <3>1. ~Accessible(p, n)
      BY <2>0, <2>2, EntryFacts DEF Accessible, Hits
    <3> QED BY <2>2, <3>1 DEF BoundsVerdicts, Accessible
  <2>3. CASE n # 0 /\ Hits(p) # {}
    <3>1. PICK a \in DOMAIN m_tracked_regions :
             a <= p /\ p < a + m_tracked_regions[a].size_bytes /\ a \in Hits(p)
      BY <2>0, <2>3, EntryFacts DEF Hits
    <3>2. ASSUME NEW b \in DOMAIN m_tracked_regions,
                 b <= p, p < b + m_tracked_regions[b].size_bytes
          PROVE  b = a
      <4>1. /\ RawAddress(a) = a - m_tracked_regions[a].redzone_bytes
            /\ RawAddress(b) = b - m_tracked_regions[b].redzone_bytes
            /\ a \in Nat /\ b \in Nat
            /\ m_tracked_regions[a].size_bytes \in Nat
            /\ m_tracked_regions[b].size_bytes \in Nat
            /\ m_tracked_regions[a].redzone_bytes \in Nat
            /\ m_tracked_regions[b].redzone_bytes \in Nat
        BY <2>3, EntryFacts
      <4>2. Overlap(RawAddress(a), m_tracked_regions[a].size_bytes
                                     + 2 * m_tracked_regions[a].redzone_bytes,
                    RawAddress(b), m_tracked_regions[b].size_bytes
                                     + 2 * m_tracked_regions[b].redzone_bytes)
        BY <2>0, <3>1, <3>2, <4>1 DEF Overlap
      <4> QED BY <4>2 DEF IInv, RegionsDisjoint
    <3>3. Hits(p) = {a}
      <4>1. \A b \in Hits(p) : b = a
        BY <2>0, <2>3, <3>2, EntryFacts DEF Hits
      <4> QED BY <3>1, <4>1
    <3>4. /\ p # 0 /\ Plus(p, n) = p + n
          /\ Plus(a, m_tracked_regions[a].size_bytes) = a + m_tracked_regions[a].size_bytes
      BY <2>0, <2>3, <3>1, EntryFacts, PlusExact, BoundedRequests, WordAssumption
    <3>5. BoundsVerdicts(p, n) = {Decides(a, p, n)}
      BY <2>3, <3>3, <3>4 DEF BoundsVerdicts, Null
    <3>6. Decides(a, p, n) => Accessible(p, n)
      BY <2>0, <2>3, <3>1, <3>4, EntryFacts DEF Decides, Accessible
    <3>7. Accessible(p, n) => Decides(a, p, n)
      <4> SUFFICES ASSUME Accessible(p, n) PROVE Decides(a, p, n)
        OBVIOUS
      <4>1. PICK b \in DOMAIN m_tracked_regions :
               /\ ~m_tracked_regions[b].is_poisoned
               /\ b <= p /\ p + n <= b + m_tracked_regions[b].size_bytes
        BY DEF Accessible
      <4>2. b = a
        BY <2>0, <2>3, <3>2, <4>1, EntryFacts
      <4> QED BY <3>4, <4>1, <4>2 DEF Decides
    <3>8. Decides(a, p, n) \in BOOLEAN /\ Accessible(p, n) \in BOOLEAN
      BY DEF Decides, Accessible
    <3>9. Decides(a, p, n) = Accessible(p, n)
      BY <3>6, <3>7, <3>8
    <3> QED BY <3>5, <3>9
  <2> QED BY <2>1, <2>2, <2>3
<1> QED BY <1>1, Invariance, PTL

-----------------------------------------------------------------------------
(* The auditor implements the ledger                                        *)

\* The block a call is about to register overlaps no entry of the table.
LEMMA HeldApart ==
  ASSUME IInv, LockFree, NEW t \in Threads, pc[t] = "register",
         NEW b \in DOMAIN m_tracked_regions
  PROVE  LET r == m_tracked_regions[b] IN
         \/ arg[t].raw + arg[t].size + 2 * arg[t].redzone <= b - r.redzone_bytes
         \/ b - r.redzone_bytes + r.size_bytes + 2 * r.redzone_bytes <= arg[t].raw
<1>1. /\ b \in Unfreed /\ t \in Carriers
  BY DEF Unfreed, Carriers
<1>2. /\ arg[t].raw # RawAddress(b)
      /\ arg[t].raw \in DOMAIN vram
      /\ vram[arg[t].raw] = arg[t].size + 2 * arg[t].redzone
      /\ RawAddress(b) = b - m_tracked_regions[b].redzone_bytes
      /\ RawAddress(b) \in DOMAIN vram
      /\ vram[RawAddress(b)] = m_tracked_regions[b].size_bytes
                                 + 2 * m_tracked_regions[b].redzone_bytes
  BY <1>1, RawExact DEF IInv, HoldersDistinct, CarriedBacked, TrackedBacked
<1>3. ~Overlap(arg[t].raw, vram[arg[t].raw], RawAddress(b), vram[RawAddress(b)])
  BY <1>2 DEF IInv, HeapWellFormed
<1>4. /\ arg[t].raw \in Int /\ arg[t].size \in Int /\ arg[t].redzone \in Int
      /\ b \in Int /\ m_tracked_regions[b].size_bytes \in Int
      /\ m_tracked_regions[b].redzone_bytes \in Int
  BY WordAssumption DEF IInv, TypeOK, Locals, CUDAMemoryRegion, Word
<1> QED BY <1>2, <1>3, <1>4 DEF Overlap

\* audit_malloc's locked part is the ledger's Register.
LEMMA RegisterImplements ==
  ASSUME IInv, NEW t \in Threads, AuditMallocRegister(t)
  PROVE  Ledger!Next
<1>1. pc[t] = "register" /\ LockFree
  BY DEF AuditMallocRegister
<1>2. PICK raw \in 1 .. HeapTop, size \in Sizes, rz \in Redzones :
         arg[t].raw = raw /\ arg[t].size = size /\ arg[t].redzone = rz
  BY <1>1 DEF IInv, TypeOK, CarriedBacked
<1>3. /\ raw + size + 2 * rz <= HeapTop + 1
      /\ size \in Nat \ {0} /\ rz \in Nat /\ raw \in Nat /\ raw >= 1
  BY <1>1, <1>2, WordAssumption DEF IInv, CarriedBacked, HeapWellFormed
<1> DEFINE u == raw + rz
<1>4. /\ Plus(raw, rz) = u /\ u \in 1 .. (SizeMod - 1)
      /\ u - rz = raw
  BY <1>3, WordAssumption, PlusExact
<1>5. \A b \in DOMAIN m_tracked_regions :
         \/ u - rz + size + 2 * rz <= Ledger!Start(b)
         \/ Ledger!Start(b) + Ledger!Extent(b) <= u - rz
  <2> SUFFICES ASSUME NEW b \in DOMAIN m_tracked_regions
               PROVE  \/ u - rz + size + 2 * rz <= Ledger!Start(b)
                      \/ Ledger!Start(b) + Ledger!Extent(b) <= u - rz
    OBVIOUS
  <2>1. /\ b \in Int /\ m_tracked_regions[b].size_bytes \in Int
        /\ m_tracked_regions[b].redzone_bytes \in Int
    BY WordAssumption DEF IInv, TypeOK, CUDAMemoryRegion, Word
  <2> QED BY <1>1, <1>2, <1>3, <1>4, <2>1, HeldApart DEF Ledger!Start, Ledger!Extent
<1>6. Ledger!Register(u, size, rz)
  BY <1>2, <1>4, <1>5 DEF AuditMallocRegister, insert_or_assign, Plus, Ledger!Register
<1> QED BY <1>4, <1>6 DEF Ledger!Next

\* Each step of the auditor is a step of the ledger or leaves it unchanged.
LEMMA StepImplements ==
  IInv /\ [Next]_vars => [Ledger!Next]_<<m_tracked_regions, m_total_bytes>>
<1> SUFFICES ASSUME IInv, [Next]_vars,
                    ~UNCHANGED << m_tracked_regions, m_total_bytes >>
             PROVE  Ledger!Next
  OBVIOUS
<1>1. Next
  BY DEF vars
<1>2. PICK t \in Threads : Begin(t) \/ Continue(t)
  BY <1>1 DEF Next
<1>3. ASSUME NEW p \in Pointers, AuditFreeUnregister(t, p) PROVE Ledger!Next
  <2>1. p \in DOMAIN m_tracked_regions /\ Ledger!Unregister(p)
    BY <1>3 DEF AuditFreeUnregister, erase, Minus, Ledger!Unregister
  <2> QED BY <2>1 DEF Ledger!Next
<1>4. ASSUME NEW p \in Pointers, NEW n \in Accesses, NEW flag \in BOOLEAN,
             SetPoison(t, p, n, flag)
      PROVE  Ledger!Next
  <2>1. p \in DOMAIN m_tracked_regions /\ Ledger!Poison(p, flag)
    BY <1>4 DEF SetPoison, Ledger!Poison
  <2> QED BY <2>1 DEF Ledger!Next
<1>5. CASE AuditMallocRegister(t)
  BY <1>5, RegisterImplements
<1>6. CASE ResetEnd(t)
  BY <1>6 DEF ResetEnd, NoMapping, Ledger!Next, Ledger!Clear
<1>7. CASE \/ AuditMallocTrivial(t)
           \/ \E size \in Sizes : \/ \E redzone \in Redzones :
                                        AuditMallocAllocate(t, size, redzone)
                                  \/ AuditMallocRefused(t, size)
           \/ AuditFreeNull(t)
           \/ \E p \in Pointers \ {Null} : AuditFreeUntracked(t, p)
           \/ \E p \in Pointers, n \in Accesses : CheckBounds(t, p, n)
           \/ ResetBegin(t)
           \/ AuditMallocReport(t)
           \/ AuditFreeRelease(t)
           \/ \E a \in to_free : ResetFree(t, a)
  BY <1>7 DEF AuditMallocTrivial, AuditMallocAllocate, AuditMallocRefused, AuditFreeNull,
     AuditFreeUntracked, CheckBounds, ResetBegin, AuditMallocReport, AuditFreeRelease,
     ResetFree, TableUnchanged
<1> QED
  BY <1>2, <1>3, <1>4, <1>5, <1>6, <1>7 DEF Begin, Continue, PoisonRegion, UnpoisonRegion

\* Seen through its table and its byte counter, the auditor is the atomic
\* ledger, for any number of threads.
THEOREM Implementation == Spec => ImplementsLedger
<1>1. Init => Ledger!Init
  BY DEF Init, NoMapping, Ledger!Init
<1>2. IInv /\ [Next]_vars => [Ledger!Next]_<<m_tracked_regions, m_total_bytes>>
  BY StepImplements
<1> QED BY <1>1, <1>2, Invariance, PTL DEF Spec, ImplementsLedger, Ledger!Spec

-----------------------------------------------------------------------------
(* The byte counter                                                         *)

\* The payload sizes in a table, whose sum total_allocated_bytes() answers.
PayloadSizes(table) == [a \in DOMAIN table |-> table[a].size_bytes]

\* The payload sizes form a finite function: there are finitely many words.
LEMMA PayloadSizesType ==
  ASSUME NEW table, DOMAIN table \subseteq Word,
         table \in [DOMAIN table -> CUDAMemoryRegion]
  PROVE  /\ IsFiniteSet(DOMAIN table)
         /\ PayloadSizes(table) \in [DOMAIN table -> Int]
<1>1. IsFiniteSet(Word)
  <2>1. 0 \in Int /\ SizeMod - 1 \in Int
    BY WordAssumption
  <2> QED BY <2>1, FS_Interval, Zenon DEF Word
<1>2. IsFiniteSet(DOMAIN table)
  BY <1>1, FS_Subset
<1> QED BY <1>2, WordAssumption DEF PayloadSizes, CUDAMemoryRegion, Word

\* A step of the ledger moves the counter by the size of the entry it adds or
\* removes.
LEMMA LedgerKeepsTotal ==
  ASSUME IInv, TypeOK', TotalBytesExact,
         [Ledger!Next]_<<m_tracked_regions, m_total_bytes>>
  PROVE  TotalBytesExact'
<1> USE DEF TotalBytesExact
<1> DEFINE D == DOMAIN m_tracked_regions
           E == DOMAIN m_tracked_regions'
           f == PayloadSizes(m_tracked_regions)
           g == PayloadSizes(m_tracked_regions')
<1>0. TypeOK /\ SizeMod \in Nat \ {0}
  BY WordAssumption DEF IInv
<1>a. IsFiniteSet(D) /\ f \in [D -> Int]
  BY <1>0, PayloadSizesType DEF TypeOK
<1>b. IsFiniteSet(E) /\ g \in [E -> Int]
  BY PayloadSizesType DEF TypeOK
<1>c. m_total_bytes = SumFunction(f) % SizeMod
  BY DEF PayloadSizes
<1> SUFFICES m_total_bytes' = SumFunction(g) % SizeMod
  BY DEF PayloadSizes
<1>1. ASSUME NEW a \in 1 .. (SizeMod - 1), NEW s \in Sizes, NEW r \in Redzones,
             Ledger!Register(a, s, r)
      PROVE  m_total_bytes' = SumFunction(g) % SizeMod
  <2>1. s \in Nat \ {0} /\ r \in Nat
    BY WordAssumption
  <2>2. a \notin D
    <3> SUFFICES ASSUME a \in D PROVE FALSE
      OBVIOUS
    <3>1. /\ m_tracked_regions[a].size_bytes \in Nat \ {0}
          /\ m_tracked_regions[a].redzone_bytes \in Nat
      BY <1>0, WordAssumption DEF IInv, TypeOK, EntriesWellFormed, CUDAMemoryRegion, Word
    <3> QED BY <1>1, <2>1, <3>1 DEF Ledger!Register, Ledger!Start, Ledger!Extent
  <2>3. /\ E = D \cup {a} /\ g[a] = s /\ \A b \in D : g[b] = f[b]
        /\ m_total_bytes' = (m_total_bytes + s) % SizeMod
    BY <1>1, <2>2 DEF Ledger!Register, PayloadSizes
  <2> HIDE DEF f, g, D, E
  <2>4. SumFunction(g) = SumFunction(f) + s /\ SumFunction(f) \in Int
    <3>1. g \in [D \cup {a} -> Int]
      BY <1>b, <2>3
    <3>2. SumFunction(g) = SumFunction(f) + g[a] /\ SumFunction(f) \in Int
      BY <1>a, <2>2, <2>3, <3>1, SumInsert
    <3> QED BY <2>3, <3>2
  <2> QED BY <1>0, <1>c, <2>1, <2>3, <2>4, ModAdd
<1>2. ASSUME NEW a \in D, Ledger!Unregister(a)
      PROVE  m_total_bytes' = SumFunction(g) % SizeMod
  <2>1. /\ D = E \cup {a} /\ a \notin E /\ \A b \in E : f[b] = g[b]
        /\ m_total_bytes' = (m_total_bytes - f[a]) % SizeMod
    <3>1. E = D \ {a}
      BY <1>2 DEF Ledger!Unregister
    <3>2. \A b \in E : f[b] = g[b]
      BY <1>2 DEF Ledger!Unregister, PayloadSizes
    <3>3. m_total_bytes' = (m_total_bytes - f[a]) % SizeMod
      BY <1>2 DEF Ledger!Unregister, PayloadSizes
    <3> QED BY <1>2, <3>1, <3>2, <3>3
  <2>2. f[a] \in Int /\ -f[a] \in Int
    BY <1>a, <1>2
  <2> HIDE DEF f, g, D, E
  <2>3. SumFunction(f) = SumFunction(g) + f[a] /\ SumFunction(g) \in Int
    <3>1. f \in [E \cup {a} -> Int]
      BY <1>a, <2>1
    <3> QED BY <1>b, <2>1, <3>1, SumInsert
  <2> DEFINE n == -f[a]
             S == SumFunction(f)
  <2>4. S \in Int /\ n \in Int /\ S + n = SumFunction(g)
    BY <2>2, <2>3
  <2>5. m_total_bytes' = (m_total_bytes + n) % SizeMod
    <3>1. m_total_bytes \in Int
      BY <1>0, WordAssumption DEF TypeOK, Word
    <3> QED BY <2>1, <2>2, <3>1
  <2> HIDE DEF n
  <2> QED BY <1>0, <1>c, <2>4, <2>5, ModAdd
<1>3. ASSUME NEW a \in D, NEW flag \in BOOLEAN, Ledger!Poison(a, flag)
      PROVE  m_total_bytes' = SumFunction(g) % SizeMod
  <2>1. g = f /\ m_total_bytes' = m_total_bytes
    BY <1>0, <1>3 DEF Ledger!Poison, PayloadSizes, TypeOK, CUDAMemoryRegion
  <2> QED BY <1>c, <2>1
<1>4. CASE Ledger!Clear
  <2>1. E = {} /\ m_total_bytes' = 0
    BY <1>4 DEF Ledger!Clear
  <2>2. SumFunction(g) = 0
    BY <1>b, <2>1, SumEmpty
  <2> QED BY <1>0, <2>1, <2>2
<1>5. CASE UNCHANGED << m_tracked_regions, m_total_bytes >>
  <2>1. g = f /\ m_total_bytes' = m_total_bytes
    BY <1>5 DEF PayloadSizes
  <2> QED BY <1>c, <2>1
<1> QED BY <1>1, <1>2, <1>3, <1>4, <1>5 DEF Ledger!Next

\* total_allocated_bytes() is the sum of the sizes in the table, modulo the
\* word, although audit_malloc, audit_free and reset move it separately.
THEOREM TotalBytes == Spec => []TotalBytesExact
<1>1. Init => TotalBytesExact
  <2> SUFFICES ASSUME Init PROVE TotalBytesExact
    OBVIOUS
  <2>1. SumFunction(PayloadSizes(m_tracked_regions)) = 0
    BY SumEmpty DEF Init, NoMapping, PayloadSizes
  <2> QED BY <2>1, WordAssumption DEF Init, TotalBytesExact, PayloadSizes
<1>2. IInv /\ IInv' /\ TotalBytesExact /\ [Next]_vars => TotalBytesExact'
  BY StepImplements, LedgerKeepsTotal DEF IInv
<1> QED BY <1>1, <1>2, Invariance, PTL DEF Spec

-----------------------------------------------------------------------------
(* Holders                                                                  *)

\* Every live block of the driver has exactly one holder: an entry, a call in
\* flight, or the list of blocks whose cudaFree failed.  Nothing leaks
\* otherwise, and no block is released twice.
THEOREM ExactlyOneHolder == Spec => []OneHolder
<1>1. IInv => OneHolder
  <2> SUFFICES ASSUME IInv, NEW raw \in DOMAIN vram
               PROVE  Cardinality({a \in Unfreed : RawAddress(a) = raw})
                        + Cardinality({t \in Carriers : arg[t].raw = raw})
                        + (IF raw \in lost THEN 1 ELSE 0) = 1
    BY DEF OneHolder
  <2> DEFINE E == {a \in Unfreed : RawAddress(a) = raw}
             C == {t \in Carriers : arg[t].raw = raw}
  <2>1. \A x : Cardinality({x}) = 1
    BY FS_Singleton
  <2>2. Cardinality({}) = 0
    BY FS_EmptySet
  <2>3. Unfreed \subseteq DOMAIN m_tracked_regions
    BY DEF Unfreed, IInv, TypeOK
  <2>4. \A a, b \in E : a = b
    BY <2>3, RawDistinct
  <2>5. \A s, t \in C : s = t
    BY DEF IInv, HoldersDistinct
  <2>6. \/ E # {} /\ C = {} /\ raw \notin lost
        \/ E = {} /\ C # {} /\ raw \notin lost
        \/ E = {} /\ C = {} /\ raw \in lost
    BY DEF IInv, HoldersDistinct, HoldersComplete
  <2> HIDE DEF E, C
  <2>7. E # {} => Cardinality(E) = 1
    <3> SUFFICES ASSUME NEW a \in E PROVE Cardinality(E) = 1
      OBVIOUS
    <3>1. E = {a}
      BY <2>4
    <3> QED BY <2>1, <3>1
  <2>8. C # {} => Cardinality(C) = 1
    <3> SUFFICES ASSUME NEW t \in C PROVE Cardinality(C) = 1
      OBVIOUS
    <3>1. C = {t}
      BY <2>5
    <3> QED BY <2>1, <3>1
  <2>9. Cardinality(E) + Cardinality(C) + (IF raw \in lost THEN 1 ELSE 0) = 1
    BY <2>2, <2>6, <2>7, <2>8
  <2> QED BY <2>9 DEF E, C
<1> QED BY <1>1, Invariance, PTL

=============================================================================
