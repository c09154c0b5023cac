---------------------------- MODULE CUDASanitizer ----------------------------
(***************************************************************************)
(* The VRAM auditor of sentinel-rt, sentinel::sanitizers::CUDASanitizer:   *)
(* one singleton, called by every thread of the audited runtime.  Its      *)
(* table and counters are guarded by m_mutex, but audit_malloc calls       *)
(* cudaMalloc before it takes the lock and audit_free calls cudaFree after *)
(* it has released it, so the table and the driver's heap change at        *)
(* different moments; reset() calls cudaFree once per region with the lock *)
(* held.                                                                   *)
(*                                                                         *)
(* A lock_guard scope that does not call the driver is one action, taken   *)
(* when m_mutex is free.  Labels and messages are left out; addresses and  *)
(* sizes are unsigned words, so every sum of the code is taken modulo      *)
(* SizeMod.                                                                *)
(***************************************************************************)
EXTENDS Integers, FiniteSets, Functions

CONSTANTS
  Threads,   \* threads calling the singleton
  NoThread,  \* value of m_mutex while nobody holds it
  HeapTop,   \* the driver serves blocks inside 1 .. HeapTop
  Sizes,     \* non-zero payload sizes passed to audit_malloc
  Redzones,  \* redzone_bytes passed to audit_malloc
  Pointers,  \* device pointers passed by the callers, valid or not
  Accesses,  \* byte counts passed to check_bounds, poison and unpoison
  SizeMod    \* number of values of size_t and uintptr_t

ASSUME ThreadAssumption == NoThread \notin Threads

ASSUME WordAssumption ==
  /\ SizeMod \in Nat \ {0}
  /\ HeapTop \in Nat \ {0}
  /\ HeapTop < SizeMod
  /\ Sizes \subseteq 1 .. (SizeMod - 1)
  /\ Redzones \subseteq 0 .. (SizeMod - 1)
  /\ Pointers \subseteq 0 .. (SizeMod - 1)
  /\ Accesses \subseteq 0 .. (SizeMod - 1)

\* cudaMalloc(0) is not modelled: no request sums to zero bytes.
ASSUME RequestAssumption ==
  \A s \in Sizes, r \in Redzones : (s + 2 * r) % SizeMod # 0

VARIABLES
  m_mutex,            \* the thread inside reset(), or NoThread
  m_tracked_regions,  \* usable address -> region
  m_total_bytes,
  m_last_violation,
  vram,               \* the driver's live blocks: raw address -> bytes
  lost,               \* live blocks whose cudaFree failed (history)
  pc, arg,            \* per thread: where its call is, and its locals
  to_free             \* regions reset() has not passed to cudaFree yet

vars == << m_mutex, m_tracked_regions, m_total_bytes, m_last_violation,
           vram, lost, pc, arg, to_free >>

Word == 0 .. (SizeMod - 1)
Null == 0
Plus(x, y)  == (x + y) % SizeMod
Minus(x, y) == (x - y) % SizeMod

Status == {"Success", "ErrCUDAAllocation", "ErrCUDABoundaryViolation"}
CUDAMemoryRegion ==
  [size_bytes : Word, redzone_bytes : Word, is_poisoned : BOOLEAN]
CUDAViolationReport ==
  [faulting_address : Word, requested_access_bytes : Word, violation_type : Status]
NoViolation ==
  [faulting_address |-> 0, requested_access_bytes |-> 0, violation_type |-> "Success"]

Steps  == {"idle", "register", "report", "cudaFree", "reset"}
Locals == [raw : Word, size : Word, redzone : Word]
NoLocals == [raw |-> 0, size |-> 0, redzone |-> 0]

NoMapping == [a \in {} |-> 0]
insert_or_assign(f, k, v) ==
  [a \in DOMAIN f \cup {k} |-> IF a = k THEN v ELSE f[a]]
erase(f, k) == [a \in DOMAIN f \ {k} |-> f[a]]

\* The raw address of a tracked region, as audit_free and reset compute it.
RawAddressNoRedzone(a) == a
RawAddress(a) == Minus(a, m_tracked_regions[a].redzone_bytes)

-----------------------------------------------------------------------------
(* The CUDA driver: a block is placed anywhere in the heap off the live     *)
(* ones; either call may fail and then changes nothing.                     *)

Overlap(a, m, b, n) == a < b + n /\ b < a + m

cudaMalloc(raw, n) ==
  /\ raw + n <= HeapTop + 1
  /\ \A b \in DOMAIN vram : ~Overlap(raw, n, b, vram[b])
  /\ vram' = insert_or_assign(vram, raw, n)

cudaFree(raw) == raw \in DOMAIN vram /\ vram' = erase(vram, raw)

-----------------------------------------------------------------------------
Idle(t)   == pc[t] = "idle"
LockFree  == m_mutex = NoThread
Enter(t, step, locals) ==
  /\ pc' = [pc EXCEPT ![t] = step]
  /\ arg' = [arg EXCEPT ![t] = locals]
Return(t) == Enter(t, "idle", NoLocals)
TableUnchanged ==
  UNCHANGED << m_mutex, m_tracked_regions, m_total_bytes, to_free >>
DriverUnchanged == UNCHANGED << vram, lost >>

(* audit_malloc *)

\* No out-pointer, or a zero size (nullptr is handed out).
AuditMallocTrivial(t) ==
  /\ Idle(t)
  /\ Return(t)
  /\ TableUnchanged /\ DriverUnchanged /\ UNCHANGED m_last_violation

\* The unlocked part: cudaMalloc of the payload and both redzones.
AuditMallocOneRedzone(t, size, redzone) ==
  /\ Idle(t)
  /\ \E raw \in 1 .. HeapTop :
       /\ cudaMalloc(raw, Plus(size, redzone))
       /\ Enter(t, "register", [raw |-> raw, size |-> size, redzone |-> redzone])
  /\ TableUnchanged /\ UNCHANGED << lost, m_last_violation >>

AuditMallocAllocate(t, size, redzone) ==
  /\ Idle(t)
  /\ \E raw \in 1 .. HeapTop :
       /\ cudaMalloc(raw, Plus(size, 2 * redzone))
       /\ Enter(t, "register", [raw |-> raw, size |-> size, redzone |-> redzone])
  /\ TableUnchanged /\ UNCHANGED << lost, m_last_violation >>

AuditMallocRefused(t, size) ==
  /\ Idle(t)
  /\ Enter(t, "report", [NoLocals EXCEPT !.size = size])
  /\ TableUnchanged /\ DriverUnchanged /\ UNCHANGED m_last_violation

\* A report that does not return: it is written again and again.
AuditMallocReportRetry(t) ==
  /\ pc[t] = "report"
  /\ LockFree
  /\ m_last_violation' = [faulting_address |-> 0,
                          requested_access_bytes |-> arg[t].size,
                          violation_type |-> "ErrCUDAAllocation"]
  /\ TableUnchanged /\ DriverUnchanged /\ UNCHANGED << pc, arg >>

AuditMallocReport(t) ==
  /\ pc[t] = "report"
  /\ LockFree
  /\ m_last_violation' = [faulting_address |-> 0,
                          requested_access_bytes |-> arg[t].size,
                          violation_type |-> "ErrCUDAAllocation"]
  /\ Return(t)
  /\ TableUnchanged /\ DriverUnchanged

AuditMallocRegister(t) ==
  /\ pc[t] = "register"
  /\ LockFree
  /\ m_tracked_regions' =
       insert_or_assign(m_tracked_regions, Plus(arg[t].raw, arg[t].redzone),
                        [size_bytes |-> arg[t].size,
                         redzone_bytes |-> arg[t].redzone,
                         is_poisoned |-> FALSE])
  /\ m_total_bytes' = Plus(m_total_bytes, arg[t].size)
  /\ Return(t)
  /\ DriverUnchanged /\ UNCHANGED << m_mutex, m_last_violation, to_free >>

(* audit_free *)

AuditFreeNull(t) ==
  /\ Idle(t)
  /\ Return(t)
  /\ TableUnchanged /\ DriverUnchanged /\ UNCHANGED m_last_violation

AuditFreeUntracked(t, p) ==
  /\ Idle(t)
  /\ LockFree
  /\ p \notin DOMAIN m_tracked_regions
  /\ m_last_violation' = [faulting_address |-> p,
                          requested_access_bytes |-> 0,
                          violation_type |-> "ErrCUDABoundaryViolation"]
  /\ Return(t)
  /\ TableUnchanged /\ DriverUnchanged

\* A free that keeps the entry until the driver has released the block.
AuditFreeLateErase(t, p) ==
  /\ Idle(t)
  /\ LockFree
  /\ p \in DOMAIN m_tracked_regions
  /\ Enter(t, "cudaFree", [NoLocals EXCEPT !.raw = RawAddress(p)])
  /\ TableUnchanged /\ DriverUnchanged /\ UNCHANGED m_last_violation

\* The locked part: forget the region; its block is freed after the unlock.
AuditFreeUnregister(t, p) ==
  /\ Idle(t)
  /\ LockFree
  /\ p \in DOMAIN m_tracked_regions
  /\ Enter(t, "cudaFree", [NoLocals EXCEPT !.raw = RawAddress(p)])
  /\ m_total_bytes' = Minus(m_total_bytes, m_tracked_regions[p].size_bytes)
  /\ m_tracked_regions' = erase(m_tracked_regions, p)
  /\ DriverUnchanged
  /\ UNCHANGED << m_mutex, m_last_violation, to_free >>

AuditFreeRelease(t) ==
  /\ pc[t] = "cudaFree"
  /\ \/ /\ cudaFree(arg[t].raw)
        /\ Return(t)
        /\ UNCHANGED lost
     \/ /\ Return(t)
        /\ lost' = lost \cup ({arg[t].raw} \cap DOMAIN vram)
        /\ UNCHANGED vram
  /\ TableUnchanged /\ UNCHANGED m_last_violation

(* check_bounds: the loop runs over the table in hash order, so every       *)
(* region whose payload holds the address may be the one that decides.      *)

Hits(p) == {a \in DOMAIN m_tracked_regions :
              p >= a /\ p < Plus(a, m_tracked_regions[a].size_bytes)}

Decides(a, p, n) ==
  /\ Plus(p, n) <= Plus(a, m_tracked_regions[a].size_bytes)
  /\ ~m_tracked_regions[a].is_poisoned

\* A check that looks at the poison flag but not at the end of the access.
BoundsVerdictsStartOnly(p, n) ==
  IF p = Null \/ n = 0 \/ Hits(p) = {} THEN {FALSE}
  ELSE {~m_tracked_regions[a].is_poisoned : a \in Hits(p)}

BoundsVerdicts(p, n) ==
  IF p = Null \/ n = 0 \/ Hits(p) = {} THEN {FALSE}
  ELSE {Decides(a, p, n) : a \in Hits(p)}

CheckBounds(t, p, n) ==
  /\ Idle(t)
  /\ p = Null \/ n = 0 \/ LockFree
  /\ Return(t)
  /\ TableUnchanged /\ DriverUnchanged /\ UNCHANGED m_last_violation

(* poison_region and unpoison_region: the size is only compared with zero.  *)

SetPoison(t, p, n, flag) ==
  /\ Idle(t)
  /\ \/ /\ p = Null \/ n = 0
        /\ Return(t)
        /\ UNCHANGED m_tracked_regions
     \/ /\ p # Null /\ n # 0 /\ LockFree
        /\ p \in DOMAIN m_tracked_regions
        /\ m_tracked_regions' = [m_tracked_regions EXCEPT ![p].is_poisoned = flag]
        /\ Return(t)
     \/ /\ p # Null /\ n # 0 /\ LockFree
        /\ p \notin DOMAIN m_tracked_regions
        /\ Return(t)
        /\ UNCHANGED m_tracked_regions
  /\ DriverUnchanged
  /\ UNCHANGED << m_mutex, m_total_bytes, m_last_violation, to_free >>

PoisonRegion(t, p, n)   == SetPoison(t, p, n, TRUE)
UnpoisonRegion(t, p, n) == SetPoison(t, p, n, FALSE)

(* reset: one cudaFree per region with the lock held, its result ignored.   *)

ResetBegin(t) ==
  /\ Idle(t)
  /\ LockFree
  /\ m_mutex' = t
  /\ to_free' = DOMAIN m_tracked_regions
  /\ Enter(t, "reset", NoLocals)
  /\ DriverUnchanged
  /\ UNCHANGED << m_tracked_regions, m_total_bytes, m_last_violation >>

ResetFree(t, a) ==
  /\ pc[t] = "reset"
  /\ a \in to_free
  /\ to_free' = to_free \ {a}
  /\ \/ cudaFree(RawAddress(a)) /\ UNCHANGED lost
     \/ lost' = lost \cup ({RawAddress(a)} \cap DOMAIN vram) /\ UNCHANGED vram
  /\ UNCHANGED << m_mutex, m_tracked_regions, m_total_bytes, m_last_violation,
                  pc, arg >>

\* A reset that leaves the byte counter alone.
ResetEndKeepsTotal(t) ==
  /\ pc[t] = "reset"
  /\ to_free = {}
  /\ m_tracked_regions' = NoMapping
  /\ m_last_violation' = NoViolation
  /\ m_mutex' = NoThread
  /\ Enter(t, "idle", NoLocals)
  /\ DriverUnchanged /\ UNCHANGED << m_total_bytes, to_free >>

\* A reset that returns without unlocking.
ResetEndNoUnlock(t) ==
  /\ pc[t] = "reset"
  /\ to_free = {}
  /\ m_tracked_regions' = NoMapping
  /\ m_last_violation' = NoViolation
  /\ m_total_bytes' = 0
  /\ Enter(t, "idle", NoLocals)
  /\ DriverUnchanged /\ UNCHANGED << m_mutex, to_free >>

ResetEnd(t) ==
  /\ pc[t] = "reset"
  /\ to_free = {}
  /\ m_tracked_regions' = NoMapping
  /\ m_last_violation' = NoViolation
  /\ m_total_bytes' = 0
  /\ m_mutex' = NoThread
  /\ Enter(t, "idle", NoLocals)
  /\ DriverUnchanged /\ UNCHANGED to_free

-----------------------------------------------------------------------------
Init ==
  /\ m_mutex = NoThread
  /\ m_tracked_regions = NoMapping
  /\ m_total_bytes = 0
  /\ m_last_violation = NoViolation
  /\ vram = NoMapping
  /\ lost = {}
  /\ pc = [t \in Threads |-> "idle"]
  /\ arg = [t \in Threads |-> NoLocals]
  /\ to_free = {}

Begin(t) ==
  \/ AuditMallocTrivial(t)
  \/ \E size \in Sizes :
       \/ \E redzone \in Redzones : AuditMallocAllocate(t, size, redzone)
       \/ AuditMallocRefused(t, size)
  \/ AuditFreeNull(t)
  \/ \E p \in Pointers \ {Null} : AuditFreeUntracked(t, p) \/ AuditFreeUnregister(t, p)
  \/ \E p \in Pointers, n \in Accesses :
       CheckBounds(t, p, n) \/ PoisonRegion(t, p, n) \/ UnpoisonRegion(t, p, n)
  \/ ResetBegin(t)

\* The rest of a call already begun.
Continue(t) ==
  \/ AuditMallocReport(t)
  \/ AuditMallocRegister(t)
  \/ AuditFreeRelease(t)
  \/ \E a \in to_free : ResetFree(t, a)
  \/ ResetEnd(t)

Next == \E t \in Threads : Begin(t) \/ Continue(t)

Spec == Init /\ [][Next]_vars

\* A thread inside a call is scheduled again; nobody has to begin one.
FairSpec == Spec /\ \A t \in Threads : WF_vars(Continue(t))

-----------------------------------------------------------------------------
(* Properties                                                               *)

\* Every variable has its type; to_free is only used inside reset().
TypeOK ==
  /\ m_mutex \in Threads \cup {NoThread}
  /\ DOMAIN m_tracked_regions \subseteq Word
  /\ m_tracked_regions \in [DOMAIN m_tracked_regions -> CUDAMemoryRegion]
  /\ m_total_bytes \in Word
  /\ m_last_violation \in CUDAViolationReport
  /\ DOMAIN vram \subseteq 1 .. HeapTop
  /\ vram \in [DOMAIN vram -> Word \ {0}]
  /\ lost \subseteq DOMAIN vram
  /\ pc \in [Threads -> Steps]
  /\ arg \in [Threads -> Locals]
  /\ to_free \subseteq DOMAIN m_tracked_regions

\* The regions reset() has not passed to cudaFree yet; outside reset, all.
Unfreed == IF LockFree THEN DOMAIN m_tracked_regions ELSE to_free

\* The threads whose call owns a block that the table does not show.
Carriers == {t \in Threads : pc[t] \in {"register", "cudaFree"}}

\* A region of the table is a live driver block of exactly the payload and
\* its two redzones: no interleaving of audit_malloc, audit_free and reset
\* leaves an entry over memory the driver has taken back or given away.
TrackedBacked ==
  \A a \in Unfreed :
    /\ RawAddress(a) \in DOMAIN vram
    /\ vram[RawAddress(a)] =
         m_tracked_regions[a].size_bytes + 2 * m_tracked_regions[a].redzone_bytes

\* Every block of the driver has exactly one holder: an entry of the table,
\* a call between its driver step and its locked step, or the list of blocks
\* whose cudaFree failed.  So nothing leaks except by a failed cudaFree, and
\* no two calls (two frees, a free and a reset) release the same block.
OneHolder ==
  \A raw \in DOMAIN vram :
    Cardinality({a \in Unfreed : RawAddress(a) = raw})
      + Cardinality({t \in Carriers : arg[t].raw = raw})
      + (IF raw \in lost THEN 1 ELSE 0) = 1

\* audit_free and reset hand the driver only blocks that are still live: a
\* double free by the client never becomes a double cudaFree.
CudaFreeOfLive ==
  /\ \A t \in Threads : pc[t] = "cudaFree" => arg[t].raw \in DOMAIN vram
  /\ \A a \in to_free : RawAddress(a) \in DOMAIN vram

\* Two entries of the table never overlap, redzones included: the region
\* check_bounds finds does not depend on the hash order of the table.
RegionsDisjoint ==
  \A a, b \in DOMAIN m_tracked_regions :
    LET extent(x) == m_tracked_regions[x].size_bytes
                       + 2 * m_tracked_regions[x].redzone_bytes
    IN  a # b => ~Overlap(RawAddress(a), extent(a), RawAddress(b), extent(b))

\* total_allocated_bytes() is the sum of the payload sizes in the table.
TotalBytesExact ==
  m_total_bytes =
    SumFunction([a \in DOMAIN m_tracked_regions |->
                   m_tracked_regions[a].size_bytes]) % SizeMod

\* What check_bounds promises: the bytes p .. p + n - 1 lie in the payload of
\* one tracked, unpoisoned region, between the redzones of a live block.
Accessible(p, n) ==
  /\ n > 0
  /\ \E a \in DOMAIN m_tracked_regions :
       LET r == m_tracked_regions[a] IN
       /\ ~r.is_poisoned
       /\ a <= p /\ p + n <= a + r.size_bytes
       /\ RawAddress(a) \in DOMAIN vram
       /\ RawAddress(a) + r.redzone_bytes <= p
       /\ p + n + r.redzone_bytes <= RawAddress(a) + vram[RawAddress(a)]

\* check_bounds answers true only for an accessible range.
CheckBoundsSound ==
  LockFree => \A p \in Pointers, n \in Accesses :
                TRUE \in BoundsVerdicts(p, n) => Accessible(p, n)

\* check_bounds has one possible answer, true for exactly the accessible ranges.
CheckBoundsExact ==
  LockFree => \A p \in Pointers, n \in Accesses :
                BoundsVerdicts(p, n) = {Accessible(p, n)}

\* reset() gives the lock back: its loop ends although other threads go on
\* allocating, because none of them can add to the table it walks.
LockReleased == \A t \in Threads : m_mutex = t ~> m_mutex # t

\* A call that has begun returns, unless reset() is called again and again:
\* m_mutex is not fair, and only reset holds it for more than one step.
CallsReturn ==
  \A t \in Threads : <>[]LockFree => (~Idle(t) ~> Idle(t))

=============================================================================
