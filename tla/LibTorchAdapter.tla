-------------------------- MODULE LibTorchAdapter ---------------------------
(***************************************************************************)
(* The allocator hook for LibTorch tensors: m_tensors maps a tensor id to  *)
(* its device pointer and its bytes.  The object belongs to one thread;    *)
(* reset(), which the destructor calls too, frees tensor after tensor      *)
(* while other threads use the auditor.                                    *)
(***************************************************************************)
EXTENDS AuditedVRAM

CONSTANTS
  TensorIds,
  Shapes,        \* sequences of dimensions, any sign
  ElementSizes,  \* element_size passed to allocate_tensor
  Offsets,       \* offset_bytes passed to validate_view_access
  Lengths        \* access_bytes passed to validate_view_access

ASSUME TorchAssumption ==
  /\ Shapes \subseteq Seq(Int)
  /\ ElementSizes \subseteq Word
  /\ Offsets \subseteq Word
  /\ Lengths \subseteq Word

VARIABLES
  m_tensors,     \* tensor id -> [device_ptr, allocated_bytes]
  torchReset,    \* reset() is running
  tensorsToFree  \* the ids it still has to pass to audit_free

torchVars == << m_tensors, torchReset, tensorsToFree >>

Overflow == -1   \* ErrIntegerOverflow

\* The product of the positive dimensions, checked before each factor.
MulDim(n, dim) ==
  IF n = Overflow \/ dim <= 0 THEN n
  ELSE IF n > (SizeMod - 1) \div dim THEN Overflow ELSE n * dim
total_elements(shape) == FoldLeft(MulDim, 1, shape)

total_bytes(shape, element_size) ==
  LET n == total_elements(shape) IN
  IF n = Overflow \/ element_size = 0 THEN Overflow
  ELSE IF n > (SizeMod - 1) \div element_size THEN Overflow ELSE n * element_size

\* A request refused before or by the auditor changes nothing: a stuttering step.

AllocateTensor(id, shape, element_size) ==
  /\ ~torchReset
  /\ element_size # 0
  /\ id \notin DOMAIN m_tensors
  /\ LET bytes == total_bytes(shape, element_size) IN
     /\ bytes # Overflow
     /\ \E dev_ptr \in Bases \cup {Null} :
          /\ audit_malloc(dev_ptr, bytes)
          /\ m_tensors' = With(m_tensors, id, [device_ptr |-> dev_ptr,
                                               allocated_bytes |-> bytes])
  /\ UNCHANGED << torchReset, tensorsToFree >>

\* A check that leaves the tensor's own bounds to the auditor.
validate_view_unbounded(id, offset_bytes, access_bytes) ==
  /\ id \in DOMAIN m_tensors
  /\ check_bounds(Wrap(m_tensors[id].device_ptr + offset_bytes), access_bytes)

validate_view_access(id, offset_bytes, access_bytes) ==
  /\ id \in DOMAIN m_tensors
  /\ Wrap(offset_bytes + access_bytes) <= m_tensors[id].allocated_bytes
  /\ check_bounds(Wrap(m_tensors[id].device_ptr + offset_bytes), access_bytes)

\* A free that forgets to erase the record.
FreeTensorKeepsRecord(id) ==
  /\ ~torchReset
  /\ id \in DOMAIN m_tensors
  /\ audit_free(m_tensors[id].device_ptr)
  /\ UNCHANGED torchVars

\* The record goes whatever audit_free answers.
FreeTensor(id) ==
  /\ ~torchReset
  /\ id \in DOMAIN m_tensors
  /\ audit_free(m_tensors[id].device_ptr)
  /\ m_tensors' = Without(m_tensors, id)
  /\ UNCHANGED << torchReset, tensorsToFree >>

TorchResetBegin ==
  /\ ~torchReset
  /\ torchReset' = TRUE /\ tensorsToFree' = DOMAIN m_tensors
  /\ UNCHANGED << vram, m_tensors >>

TorchResetFree(id) ==
  /\ torchReset /\ id \in tensorsToFree
  /\ audit_free(m_tensors[id].device_ptr)
  /\ tensorsToFree' = tensorsToFree \ {id}
  /\ UNCHANGED << m_tensors, torchReset >>

\* A reset that clears the map while tensors are still to be freed.
TorchResetEndsEarly ==
  /\ torchReset
  /\ m_tensors' = Empty
  /\ torchReset' = FALSE
  /\ UNCHANGED << vram, tensorsToFree >>

TorchResetEnd ==
  /\ torchReset /\ tensorsToFree = {}
  /\ m_tensors' = Empty
  /\ torchReset' = FALSE
  /\ UNCHANGED << vram, tensorsToFree >>

TorchInit == m_tensors = Empty /\ torchReset = FALSE /\ tensorsToFree = {}

TorchNext ==
  \/ \E id \in TensorIds, shape \in Shapes, element_size \in ElementSizes :
       AllocateTensor(id, shape, element_size)
  \/ \E id \in TensorIds : FreeTensor(id)
  \/ TorchResetBegin
  \/ \E id \in TensorIds : TorchResetFree(id)
  \/ TorchResetEnd

=============================================================================
