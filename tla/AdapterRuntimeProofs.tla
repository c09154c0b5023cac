------------------------ MODULE AdapterRuntimeProofs ------------------------
(***************************************************************************)
(* RuntimeInv is an invariant of the adapters on one auditor, for any      *)
(* number of objects and any requests; the soundness of the access checks  *)
(* follows from it for calls whose sums fit a word.                        *)
(***************************************************************************)
EXTENDS AdapterRuntimeInv, FoldLemmas

-----------------------------------------------------------------------------
(* Words and sizes                                                          *)

\* What the assumption on the address space says of words.
LEMMA WordFacts ==
  /\ SizeMod \in Nat /\ HeapTop \in Nat /\ Redzone \in Nat
  /\ HeapTop + 1 + 2 * Redzone < SizeMod
  /\ Bases \subseteq Nat /\ Null \notin Bases
  /\ 0 \in Word /\ 1 \in Word
  /\ \A x \in Word : x \in Nat /\ x < SizeMod
BY VRAMAssumption DEF Word, Null

\* C++ unsigned arithmetic: Wrap always answers a word, a word unchanged.
LEMMA WrapFacts ==
  ASSUME NEW x \in Int
  PROVE  /\ Wrap(x) \in Word
         /\ x \in Word => Wrap(x) = x
         /\ x \in SizeMod .. (2 * SizeMod - 1) => Wrap(x) = x - SizeMod
BY WordFacts DEF Wrap, Word

\* The guard of total_elements keeps each product in a word.
LEMMA MulDimType ==
  ASSUME NEW n \in Word \cup {Overflow}, NEW dim \in Int
  PROVE  MulDim(n, dim) \in Word \cup {Overflow}
<1>1. CASE n \in Word /\ dim > 0
  <2>1. n <= (SizeMod - 1) \div dim => n * dim <= SizeMod - 1
    BY <1>1, WordFacts, DivBound
  <2> QED BY <1>1, <2>1, WordFacts DEF Word, MulDim, Overflow
<1> QED BY <1>1 DEF MulDim, Overflow, Word

\* total_elements answers a word or ErrIntegerOverflow, for any shape.
LEMMA TotalElementsType ==
  ASSUME NEW shape \in Seq(Int)
  PROVE  total_elements(shape) \in Word \cup {Overflow}
<1> DEFINE D == DOMAIN shape
           V == Word \cup {Overflow}
           Step(f, s) == IF s = {} THEN 1 ELSE MulDim(f[s \ {Max(s)}], shape[Max(s)])
           c == [s \in SUBSET D |-> Max(s)]
           g == [x \in D |-> [v \in V |-> MulDim(v, shape[x])]]
           iter == CHOOSE f : f = [s \in SUBSET D |-> Step(f, s)]
<1>1. total_elements(shape) = iter[D]
  BY Zenon DEF total_elements, FoldLeft, MapThenFoldSet
<1>2. IsFiniteSet(D) /\ D \in SUBSET Int
  <2>1. Len(shape) \in Nat /\ D = 1 .. Len(shape)
    OBVIOUS
  <2> QED BY <2>1, FS_Interval
<1>3. Chooses(c, D)
  BY <1>2, MaxMin DEF Chooses
<1>0. \A x \in D : shape[x] \in Int
  OBVIOUS
<1>4. g \in [D -> [V -> V]]
  <2>1. \A x \in D, v \in V : MulDim(v, shape[x]) \in V
    BY <1>0, MulDimType
  <2> QED BY <2>1
<1>5. 1 \in V
  BY WordFacts
<1>6. \E f : f = [s \in SUBSET D |-> Step(f, s)]
  <2> HIDE DEF V, c, g, D
  <2>1. PICK f \in [SUBSET D -> V] : IsFold(f, D, 1, g, c)
    <3> HIDE DEF Step, iter
    <3> QED BY <1>2, <1>3, <1>4, <1>5, FoldExists
  <2>2. ASSUME NEW s \in SUBSET D, s # {}
        PROVE  g[c[s]][f[s \ {c[s]}]] = MulDim(f[s \ {Max(s)}], shape[Max(s)])
    <3>1. c[s] = Max(s) /\ c[s] \in D
      BY <1>3, <2>2 DEF c, Chooses
    <3>2. f[s \ {Max(s)}] \in V
      OBVIOUS
    <3> QED BY <3>1, <3>2 DEF g
  <2>3. f = [s \in SUBSET D |-> Step(f, s)]
    BY <2>1, <2>2 DEF IsFold
  <2> QED BY <2>3
<1>7. iter = [s \in SUBSET D |-> Step(iter, s)]
  BY <1>6
<1>8. \A s \in SUBSET D : iter[s] \in V
  <2> HIDE DEF iter, V, D
  <2> DEFINE Good == {s \in SUBSET D : iter[s] \in V}
  <2>1. {} \in Good
    BY <1>5, <1>7
  <2>2. ASSUME NEW s \in SUBSET D, s # {}, s \ {c[s]} \in Good
        PROVE  s \in Good
    <3>1. c[s] = Max(s) /\ Max(s) \in D /\ shape[Max(s)] \in Int
      <4>1. c[s] = Max(s)
        OBVIOUS
      <4>2. c[s] \in D
        BY <1>3, <2>2 DEF Chooses
      <4> QED BY <4>1, <4>2, <1>0
    <3>2. iter[s] = MulDim(iter[s \ {Max(s)}], shape[Max(s)])
      BY <1>7, <2>2
    <3>3. iter[s \ {Max(s)}] \in V
      BY <2>2, <3>1
    <3> QED BY <3>1, <3>2, <3>3, MulDimType DEF V
  <2> HIDE DEF c, Good
  <2>3. \A s \in SUBSET D : s \in Good
    BY <1>2, <1>3, <2>1, <2>2, SetInduction
  <2> QED BY <2>3 DEF Good
<1> QED BY <1>1, <1>8

\* So does total_bytes.
LEMMA TotalBytesType ==
  ASSUME NEW shape \in Seq(Int), NEW size \in Word
  PROVE  total_bytes(shape, size) \in Word \cup {Overflow}
<1> DEFINE n == total_elements(shape)
<1>1. n \in Word \cup {Overflow}
  BY TotalElementsType
<1> HIDE DEF n
<1>2. CASE n \in Word /\ size # 0
  <2>1. n <= (SizeMod - 1) \div size => n * size <= SizeMod - 1
    BY <1>2, WordFacts, DivBound
  <2> QED BY <1>2, <2>1, WordFacts DEF total_bytes, n, Word, Overflow
<1> QED BY <1>1, <1>2 DEF total_bytes, n

\* required_bytes of init_context answers a word or an overflow.
LEMMA RequiredBytesType ==
  ASSUME NEW n \in Word, NEW e \in Word
  PROVE  required_bytes(n, e) \in Word \cup {-1}
<1> DEFINE total_el == Wrap(n * e * 2)
<1>1. total_el \in Word
  <2>1. n * e * 2 \in Int
    BY WordFacts
  <2> QED BY <2>1, WrapFacts
<1> HIDE DEF total_el
<1>2. total_el <= (SizeMod - 1) \div 2 => total_el * 2 \in Word
  BY <1>1, WordFacts DEF Word
<1> QED BY <1>1, <1>2, WordFacts DEF required_bytes, total_el

\* kv_block_bytes and bytes_per_token answer words.
LEMMA BlockBytesType ==
  ASSUME NEW s \in Word, NEW h \in Word, NEW d \in Word
  PROVE  /\ bytes_per_token(h, d) \in Word
         /\ kv_block_bytes(s, h, d) \in Word
<1>1. h * d * 2 * 2 \in Int
  BY WordFacts
<1>2. bytes_per_token(h, d) \in Word
  BY <1>1, WrapFacts DEF bytes_per_token
<1>3. s * bytes_per_token(h, d) \in Int
  BY <1>2, WordFacts
<1> QED BY <1>2, <1>3, WrapFacts DEF kv_block_bytes

-----------------------------------------------------------------------------
(* The calls to the auditor                                                 *)

\* A region named p of size bytes is new in the table; nothing else changed.
Registered(p, size) ==
  /\ p \in Bases /\ p \notin DOMAIN regions /\ size # 0
  /\ DOMAIN regions' = DOMAIN regions \cup {p}
  /\ regions'[p].size_bytes = size
  /\ \A a \in DOMAIN regions : regions'[a] = regions[a]

\* The table has lost the region named p, if it had one.
Unregistered(p) ==
  /\ DOMAIN regions' = DOMAIN regions \ {p}
  /\ \A a \in DOMAIN regions' : regions'[a] = regions[a]

\* audit_malloc answers nullptr for no bytes, and otherwise an address that
\* no region has.
LEMMA MallocStep ==
  ASSUME RegionsTyped, RegionsApart, NEW p \in Bases \cup {Null}, NEW size \in Word,
         audit_malloc(p, size)
  PROVE  /\ RegionsTyped' /\ RegionsApart'
         /\ \/ size = 0 /\ p = Null /\ UNCHANGED regions
            \/ Registered(p, size)
<1>1. CASE size = 0
  BY <1>1 DEF audit_malloc, vram, RegionsTyped, RegionsApart
<1>2. CASE size # 0
  <2>1. /\ p \in Bases
        /\ p + size + Redzone <= HeapTop + 1
        /\ \A b \in DOMAIN regions :
             \/ p - Redzone + size + 2 * Redzone <= b - regions[b].redzone_bytes
             \/ b - regions[b].redzone_bytes
                  + (regions[b].size_bytes + 2 * regions[b].redzone_bytes) <= p - Redzone
        /\ regions' = [b \in DOMAIN regions \cup {p} |->
             IF b = p THEN [size_bytes |-> size, redzone_bytes |-> Redzone,
                            is_poisoned |-> FALSE] ELSE regions[b]]
    BY <1>2 DEF audit_malloc, Ledger!Register, Ledger!Start, Ledger!Extent
  <2>2. \A b \in DOMAIN regions :
          /\ b \in Nat /\ regions[b] \in Region
          /\ regions[b].redzone_bytes = Redzone
          /\ regions[b].size_bytes \in Nat \ {0}
    BY WordFacts DEF RegionsTyped, Region
  <2>3. p \in Nat /\ size \in Nat \ {0} /\ Redzone \in Nat
    BY <1>2, <2>1, WordFacts
  <2>4. \A b \in DOMAIN regions : \/ p + size + Redzone <= b - Redzone
                                  \/ b + regions[b].size_bytes + Redzone <= p - Redzone
    BY <2>1, <2>2, <2>3
  <2>5. p \notin DOMAIN regions
    BY <2>2, <2>3, <2>4
  <2>6. Registered(p, size)
    BY <1>2, <2>1, <2>5 DEF Registered
  <2>7. RegionsTyped'
    <3>1. [size_bytes |-> size, redzone_bytes |-> Redzone, is_poisoned |-> FALSE] \in Region
      BY <1>2 DEF Region
    <3> QED BY <2>1, <2>2, <3>1 DEF RegionsTyped
  <2>8. RegionsApart'
    <3>1. \A a \in DOMAIN regions' :
            a + regions'[a].size_bytes + Redzone <= HeapTop + 1
      BY <2>1, <2>6 DEF RegionsApart, Registered
    <3>2. ASSUME NEW a \in DOMAIN regions', NEW b \in DOMAIN regions', a < b
          PROVE  a + regions'[a].size_bytes + Redzone <= b - Redzone
      <4>1. CASE a = p /\ b # p
        BY <4>1, <3>2, <2>2, <2>3, <2>4, <2>6 DEF Registered
      <4>2. CASE a # p /\ b = p
        BY <4>2, <3>2, <2>2, <2>3, <2>4, <2>6 DEF Registered
      <4>3. CASE a # p /\ b # p
        BY <4>3, <3>2, <2>6 DEF Registered, RegionsApart
      <4> QED BY <4>1, <4>2, <4>3, <3>2, <2>3
    <3> QED BY <3>1, <3>2 DEF RegionsApart
  <2> QED BY <2>6, <2>7, <2>8
<1> QED BY <1>1, <1>2

\* audit_free takes at most the region it is asked for.
LEMMA FreeStep ==
  ASSUME RegionsTyped, RegionsApart, NEW p, audit_free(p)
  PROVE  RegionsTyped' /\ RegionsApart' /\ Unregistered(p)
<1>1. Unregistered(p) /\ DOMAIN regions' = DOMAIN regions \ {p}
  BY DEF audit_free, Ledger!Unregister, vram, Unregistered
<1>2. regions' = [a \in DOMAIN regions' |-> regions[a]]
  BY DEF audit_free, Ledger!Unregister, vram, RegionsTyped
<1> QED BY <1>1, <1>2 DEF RegionsTyped, RegionsApart

-----------------------------------------------------------------------------
(* Records and regions, whoever owns the record                             *)

\* An address that a record holds stays stale, or sound, through a step of an
\* adapter.
LEMMA SoundKept ==
  ASSUME forgotten' = forgotten \cap Held', NEW h \in Holdings'
  PROVE  Sound(h[3])' <=> Sound(h[3])
BY DEF Sound, Held

\* A record made for a new region: no sound record has its address, because
\* that record's region would have been in the way.
LEMMA RecordMade ==
  ASSUME RecordsInv, NEW h, Holdings' = Holdings \cup {h},
         forgotten' = forgotten \cap Held', orphaned' = orphaned,
         \/ h[4] = 0 /\ h[3] = Null /\ UNCHANGED regions
         \/ Registered(h[3], h[4])
  PROVE  RecordsInv'
<1>1. \A g \in Holdings' : Sound(g[3])' <=> Sound(g[3])
  BY SoundKept
<1>2. RecordsBacked'
  BY <1>1 DEF RecordsInv, RecordsBacked, Registered, Sound
<1>3. OneRecordPerRegion'
  BY <1>1 DEF RecordsInv, RecordsBacked, OneRecordPerRegion, Registered, Sound
<1>4. NothingElseLeaks'
  BY DEF RecordsInv, NothingElseLeaks, Registered
<1> QED BY <1>2, <1>3, <1>4 DEF RecordsInv

\* A record that goes with its region: a sound one shares it with nobody.
LEMMA RecordFreed ==
  ASSUME RecordsInv, NEW h \in Holdings, Holdings' = Holdings \ {h},
         forgotten' = forgotten \cap Held', orphaned' = orphaned,
         Unregistered(h[3])
  PROVE  RecordsInv'
<1>1. \A g \in Holdings' : Sound(g[3])' <=> Sound(g[3])
  BY SoundKept
<1>2. RecordsBacked'
  BY <1>1 DEF RecordsInv, RecordsBacked, OneRecordPerRegion, Unregistered
<1>3. OneRecordPerRegion'
  BY <1>1 DEF RecordsInv, OneRecordPerRegion
<1>4. NothingElseLeaks'
  BY DEF RecordsInv, NothingElseLeaks, Unregistered
<1> QED BY <1>2, <1>3, <1>4 DEF RecordsInv

\* Records that go without their regions leave these among the orphans.
LEMMA RecordsDropped ==
  ASSUME RecordsInv, Holdings' \subseteq Holdings, UNCHANGED regions,
         forgotten' = forgotten \cap Held', orphaned \subseteq orphaned',
         \A h \in Holdings : h \in Holdings' \/ h[3] \in orphaned'
  PROVE  RecordsInv'
<1>1. \A g \in Holdings' : Sound(g[3])' <=> Sound(g[3])
  BY SoundKept
<1>2. RecordsBacked' /\ OneRecordPerRegion'
  BY <1>1 DEF RecordsInv, RecordsBacked, OneRecordPerRegion
<1>3. NothingElseLeaks'
  BY DEF RecordsInv, NothingElseLeaks
<1> QED BY <1>2, <1>3 DEF RecordsInv

-----------------------------------------------------------------------------
(* LibTorchAdapter                                                          *)

\* Every operation of the LibTorch adapter keeps the invariant.
LEMMA TorchStep ==
  ASSUME RuntimeInv, AdapterStep(TorchNext /\ UNCHANGED << vllmVars, llamaVars >>)
  PROVE  RuntimeInv'
<1>0. /\ TorchNext /\ UNCHANGED << vllmVars, llamaVars >>
      /\ forgotten' = forgotten \cap Held' /\ orphaned' = orphaned
      /\ BlocksTyped' /\ ContextsTyped' /\ BlocksSized' /\ ContextsSized'
      /\ VllmHoldings' = VllmHoldings /\ LlamaHoldings' = LlamaHoldings
  BY DEF AdapterStep, RuntimeInv, RuntimeTypeOK, vllmVars, llamaVars, BlocksTyped,
         ContextsTyped, BlocksSized, ContextsSized, VllmHoldings, LlamaHoldings
<1>a. /\ RegionsTyped /\ TensorsTyped /\ RegionsApart /\ RecordsInv
  BY DEF RuntimeInv, RuntimeTypeOK
<1> SUFFICES RegionsTyped' /\ TensorsTyped' /\ RegionsApart' /\ RecordsInv'
  BY <1>0 DEF RuntimeInv, RuntimeTypeOK
<1>1. CASE \E id \in TensorIds, shape \in Shapes, element_size \in ElementSizes :
             AllocateTensor(id, shape, element_size)
  <2>1. PICK id \in TensorIds, shape \in Shapes, element_size \in ElementSizes :
               AllocateTensor(id, shape, element_size)
    BY <1>1
  <2> DEFINE bytes == total_bytes(shape, element_size)
  <2>2. bytes \in Word
    BY <2>1, TotalBytesType, TorchAssumption DEF AllocateTensor
  <2> HIDE DEF bytes
  <2>3. PICK p \in Bases \cup {Null} :
          /\ audit_malloc(p, bytes)
          /\ m_tensors' = With(m_tensors, id, [device_ptr |-> p, allocated_bytes |-> bytes])
    BY <2>1 DEF AllocateTensor, bytes
  <2>4. /\ RegionsTyped' /\ RegionsApart'
        /\ \/ bytes = 0 /\ p = Null /\ UNCHANGED regions
           \/ Registered(p, bytes)
    BY <1>a, <2>2, <2>3, MallocStep
  <2>5. /\ ~torchReset /\ id \notin DOMAIN m_tensors
        /\ UNCHANGED << torchReset, tensorsToFree >>
    BY <2>1 DEF AllocateTensor
  <2>6. TensorsTyped'
    BY <1>a, <2>2, <2>3, <2>5 DEF TensorsTyped, With, Tensor
  <2>7. Holdings' = Holdings \cup {<< "torch", id, p, bytes >>}
    <3>1. TorchHoldings' = TorchHoldings \cup {<< "torch", id, p, bytes >>}
      BY <2>3, <2>5 DEF TorchHoldings, With
    <3> QED BY <1>0, <3>1 DEF Holdings
  <2>8. RecordsInv'
    BY <1>0, <1>a, <2>4, <2>7, RecordMade
  <2> QED BY <2>4, <2>6, <2>8
<1>2. CASE \E id \in TensorIds : FreeTensor(id)
  <2>1. PICK id \in TensorIds : FreeTensor(id)
    BY <1>2
  <2> DEFINE h == << "torch", id, m_tensors[id].device_ptr, m_tensors[id].allocated_bytes >>
  <2>2. RegionsTyped' /\ RegionsApart' /\ Unregistered(h[3])
    BY <1>a, <2>1, FreeStep DEF FreeTensor
  <2>3. TensorsTyped'
    BY <1>a, <2>1 DEF TensorsTyped, FreeTensor, Without
  <2>4. h \in Holdings /\ Holdings' = Holdings \ {h}
    <3>1. h \in TorchHoldings /\ TorchHoldings' = TorchHoldings \ {h}
      BY <2>1 DEF TorchHoldings, FreeTensor, Without
    <3>2. h \notin VllmHoldings /\ h \notin LlamaHoldings
      BY DEF VllmHoldings, LlamaHoldings
    <3> QED BY <1>0, <3>1, <3>2 DEF Holdings
  <2> HIDE DEF h
  <2>5. RecordsInv'
    BY <1>0, <1>a, <2>2, <2>4, RecordFreed
  <2> QED BY <2>2, <2>3, <2>5
<1>3. CASE TorchResetBegin
  <2>1. UNCHANGED regions /\ TensorsTyped'
    BY <1>3, <1>a DEF TorchResetBegin, vram, TensorsTyped
  <2>2. Holdings' = Holdings
    <3>1. TorchHoldings' = TorchHoldings
      BY <1>3 DEF TorchHoldings, TorchResetBegin
    <3> QED BY <1>0, <3>1 DEF Holdings
  <2>3. RecordsInv'
    BY <1>0, <1>a, <2>1, <2>2, RecordsDropped
  <2> QED BY <1>a, <2>1, <2>3 DEF RegionsTyped, RegionsApart
<1>4. CASE \E id \in TensorIds : TorchResetFree(id)
  <2>1. PICK id \in TensorIds : TorchResetFree(id)
    BY <1>4
  <2> DEFINE h == << "torch", id, m_tensors[id].device_ptr, m_tensors[id].allocated_bytes >>
  <2>2. RegionsTyped' /\ RegionsApart' /\ Unregistered(h[3])
    BY <1>a, <2>1, FreeStep DEF TorchResetFree
  <2>3. TensorsTyped'
    BY <1>a, <2>1 DEF TensorsTyped, TorchResetFree
  <2>4. h \in Holdings /\ Holdings' = Holdings \ {h}
    <3>1. h \in TorchHoldings /\ TorchHoldings' = TorchHoldings \ {h}
      BY <2>1 DEF TorchHoldings, TorchResetFree
    <3>2. h \notin VllmHoldings /\ h \notin LlamaHoldings
      BY DEF VllmHoldings, LlamaHoldings
    <3> QED BY <1>0, <3>1, <3>2 DEF Holdings
  <2> HIDE DEF h
  <2>5. RecordsInv'
    BY <1>0, <1>a, <2>2, <2>4, RecordFreed
  <2> QED BY <2>2, <2>3, <2>5
<1>5. CASE TorchResetEnd
  <2>1. UNCHANGED regions /\ TensorsTyped'
    BY <1>5, <1>a DEF TorchResetEnd, vram, TensorsTyped, Empty
  <2>2. Holdings' = Holdings
    <3>1. TorchHoldings' = TorchHoldings
      BY <1>5 DEF TorchHoldings, TorchResetEnd, Empty
    <3> QED BY <1>0, <3>1 DEF Holdings
  <2>3. RecordsInv'
    BY <1>0, <1>a, <2>1, <2>2, RecordsDropped
  <2> QED BY <1>a, <2>1, <2>3 DEF RegionsTyped, RegionsApart
<1> QED BY <1>0, <1>1, <1>2, <1>3, <1>4, <1>5 DEF TorchNext

-----------------------------------------------------------------------------
(* VLLMAdapter                                                              *)

\* Every operation of the vLLM adapter keeps the invariant, the defaulted
\* destructor included.
LEMMA VllmStep ==
  ASSUME RuntimeInv, AdapterStep(VllmNext /\ UNCHANGED << torchVars, llamaVars >>)
  PROVE  RuntimeInv'
<1>0. /\ VllmNext /\ UNCHANGED << torchVars, llamaVars >>
      /\ forgotten' = forgotten \cap Held'
      /\ TensorsTyped' /\ ContextsTyped' /\ ContextsSized'
      /\ TorchHoldings' = TorchHoldings /\ LlamaHoldings' = LlamaHoldings
  BY DEF AdapterStep, RuntimeInv, RuntimeTypeOK, torchVars, llamaVars, TensorsTyped,
         ContextsTyped, ContextsSized, TorchHoldings, LlamaHoldings
<1>a. /\ RegionsTyped /\ BlocksTyped /\ BlocksSized /\ RegionsApart /\ RecordsInv
  BY DEF RuntimeInv, RuntimeTypeOK
<1> SUFFICES RegionsTyped' /\ BlocksTyped' /\ BlocksSized' /\ RegionsApart' /\ RecordsInv'
  BY <1>0 DEF RuntimeInv, RuntimeTypeOK
<1>1. CASE \E id \in BlockIds, g \in Geometries : AllocateKvBlock(id, g[1], g[2], g[3])
  <2>1. PICK id \in BlockIds, g \in Geometries : AllocateKvBlock(id, g[1], g[2], g[3])
    BY <1>1
  <2> DEFINE bytes == kv_block_bytes(g[1], g[2], g[3])
  <2>2. g[1] \in Word /\ g[2] \in Word /\ g[3] \in Word /\ g = << g[1], g[2], g[3] >>
    BY VLLMAssumption
  <2>3. bytes \in Word
    BY <2>2, BlockBytesType
  <2>4. PICK p \in Bases \cup {Null} :
          /\ audit_malloc(p, kv_block_bytes(g[1], g[2], g[3]))
          /\ m_blocks' = With(m_blocks, id,
               [block_size_tokens |-> g[1], num_heads |-> g[2], head_dim |-> g[3],
                device_ptr |-> p, total_bytes |-> kv_block_bytes(g[1], g[2], g[3])])
    BY <2>1 DEF AllocateKvBlock
  <2>5. /\ RegionsTyped' /\ RegionsApart'
        /\ \/ bytes = 0 /\ p = Null /\ UNCHANGED regions
           \/ Registered(p, bytes)
    BY <1>a, <2>3, <2>4, MallocStep
  <2>6. /\ ~vllmReset /\ id \notin DOMAIN m_blocks
        /\ UNCHANGED << vllmReset, blocksToFree, orphaned >>
    BY <2>1 DEF AllocateKvBlock
  <2>7. BlocksTyped'
    BY <1>a, <2>2, <2>3, <2>4, <2>6 DEF BlocksTyped, With, KVCacheBlock
  <2>8. BlocksSized'
    BY <1>a, <2>2, <2>4 DEF BlocksSized, With
  <2>9. Holdings' = Holdings \cup {<< "vllm", id, p, bytes >>}
    <3>1. VllmHoldings' = VllmHoldings \cup {<< "vllm", id, p, bytes >>}
      BY <2>4, <2>6 DEF VllmHoldings, With
    <3> QED BY <1>0, <3>1 DEF Holdings
  <2>10. RecordsInv'
    <3> HIDE DEF bytes
    <3> QED BY <1>0, <1>a, <2>5, <2>6, <2>9, RecordMade
  <2> QED BY <2>5, <2>7, <2>8, <2>10
<1>2. CASE \E id \in BlockIds : FreeKvBlock(id)
  <2>1. PICK id \in BlockIds : FreeKvBlock(id)
    BY <1>2
  <2> DEFINE h == << "vllm", id, m_blocks[id].device_ptr, m_blocks[id].total_bytes >>
  <2>2. RegionsTyped' /\ RegionsApart' /\ Unregistered(h[3])
    BY <1>a, <2>1, FreeStep DEF FreeKvBlock
  <2>3. BlocksTyped' /\ BlocksSized'
    BY <1>a, <2>1 DEF BlocksTyped, BlocksSized, FreeKvBlock, Without
  <2>4. h \in Holdings /\ Holdings' = Holdings \ {h}
    <3>1. h \in VllmHoldings /\ VllmHoldings' = VllmHoldings \ {h}
      BY <2>1 DEF VllmHoldings, FreeKvBlock, Without
    <3>2. h \notin TorchHoldings /\ h \notin LlamaHoldings
      BY DEF TorchHoldings, LlamaHoldings
    <3> QED BY <1>0, <3>1, <3>2 DEF Holdings
  <2> HIDE DEF h
  <2>5. RecordsInv'
    BY <1>0, <1>a, <2>1, <2>2, <2>4, RecordFreed DEF FreeKvBlock
  <2> QED BY <2>2, <2>3, <2>5
<1>3. CASE VllmResetBegin
  <2>1. UNCHANGED << regions, orphaned >> /\ BlocksTyped' /\ BlocksSized'
    BY <1>3, <1>a DEF VllmResetBegin, vram, BlocksTyped, BlocksSized
  <2>2. Holdings' = Holdings
    <3>1. VllmHoldings' = VllmHoldings
      BY <1>3 DEF VllmHoldings, VllmResetBegin
    <3> QED BY <1>0, <3>1 DEF Holdings
  <2>3. RecordsInv'
    BY <1>0, <1>a, <2>1, <2>2, RecordsDropped
  <2> QED BY <1>a, <2>1, <2>3 DEF RegionsTyped, RegionsApart
<1>4. CASE \E id \in BlockIds : VllmResetFree(id)
  <2>1. PICK id \in BlockIds : VllmResetFree(id)
    BY <1>4
  <2> DEFINE h == << "vllm", id, m_blocks[id].device_ptr, m_blocks[id].total_bytes >>
  <2>2. RegionsTyped' /\ RegionsApart' /\ Unregistered(h[3])
    BY <1>a, <2>1, FreeStep DEF VllmResetFree
  <2>3. BlocksTyped' /\ BlocksSized'
    BY <1>a, <2>1 DEF BlocksTyped, BlocksSized, VllmResetFree
  <2>4. h \in Holdings /\ Holdings' = Holdings \ {h}
    <3>1. h \in VllmHoldings /\ VllmHoldings' = VllmHoldings \ {h}
      BY <2>1 DEF VllmHoldings, VllmResetFree
    <3>2. h \notin TorchHoldings /\ h \notin LlamaHoldings
      BY DEF TorchHoldings, LlamaHoldings
    <3> QED BY <1>0, <3>1, <3>2 DEF Holdings
  <2> HIDE DEF h
  <2>5. RecordsInv'
    BY <1>0, <1>a, <2>1, <2>2, <2>4, RecordFreed DEF VllmResetFree
  <2> QED BY <2>2, <2>3, <2>5
<1>5. CASE VllmResetEnd
  <2>1. UNCHANGED << regions, orphaned >> /\ BlocksTyped' /\ BlocksSized'
    BY <1>5, <1>a DEF VllmResetEnd, vram, BlocksTyped, BlocksSized, Empty
  <2>2. Holdings' = Holdings
    <3>1. VllmHoldings' = VllmHoldings
      BY <1>5 DEF VllmHoldings, VllmResetEnd, Empty
    <3> QED BY <1>0, <3>1 DEF Holdings
  <2>3. RecordsInv'
    BY <1>0, <1>a, <2>1, <2>2, RecordsDropped
  <2> QED BY <1>a, <2>1, <2>3 DEF RegionsTyped, RegionsApart
<1>6. CASE VllmDestroy
  <2>1. UNCHANGED regions /\ orphaned \subseteq orphaned' /\ BlocksTyped' /\ BlocksSized'
    BY <1>6, <1>a DEF VllmDestroy, vram, BlocksTyped, BlocksSized, Empty
  <2>2. VllmHoldings' = {}
    BY <1>6 DEF VllmHoldings, VllmDestroy, Empty
  <2>3. \A h \in VllmHoldings : h[3] \in orphaned'
    BY <1>6 DEF VllmHoldings, VllmDestroy
  <2>4. RecordsInv'
    BY <1>0, <1>a, <2>1, <2>2, <2>3, RecordsDropped DEF Holdings
  <2> QED BY <1>a, <2>1, <2>4 DEF RegionsTyped, RegionsApart
<1> QED BY <1>0, <1>1, <1>2, <1>3, <1>4, <1>5, <1>6 DEF VllmNext

-----------------------------------------------------------------------------
(* LlamaCppAdapter                                                          *)

\* release(), at the start of init_context or alone, frees the buffer of its
\* own object and of no other.
LEMMA LlamaRelease ==
  ASSUME RuntimeInv, NEW c \in Contexts, release(c), NEW r \in Context,
         ctx' = [ctx EXCEPT ![c] = r], r.m_gpu_context_ptr = Null,
         forgotten' = forgotten \cap Held', orphaned' = orphaned,
         TorchHoldings' = TorchHoldings, VllmHoldings' = VllmHoldings
  PROVE  RegionsTyped' /\ RegionsApart' /\ RecordsInv' /\ ctx' \in [Contexts -> Context]
<1>a. RegionsTyped /\ RegionsApart /\ RecordsInv /\ ctx \in [Contexts -> Context]
  BY DEF RuntimeInv, RuntimeTypeOK, ContextsTyped
<1> DEFINE p == ctx[c].m_gpu_context_ptr
           h == << "llama", c, p, ctx[c].m_allocated_bytes >>
<1>1. RegionsTyped' /\ RegionsApart' /\ Unregistered(p)
  BY <1>a, FreeStep DEF release
<1>2. ctx'[c] = r /\ \A d \in Contexts : d # c => ctx'[d] = ctx[d]
  BY <1>a
<1>3. CASE p = Null
  <2>1. DOMAIN regions \subseteq Bases /\ Null \notin Bases
    BY <1>a, WordFacts DEF RegionsTyped
  <2>2. UNCHANGED regions
    BY <1>3, <2>1 DEF release, audit_free, vram
  <2>3. LlamaHoldings' = LlamaHoldings
    BY <1>2, <1>3 DEF LlamaHoldings
  <2>4. RecordsInv'
    BY <1>a, <2>2, <2>3, RecordsDropped DEF Holdings
  <2> QED BY <1>a, <1>1, <2>4
<1>4. CASE p # Null
  <2>1. h \in LlamaHoldings /\ LlamaHoldings' = LlamaHoldings \ {h}
    BY <1>2, <1>4 DEF LlamaHoldings
  <2>2. h \notin TorchHoldings /\ h \notin VllmHoldings
    BY DEF TorchHoldings, VllmHoldings
  <2>3. h \in Holdings /\ Holdings' = Holdings \ {h} /\ h[3] = p
    BY <2>1, <2>2 DEF Holdings
  <2> HIDE DEF h, p
  <2>4. RecordsInv'
    BY <1>a, <1>1, <2>3, RecordFreed
  <2> QED BY <1>a, <1>1, <2>4
<1> QED BY <1>3, <1>4

\* Every operation of a llama.cpp object, without moves, keeps the invariant.
LEMMA LlamaStep ==
  ASSUME RuntimeInv,
         AdapterStep(LlamaNextWithoutMoves /\ UNCHANGED << torchVars, vllmVars >>)
  PROVE  RuntimeInv'
<1>0. /\ LlamaNextWithoutMoves
      /\ forgotten' = forgotten \cap Held' /\ orphaned' = orphaned
      /\ TensorsTyped' /\ BlocksTyped' /\ BlocksSized'
      /\ TorchHoldings' = TorchHoldings /\ VllmHoldings' = VllmHoldings
  BY DEF AdapterStep, RuntimeInv, RuntimeTypeOK, torchVars, vllmVars, TensorsTyped,
         BlocksTyped, BlocksSized, TorchHoldings, VllmHoldings
<1>a. /\ RegionsTyped /\ ContextsTyped /\ ContextsSized /\ RegionsApart /\ RecordsInv
  BY DEF RuntimeInv, RuntimeTypeOK
<1> SUFFICES RegionsTyped' /\ ContextsTyped' /\ ContextsSized' /\ RegionsApart' /\ RecordsInv'
  BY <1>0 DEF RuntimeInv, RuntimeTypeOK
<1>b. PICK c \in Contexts : \/ \E p \in ContextParams : InitContext(c, p)
                            \/ InitContextAllocate(c)
                            \/ Release(c)
                            \/ Destroy(c)
  BY <1>0 DEF LlamaNextWithoutMoves
<1>c. \A d \in Contexts :
        /\ ctx[d] \in Context
        /\ Released(d) \in Context
        /\ Released(d).m_gpu_context_ptr = Null /\ ~Released(d).m_initialized
  BY <1>a, WordFacts DEF ContextsTyped, Released, Context
<1>d. ASSUME NEW p \in ContextParams, Acceptable(p), NEW ptr \in Bases \cup {Null}
      PROVE  /\ required_bytes(p[1], p[2]) \in Word
             /\ Initialized(c, p, ptr) \in Context
             /\ Initialized(c, p, ptr).m_gpu_context_ptr = ptr
             /\ Initialized(c, p, ptr).m_params = p
             /\ Initialized(c, p, ptr).m_allocated_bytes = required_bytes(p[1], p[2])
  <2>1. p[1] \in Word /\ p[2] \in Word
    BY LlamaAssumption
  <2>2. required_bytes(p[1], p[2]) \in Word
    BY <1>d, <2>1, RequiredBytesType DEF Acceptable
  <2> QED BY <1>c, <1>d, <2>2 DEF Initialized, Context
<1>1. ASSUME NEW r \in Context, ctx' = [ctx EXCEPT ![c] = r],
             r.m_gpu_context_ptr = Null, ~r.m_initialized, UNCHANGED requested
      PROVE  ContextsTyped' /\ ContextsSized'
  BY <1>1, <1>a DEF ContextsTyped, ContextsSized
<1>2. CASE \E p \in ContextParams : InitContext(c, p)
  <2>1. PICK p \in ContextParams : InitContext(c, p)
    BY <1>2
  <2>2. release(c) /\ requested[c] = NoParams
    BY <2>1 DEF InitContext
  <2>3. CASE ~Acceptable(p)
    <3>1. ctx' = [ctx EXCEPT ![c] = Released(c)] /\ UNCHANGED requested
      BY <2>1, <2>3 DEF InitContext
    <3> QED BY <1>0, <1>1, <1>c, <2>2, <3>1, LlamaRelease
  <2>4. CASE Acceptable(p) /\ p[3] = 0
    <3>1. ctx' = [ctx EXCEPT ![c] = Initialized(c, p, Null)] /\ UNCHANGED requested
      BY <2>1, <2>4 DEF InitContext
    <3>2. RegionsTyped' /\ RegionsApart' /\ RecordsInv' /\ ctx' \in [Contexts -> Context]
      BY <1>0, <1>d, <2>2, <2>4, <3>1, LlamaRelease
    <3>3. ContextsTyped' /\ ContextsSized'
      BY <1>a, <1>d, <2>2, <2>4, <3>1, <3>2 DEF ContextsTyped, ContextsSized
    <3> QED BY <3>2, <3>3
  <2>5. CASE Acceptable(p) /\ p[3] > 0
    <3>1. /\ ctx' = [ctx EXCEPT ![c] = Released(c)]
          /\ requested' = [requested EXCEPT ![c] = p]
      BY <2>1, <2>5 DEF InitContext
    <3>2. RegionsTyped' /\ RegionsApart' /\ RecordsInv' /\ ctx' \in [Contexts -> Context]
      BY <1>0, <1>c, <2>2, <3>1, LlamaRelease
    <3>3. ContextsTyped' /\ ContextsSized'
      BY <1>a, <1>c, <2>2, <2>5, <3>1, <3>2 DEF ContextsTyped, ContextsSized
    <3> QED BY <3>2, <3>3
  <2> QED BY <2>1, <2>3, <2>4, <2>5 DEF InitContext
<1>3. CASE InitContextAllocate(c)
  <2> DEFINE p == requested[c]
             bytes == required_bytes(p[1], p[2])
  <2>1. /\ p \in ContextParams /\ Acceptable(p) /\ ctx[c].m_gpu_context_ptr = Null
        /\ requested' = [requested EXCEPT ![c] = NoParams]
    BY <1>3, <1>a DEF InitContextAllocate, ContextsSized
  <2>2. CASE \E ptr \in Bases \cup {Null} :
               /\ audit_malloc(ptr, bytes)
               /\ ctx' = [ctx EXCEPT ![c] = Initialized(c, p, ptr)]
    <3>1. PICK ptr \in Bases \cup {Null} :
                 /\ audit_malloc(ptr, bytes)
                 /\ ctx' = [ctx EXCEPT ![c] = Initialized(c, p, ptr)]
      BY <2>2
    <3> DEFINE r == Initialized(c, p, ptr)
    <3>2. /\ bytes \in Word /\ r \in Context /\ r.m_gpu_context_ptr = ptr
          /\ r.m_params = p /\ r.m_allocated_bytes = bytes
      BY <1>d, <2>1
    <3> HIDE DEF r, bytes, p
    <3>3. /\ RegionsTyped' /\ RegionsApart'
          /\ \/ bytes = 0 /\ ptr = Null /\ UNCHANGED regions
             \/ Registered(ptr, bytes)
      BY <1>a, <3>1, <3>2, MallocStep
    <3>4. ctx'[c] = r /\ \A d \in Contexts : d # c => ctx'[d] = ctx[d]
      BY <1>a, <3>1 DEF ContextsTyped, r
    <3>5. ContextsTyped' /\ ContextsSized'
      <4>1. bytes # 0 => ptr # Null
        BY <3>3, WordFacts DEF Registered
      <4>2. ContextsTyped'
        BY <1>a, <2>1, <3>1, <3>2 DEF ContextsTyped, r
      <4> QED BY <1>a, <2>1, <3>2, <3>4, <4>1, <4>2 DEF ContextsTyped, ContextsSized, bytes
    <3>6. CASE ptr = Null
      <4>1. UNCHANGED regions
        BY <3>3, <3>6, WordFacts DEF Registered
      <4>2. LlamaHoldings' = LlamaHoldings
        BY <2>1, <3>2, <3>4, <3>6 DEF LlamaHoldings
      <4>3. RecordsInv'
        BY <1>0, <1>a, <4>1, <4>2, RecordsDropped DEF Holdings
      <4> QED BY <3>3, <3>5, <4>3
    <3>7. CASE ptr # Null
      <4> DEFINE h == << "llama", c, ptr, bytes >>
      <4>1. LlamaHoldings' = LlamaHoldings \cup {h}
        BY <2>1, <3>2, <3>4, <3>7 DEF LlamaHoldings
      <4>2. Holdings' = Holdings \cup {h} /\ h[3] = ptr /\ h[4] = bytes
        BY <1>0, <4>1 DEF Holdings
      <4> HIDE DEF h
      <4>3. RecordsInv'
        BY <1>0, <1>a, <3>3, <3>7, <4>2, RecordMade
      <4> QED BY <3>3, <3>5, <4>3
    <3> QED BY <3>6, <3>7
  <2>3. CASE UNCHANGED << vram, ctx >>
    <3>1. Holdings' = Holdings
      BY <1>0, <2>3 DEF Holdings, LlamaHoldings
    <3>2. RecordsInv'
      BY <1>0, <1>a, <2>3, <3>1, RecordsDropped DEF vram
    <3>3. ContextsTyped' /\ ContextsSized'
      BY <1>a, <2>1, <2>3 DEF ContextsTyped, ContextsSized
    <3> QED BY <1>a, <2>3, <3>2, <3>3 DEF vram, RegionsTyped, RegionsApart
  <2> QED BY <1>3, <2>2, <2>3 DEF InitContextAllocate
<1>4. CASE Release(c)
  <2>1. release(c) /\ ctx' = [ctx EXCEPT ![c] = Released(c)] /\ UNCHANGED requested
    BY <1>4 DEF Release
  <2> QED BY <1>0, <1>1, <1>c, <2>1, LlamaRelease
<1>5. CASE Destroy(c)
  <2>1. release(c) /\ ctx' = [ctx EXCEPT ![c] = Fresh] /\ UNCHANGED requested
    BY <1>5 DEF Destroy
  <2>2. Fresh \in Context /\ Fresh.m_gpu_context_ptr = Null /\ ~Fresh.m_initialized
    BY WordFacts DEF Fresh, Context
  <2> QED BY <1>0, <1>1, <2>1, <2>2, LlamaRelease
<1> QED BY <1>b, <1>2, <1>3, <1>4, <1>5

-----------------------------------------------------------------------------
(* The invariant                                                            *)

\* A reset() of the auditor leaves no region and no sound record.
LEMMA AuditorResetStep ==
  ASSUME RuntimeInv, AuditorReset
  PROVE  RuntimeInv'
<1>1. /\ RegionsTyped' /\ RegionsApart' /\ DOMAIN regions' = {}
  BY DEF AuditorReset, Ledger!Clear, RegionsTyped, RegionsApart
<1>2. /\ TensorsTyped' /\ BlocksTyped' /\ ContextsTyped' /\ BlocksSized' /\ ContextsSized'
      /\ Holdings' = Holdings /\ forgotten' = Held
  BY DEF AuditorReset, RuntimeInv, RuntimeTypeOK, torchVars, llamaVars, TensorsTyped,
         BlocksTyped, ContextsTyped, BlocksSized, ContextsSized, Holdings, TorchHoldings,
         VllmHoldings, LlamaHoldings
<1>3. \A h \in Holdings' : ~Sound(h[3])'
  BY <1>2 DEF Sound, Held
<1>4. RecordsInv'
  BY <1>1, <1>3 DEF RecordsInv, RecordsBacked, OneRecordPerRegion, NothingElseLeaks
<1> QED BY <1>1, <1>2, <1>4 DEF RuntimeInv, RuntimeTypeOK

\* Before any call no adapter has a record and the auditor tracks nothing.
LEMMA RuntimeInitInv ==
  ASSUME RuntimeInit
  PROVE  RuntimeInv
<1>1. RegionsTyped /\ RegionsApart /\ DOMAIN regions = {}
  BY DEF RuntimeInit, Ledger!Init, RegionsTyped, RegionsApart
<1>2. TensorsTyped /\ BlocksTyped /\ BlocksSized
  BY DEF RuntimeInit, TorchInit, VllmInit, Empty, TensorsTyped, BlocksTyped, BlocksSized
<1>3. ContextsTyped /\ ContextsSized
  BY WordFacts DEF RuntimeInit, LlamaInit, ContextsTyped, ContextsSized, Fresh, Context
<1>4. Holdings = {}
  BY DEF RuntimeInit, TorchInit, VllmInit, LlamaInit, Empty, Fresh, Holdings,
         TorchHoldings, VllmHoldings, LlamaHoldings
<1>5. RecordsInv
  BY <1>1, <1>4 DEF RecordsInv, RecordsBacked, OneRecordPerRegion, NothingElseLeaks
<1> QED BY <1>1, <1>2, <1>3, <1>5 DEF RuntimeInv, RuntimeTypeOK

\* RuntimeInv holds in every state: an address is shared by two records only
\* after a reset() of the auditor made it stale, whichever of the three
\* adapters allocates, frees, resets or is destroyed, and in which order.
THEOREM RuntimeInvariant == RuntimeSpec => []RuntimeInv
<1>1. RuntimeInit => RuntimeInv
  BY RuntimeInitInv
<1>2. RuntimeInv /\ [RuntimeNext]_runtimeVars => RuntimeInv'
  <2> SUFFICES ASSUME RuntimeInv, [RuntimeNext]_runtimeVars
               PROVE  RuntimeInv'
    OBVIOUS
  <2>1. CASE RuntimeNext
    BY <2>1, TorchStep, VllmStep, LlamaStep, AuditorResetStep DEF RuntimeNext, AdaptersNext
  <2>2. CASE UNCHANGED runtimeVars
    BY <2>2 DEF runtimeVars, vram, torchVars, vllmVars, llamaVars, RuntimeInv,
       RuntimeTypeOK, RegionsTyped, TensorsTyped, BlocksTyped, ContextsTyped, RegionsApart,
       BlocksSized, ContextsSized, RecordsInv, RecordsBacked, OneRecordPerRegion,
       NothingElseLeaks, Sound, Holdings, TorchHoldings, VllmHoldings, LlamaHoldings
  <2> QED BY <2>1, <2>2
<1> QED BY <1>1, <1>2, PTL DEF RuntimeSpec

\* A sound record has its region, of its bytes: no free, reset or reuse of
\* addresses by another adapter takes it away.
THEOREM RecordsBackedHolds == RuntimeSpec => []RecordsBacked
<1>1. RuntimeInv => RecordsBacked
  BY DEF RuntimeInv, RecordsInv
<1> QED BY <1>1, RuntimeInvariant, PTL

\* No region has two sound records, across all adapters and objects.
THEOREM OneRecordPerRegionHolds == RuntimeSpec => []OneRecordPerRegion
<1>1. RuntimeInv => OneRecordPerRegion
  BY DEF RuntimeInv, RecordsInv
<1> QED BY <1>1, RuntimeInvariant, PTL

\* Every region has a record that will free it, except those that the
\* defaulted destructor of VLLMAdapter dropped.
THEOREM NothingElseLeaksHolds == RuntimeSpec => []NothingElseLeaks
<1>1. RuntimeInv => NothingElseLeaks
  BY DEF RuntimeInv, RecordsInv
<1> QED BY <1>1, RuntimeInvariant, PTL

-----------------------------------------------------------------------------
(* The access checks                                                        *)

\* The regions of the table as numbers.
LEMMA RegionFacts ==
  ASSUME RuntimeInv
  PROVE  /\ \A a \in DOMAIN regions :
              /\ a \in Nat \ {0} /\ regions[a].size_bytes \in Nat \ {0}
              /\ ~regions[a].is_poisoned
              /\ a + regions[a].size_bytes + Redzone <= HeapTop + 1
              /\ Wrap(a + regions[a].size_bytes) = a + regions[a].size_bytes
         /\ \A a, b \in DOMAIN regions :
              a < b => a + regions[a].size_bytes + Redzone <= b - Redzone
<1>1. \A a \in DOMAIN regions :
        /\ a \in Nat \ {0} /\ regions[a].size_bytes \in Nat \ {0}
        /\ ~regions[a].is_poisoned
        /\ a + regions[a].size_bytes + Redzone <= HeapTop + 1
  BY WordFacts DEF RuntimeInv, RuntimeTypeOK, RegionsTyped, Region, RegionsApart, Null
<1>2. \A a \in DOMAIN regions : Wrap(a + regions[a].size_bytes) = a + regions[a].size_bytes
  <2> TAKE a \in DOMAIN regions
  <2>1. a + regions[a].size_bytes \in Word
    BY <1>1, WordFacts DEF Word
  <2> QED BY <1>1, <2>1, WrapFacts
<1> QED BY <1>1, <1>2 DEF RuntimeInv, RegionsApart

\* An access that check_bounds passes lies inside one payload, if the end of
\* the access fits a word.
LEMMA CheckedAccess ==
  ASSUME RuntimeInv, NEW p \in Word, NEW n \in Word, p + n < SizeMod,
         check_bounds(p, n)
  PROVE  n > 0 /\ \E a \in DOMAIN regions : a <= p /\ p + n <= a + regions[a].size_bytes
<1>1. PICK a \in DOMAIN regions :
        /\ a <= p /\ p < a + regions[a].size_bytes
        /\ Wrap(p + n) <= a + regions[a].size_bytes
  BY RegionFacts DEF check_bounds
<1>2. p + n \in Word
  BY <1>1, RegionFacts, WordFacts DEF Word
<1>3. Wrap(p + n) = p + n
  BY <1>2, WrapFacts, WordFacts
<1> QED BY <1>1, <1>3, WordFacts DEF check_bounds

\* An access inside a payload passes check_bounds.
LEMMA AccessChecked ==
  ASSUME RuntimeInv, NEW a \in DOMAIN regions, NEW p \in Nat, NEW n \in Nat \ {0},
         a <= p, p + n <= a + regions[a].size_bytes
  PROVE  check_bounds(p, n)
<1>1. p + n \in Word /\ p < a + regions[a].size_bytes /\ p # Null
  BY RegionFacts, WordFacts DEF Word, Null
<1>2. Wrap(p + n) = p + n
  BY <1>1, WrapFacts
<1> QED BY <1>1, <1>2, RegionFacts DEF check_bounds

\* A view that validate_view_access passes lies inside its own tensor, unless
\* its end wraps in check_bounds: where only offset_bytes + access_bytes
\* wraps, the access would have to cross a redzone from the payload below.
THEOREM ViewAccessSoundHolds == RuntimeSpec => []ViewAccessSound
<1>1. RuntimeInv => ViewAccessSound
  <2> SUFFICES ASSUME RuntimeInv, NEW id \in TensorIds, NEW o \in Offsets, NEW n \in Lengths,
                      ~torchReset, validate_view_access(id, o, n),
                      Sound(m_tensors[id].device_ptr), ~EndWraps(id, o, n)
               PROVE  o + n <= m_tensors[id].allocated_bytes
    BY DEF ViewAccessSound
  <2> DEFINE t == m_tensors[id].device_ptr
             size == m_tensors[id].allocated_bytes
             p == Wrap(t + o)
  <2>1. t \in DOMAIN regions /\ regions[t].size_bytes = size
    <3>1. << "torch", id, t, size >> \in Holdings
      BY DEF Holdings, TorchHoldings, validate_view_access
    <3> QED BY <3>1 DEF RuntimeInv, RecordsInv, RecordsBacked
  <2>2. /\ o \in Nat /\ o < SizeMod /\ n \in Nat /\ n < SizeMod /\ n \in Word
        /\ Redzone > 0 /\ o \in Int
    BY TorchAssumption, WordFacts, BoundedCalls
  <2>3. /\ t \in Nat \ {0} /\ size \in Nat \ {0} /\ t + size + Redzone <= HeapTop + 1
    BY <2>1, RegionFacts
  <2>4. p \in Word /\ Wrap(o + n) <= size /\ check_bounds(p, n)
    BY <2>2, <2>3, WrapFacts DEF validate_view_access
  <2>e. p + n < SizeMod
    <3>1. p \in Nat /\ ~(p + n >= SizeMod)
      BY <2>4, WordFacts DEF EndWraps
    <3> QED BY <2>2, <3>1, WordFacts
  <2>5. PICK a \in DOMAIN regions : a <= p /\ p + n <= a + regions[a].size_bytes
    BY <2>2, <2>4, <2>e, CheckedAccess
  <2>6. /\ a \in Nat \ {0} /\ regions[a].size_bytes \in Nat \ {0}
        /\ a + regions[a].size_bytes + Redzone <= HeapTop + 1
        /\ a < t => a + regions[a].size_bytes + Redzone <= t - Redzone
    BY <2>1, RegionFacts
  <2>7. t + o < SizeMod => p = t + o
    BY <2>2, <2>3, WrapFacts, WordFacts DEF Word
  <2>8. t + o >= SizeMod => p = t + o - SizeMod
    BY <2>2, <2>3, WrapFacts, WordFacts
  <2>9. o + n < SizeMod => Wrap(o + n) = o + n
    BY <2>2, WrapFacts, WordFacts DEF Word
  <2>10. o + n >= SizeMod => Wrap(o + n) = o + n - SizeMod
    BY <2>2, WrapFacts, WordFacts
  <2> HIDE DEF t, size, p
  <2>11. CASE o + n >= SizeMod
    <3>1. t + o >= SizeMod
      BY <2>2, <2>3, <2>5, <2>6, <2>7, <2>11, WordFacts
    <3>2. p < t /\ p + n >= t
      BY <2>2, <2>3, <2>8, <2>11, <3>1, WordFacts
    <3> QED BY <2>2, <2>3, <2>4, <2>5, <2>6, <3>2, WordFacts
  <2> QED BY <2>2, <2>4, <2>9, <2>11, WordFacts DEF size
<1> QED BY <1>1, RuntimeInvariant, PTL

\* A product grows with its factor.
LEMMA ProductMonotone ==
  ASSUME NEW x \in Nat, NEW y \in Nat, NEW z \in Nat, x <= y
  PROVE  x * z <= y * z
OBVIOUS

\* The token a vLLM block was asked for is where its index says, and the
\* block is long enough for it.
LEMMA TokenPlace ==
  ASSUME RuntimeInv, NEW id \in DOMAIN m_blocks, NEW k \in Tokens, ~vllmReset,
         k < m_blocks[id].block_size_tokens, Sound(m_blocks[id].device_ptr)
  PROVE  LET a == m_blocks[id].device_ptr IN
         /\ a \in DOMAIN regions /\ a \in Nat /\ token_addr(id, k) \in Nat
         /\ regions[a].size_bytes = m_blocks[id].total_bytes
         /\ token_bytes(id) \in Nat \ {0}
         /\ a <= token_addr(id, k)
         /\ token_addr(id, k) + token_bytes(id) <= a + m_blocks[id].total_bytes
<1> DEFINE b == m_blocks[id]
           a == b.device_ptr
           n == b.block_size_tokens
           bytes == b.num_heads * b.head_dim * 2 * 2
<1>1. a \in DOMAIN regions /\ regions[a].size_bytes = b.total_bytes
  <2>1. << "vllm", id, a, b.total_bytes >> \in Holdings
    BY DEF Holdings, VllmHoldings
  <2> QED BY <2>1 DEF RuntimeInv, RecordsInv, RecordsBacked
<1>2. /\ << n, b.num_heads, b.head_dim >> \in Geometries
      /\ b.total_bytes = kv_block_bytes(n, b.num_heads, b.head_dim)
      /\ n \in Nat /\ b.num_heads \in Nat /\ b.head_dim \in Nat
  BY WordFacts DEF RuntimeInv, RuntimeTypeOK, BlocksTyped, BlocksSized, KVCacheBlock
<1>3. bytes \in Nat \ {0} /\ bytes \in Word /\ n * bytes < SizeMod
  BY <1>2, BoundedCalls, WordFacts DEF Word
<1>4. bytes_per_token(b.num_heads, b.head_dim) = bytes
  BY <1>3, WrapFacts DEF bytes_per_token
<1>5. k \in Nat /\ k < n /\ k + 1 \in Nat
  BY VLLMAssumption, WordFacts
<1> HIDE DEF bytes
<1>6. /\ n * bytes \in Nat /\ k * bytes \in Nat /\ (k + 1) * bytes = k * bytes + bytes
      /\ (k + 1) * bytes <= n * bytes
  BY <1>2, <1>3, <1>5, ProductMonotone
<1>7. n * bytes \in Word /\ k * bytes \in Word
  BY <1>3, <1>6, WordFacts DEF Word
<1>8. b.total_bytes = n * bytes
  BY <1>2, <1>4, <1>7, WrapFacts, WordFacts DEF kv_block_bytes
<1>9. a \in Nat /\ a + n * bytes <= HeapTop + 1
  BY <1>1, <1>6, <1>8, RegionFacts, WordFacts
<1>10. a + k * bytes \in Word
  BY <1>6, <1>3, <1>9, WordFacts DEF Word
<1>11. token_addr(id, k) = a + k * bytes
  BY <1>4, <1>7, <1>10, WrapFacts, WordFacts DEF token_addr
<1>12. token_bytes(id) = bytes
  BY <1>4 DEF token_bytes
<1> QED BY <1>1, <1>3, <1>6, <1>8, <1>9, <1>11, <1>12

\* A token that validate_token_access passes lies inside its own block.
THEOREM TokenAccessSoundHolds == RuntimeSpec => []TokenAccessSound
<1>1. RuntimeInv => TokenAccessSound
  BY TokenPlace DEF TokenAccessSound, validate_token_access
<1> QED BY <1>1, RuntimeInvariant, PTL

\* validate_token_access passes every token of a block.
THEOREM TokensAddressableHolds == RuntimeSpec => []TokensAddressable
<1>1. RuntimeInv => TokensAddressable
  <2> SUFFICES ASSUME RuntimeInv, NEW id \in BlockIds, NEW k \in Tokens,
                      ~vllmReset, id \in DOMAIN m_blocks,
                      k < m_blocks[id].block_size_tokens, Sound(m_blocks[id].device_ptr)
               PROVE  validate_token_access(id, k)
    BY DEF TokensAddressable
  <2>1. check_bounds(token_addr(id, k), token_bytes(id))
    BY TokenPlace, AccessChecked
  <2> QED BY <2>1 DEF validate_token_access
<1> QED BY <1>1, RuntimeInvariant, PTL

\* A prompt that audit_tokens passes fits the buffer of its context: after a
\* failed init_context or a release() no prompt passes at all.
THEOREM PromptFitsHolds == RuntimeSpec => []PromptFits
<1>1. RuntimeInv => PromptFits
  <2> SUFFICES ASSUME RuntimeInv, NEW c \in Contexts, NEW prompt \in Prompts,
                      audit_tokens(c, prompt)
               PROVE  /\ Len(prompt) * ctx[c].m_params[2] * 2 * 2
                           <= ctx[c].m_allocated_bytes
                      /\ ctx[c].m_params[3] > 0 =>
                           \/ ctx[c].m_gpu_context_ptr \in DOMAIN regions
                           \/ ctx[c].m_gpu_context_ptr \in forgotten
    BY DEF PromptFits
  <2> DEFINE p == ctx[c].m_params
             n == p[1]
             e == p[2]
             ptr == ctx[c].m_gpu_context_ptr
  <2>1. /\ p \in ContextParams /\ Acceptable(p)
        /\ ctx[c].m_allocated_bytes = required_bytes(n, e)
        /\ p[3] > 0 /\ ctx[c].m_allocated_bytes # 0 => ptr # Null
    BY DEF RuntimeInv, ContextsSized, audit_tokens
  <2>2. n \in Word /\ e \in Word /\ n \in Nat \ {0} /\ e \in Nat \ {0}
    BY <2>1, LlamaAssumption, WordFacts DEF Acceptable, Valid
  <2>3. n * e * 2 < SizeMod
    BY <2>1, BoundedCalls
  <2>4. Len(prompt) \in Nat /\ Len(prompt) <= n
    BY LlamaAssumption DEF audit_tokens
  <2>a. required_bytes(n, e) # -1
    BY <2>1 DEF Acceptable
  <2> HIDE DEF p, n, e
  <2> DEFINE l == Len(prompt)
  <2>5. n * e \in Nat \ {0} /\ l * e \in Nat /\ l * e <= n * e
    BY <2>2, <2>4, ProductMonotone
  <2>6. n * e * 2 \in Word /\ Wrap(n * e * 2) = n * e * 2
    BY <2>3, <2>5, WrapFacts, WordFacts DEF Word
  <2>7. required_bytes(n, e) = n * e * 2 * 2
    BY <2>a, <2>6 DEF required_bytes
  <2>8. /\ l * e * 2 * 2 <= ctx[c].m_allocated_bytes
        /\ ctx[c].m_allocated_bytes # 0
    BY <2>1, <2>5, <2>7 DEF n, e
  <2>9. ASSUME p[3] > 0
        PROVE  ptr \in DOMAIN regions \/ ptr \in forgotten
    <3>1. ptr # Null
      BY <2>1, <2>8, <2>9
    <3>2. << "llama", c, ptr, ctx[c].m_allocated_bytes >> \in Holdings
      BY <3>1 DEF Holdings, LlamaHoldings
    <3> QED BY <3>1, <3>2 DEF RuntimeInv, RecordsInv, RecordsBacked, Sound
  <2> QED BY <2>8, <2>9 DEF p, n, e
<1> QED BY <1>1, RuntimeInvariant, PTL

=============================================================================
