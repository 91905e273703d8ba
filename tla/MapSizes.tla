------------------------------ MODULE MapSizes ------------------------------
(***************************************************************************)
(* Sizes and creation checks of array and hash maps, in the unsigned       *)
(* arithmetic of the code: shims/kernel/bpf/arraymap.c, hashtab.c and      *)
(* syscall.c.  The word size and the limits are parameters, so that every  *)
(* value of a small word can be tried; the assumption says how the limits  *)
(* of the source lie in a word.                                            *)
(***************************************************************************)
EXTENDS Naturals

CONSTANTS Word,        \* 2^32
          Align,       \* 8
          PcpuMin,     \* PCPU_MIN_UNIT_SIZE
          KmallocMax,  \* KMALLOC_MAX_SIZE
          ElemHeader,  \* sizeof(struct htab_elem)
          NrCpus       \* num_possible_cpus()

SizeAssumption ==
  /\ Word \in Nat /\ Align \in Nat \ {0} /\ PcpuMin \in Nat
  /\ KmallocMax \in Nat /\ ElemHeader \in Nat /\ NrCpus \in Nat \ {0}
  /\ Word % Align = 0 /\ PcpuMin % Align = 0
  /\ 2 * Align <= Word
  /\ NrCpus * PcpuMin < Word
  /\ ElemHeader < KmallocMax /\ KmallocMax + Align <= Word

U32 == 0 .. Word - 1
IntMax == Word \div 2 - 1

CreateFlag == {"NO_PREALLOC", "NO_COMMON_LRU", "NUMA_NODE", "RDONLY", "WRONLY", "ZERO_SEED",
               "RDONLY_PROG", "WRONLY_PROG", "MMAPABLE", "PRESERVE_ELEMS", "INNER_MAP"}

AccessMask == {"RDONLY", "RDONLY_PROG", "WRONLY", "WRONLY_PROG"}

ArrayType == {"ARRAY", "PERCPU_ARRAY", "PERF_EVENT_ARRAY"}
HashType == {"HASH", "PERCPU_HASH", "LRU_HASH", "LRU_PERCPU_HASH", "HASH_OF_MAPS"}

\* round_up(x, 8) on u32
RoundUp(x) == (((x + Align - 1) % Word) \div Align) * Align

\* bpf_map_flags_access_ok()
AccessOk(flags) == ~ ({"RDONLY_PROG", "WRONLY_PROG"} \subseteq flags)

\* array_map_alloc_check() = 0.  Every node but NUMA_NO_NODE counts as one.
ArrayAllocCheck(a) ==
  /\ a.max_entries # 0 /\ a.key_size = 4 /\ a.value_size # 0
  /\ a.flags \subseteq {"NUMA_NODE", "MMAPABLE", "PRESERVE_ELEMS", "INNER_MAP"} \cup AccessMask
  /\ AccessOk(a.flags)
  /\ ~ (a.type = "PERCPU_ARRAY" /\ "NUMA_NODE" \in a.flags)
  /\ a.type # "ARRAY" => a.flags \cap {"MMAPABLE", "INNER_MAP"} = {}
  /\ a.type # "PERF_EVENT_ARRAY" => "PRESERVE_ELEMS" \notin a.flags
  /\ a.value_size <= IntMax
  /\ a.type = "PERCPU_ARRAY" => RoundUp(a.value_size) <= PcpuMin

\* htab_map_alloc_check() = 0.  capable() is false in the shim, so
\* BPF_F_ZERO_SEED is always refused.
HtabAllocCheck(a) ==
  LET lru    == a.type \in {"LRU_HASH", "LRU_PERCPU_HASH"}
      percpu == a.type \in {"PERCPU_HASH", "LRU_PERCPU_HASH"}
  IN  /\ a.flags \subseteq {"NO_PREALLOC", "NO_COMMON_LRU", "NUMA_NODE"} \cup AccessMask
      /\ AccessOk(a.flags)
      /\ "NO_COMMON_LRU" \in a.flags => lru
      /\ lru => "NO_PREALLOC" \notin a.flags
      /\ "NUMA_NODE" \in a.flags => ~ percpu /\ "NO_COMMON_LRU" \notin a.flags
      /\ a.max_entries # 0 /\ a.key_size # 0 /\ a.value_size # 0
      /\ a.key_size + a.value_size < KmallocMax - ElemHeader
      /\ percpu => RoundUp(a.value_size) <= PcpuMin

AllocCheck(a) == IF a.type \in ArrayType THEN ArrayAllocCheck(a) ELSE HtabAllocCheck(a)
=============================================================================
