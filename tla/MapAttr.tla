------------------------------ MODULE MapAttr -------------------------------
(***************************************************************************)
(* shims/kernel/bpf/syscall.c, the map side: a map is created from user    *)
(* attributes and then operated on through a buffer whose size the code    *)
(* derives from the map and the operation's flags.  The checks that make   *)
(* that size right are in another file than the size: the per-type         *)
(* allocation checks of arraymap.c and hashtab.c.                          *)
(***************************************************************************)
EXTENDS MapSizes

CONSTANTS Sizes,      \* value sizes users ask for
          FlagSets,   \* combinations of creation flags
          CpuNumbers  \* values of flags >> 32

AttrAssumption == Sizes \subseteq U32 /\ FlagSets \subseteq SUBSET CreateFlag

OpFlag == {"LOCK", "CPU", "ALL_CPUS"}
Allowed == [lookup |-> {"LOCK", "CPU"}, update |-> OpFlag]

VARIABLES map,  \* struct bpf_map, or None
          op    \* the operation that passed the check last, with its buffer

vars == <<map, op>>

None == [type |-> "none"]
-----------------------------------------------------------------------------
\* bpf_map_flags_retain_permanent()
RetainPermanent(flags) == flags \ {"RDONLY", "WRONLY"}

\* bpf_map_supports_cpu_flags(), the map types modelled here
SupportsCpuFlags(type) == type \in {"PERCPU_ARRAY", "PERCPU_HASH", "LRU_PERCPU_HASH"}

\* IS_FD_MAP()
IsFdMap(type) == type \in {"PERF_EVENT_ARRAY", "HASH_OF_MAPS"}

\* bpf_map_value_size()
MapValueSize(m, flags) ==
  IF flags \cap {"CPU", "ALL_CPUS"} # {} THEN m.value_size
  ELSE IF m.type \in {"PERCPU_HASH", "LRU_PERCPU_HASH", "PERCPU_ARRAY"}
       THEN (RoundUp(m.value_size) * NrCpus) % Word
  ELSE IF IsFdMap(m.type) THEN 4 ELSE m.value_size

\* bpf_map_check_op_flags() = 0.  cpu is flags >> 32.
CheckOpFlags(m, flags, cpu, allowed) ==
  /\ flags \subseteq allowed
  /\ "LOCK" \in flags => m.spin_lock
  /\ "CPU" \notin flags => cpu = 0
  /\ flags \cap {"CPU", "ALL_CPUS"} # {} =>
       /\ SupportsCpuFlags(m.type)
       /\ ~ ({"CPU", "ALL_CPUS"} \subseteq flags)
       /\ "CPU" \in flags => cpu < NrCpus
-----------------------------------------------------------------------------
Init == map = None /\ op = None

\* bpf_get_file_flag() and the type's allocation check accept the request;
\* bpf_map_init_from_attr() fills the map.
Create(a) ==
  /\ map = None
  /\ ~ ({"RDONLY", "WRONLY"} \subseteq a.flags)
  /\ AllocCheck(a)
  /\ map' = [a EXCEPT !.flags = RetainPermanent(@)]
  /\ UNCHANGED op

\* The system call checks the flags and sizes the buffer before the map's
\* operation runs.
Operate(kind, flags, cpu) ==
  /\ map # None
  /\ CheckOpFlags(map, flags, cpu, Allowed[kind])
  /\ op' = [type |-> kind, flags |-> flags, cpu |-> cpu, buffer |-> MapValueSize(map, flags)]
  /\ UNCHANGED map

Attrs == [type : ArrayType \cup HashType, key_size : {0, 4}, value_size : Sizes,
          max_entries : {0, 1}, flags : FlagSets, spin_lock : BOOLEAN]

Next == \/ map = None /\ \E a \in Attrs : Create(a)
        \/ \E kind \in DOMAIN Allowed, flags \in SUBSET OpFlag, cpu \in CpuNumbers :
             Operate(kind, flags, cpu)

Spec == Init /\ [][Next]_vars
-----------------------------------------------------------------------------
(* Properties *)

PerCpu == map.type \in {"PERCPU_ARRAY", "PERCPU_HASH", "LRU_PERCPU_HASH"}

\* round_up() does not wrap for an accepted map: an element's slot holds its
\* value.  arraymap.c's "avoid overflow on round_up" and hashtab.c's sum in 64
\* bits are what it rests on.
SlotHoldsValue == map # None => RoundUp(map.value_size) >= map.value_size

\* The buffer the system call allocates is, to the byte, what the per-CPU copy
\* loop fills: one padded value per CPU, or a single value when a CPU flag
\* was accepted.  The product in 32 bits does not wrap for an accepted map.
BufferExact ==
  op # None =>
    op.buffer = IF op.flags \cap {"CPU", "ALL_CPUS"} # {} THEN map.value_size
                ELSE IF PerCpu THEN NrCpus * ((map.value_size + Align - 1) \div Align) * Align
                ELSE IF IsFdMap(map.type) THEN 4
                ELSE map.value_size

\* A CPU flag reaches only a map that has a value for that CPU.
CpuFlagInRange ==
  op # None /\ op.flags \cap {"CPU", "ALL_CPUS"} # {} => PerCpu /\ op.cpu < NrCpus

=============================================================================
