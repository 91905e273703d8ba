---------------------------- MODULE HelperProtos ----------------------------
(***************************************************************************)
(* The helpers a program may call (kernel/bpf/helpers.c,                   *)
(* bpf_base_func_proto) and the prototypes they declare, handed to the     *)
(* verifier shim's check. The two shims are separate translation units     *)
(* with their own enums; argument types meet here by name. EnumValue below *)
(* is the number that helpers.c itself gives a name.                       *)
(***************************************************************************)
EXTENDS FuncProto, Sequences, SequencesExt

VARIABLES caps, sleepable, func_id, proto

allVars == <<vars, caps, sleepable, func_id, proto>>

Capability == {"CAP_BPF", "CAP_PERFMON"}

Plain(base) == Arg(base, {}, 0)

Mem(flags) == Arg("PTR_TO_MEM", flags, 0)

UninitMem == Mem({"MEM_UNINIT", "MEM_WRITE"})

FixedMem == Arg("PTR_TO_MEM", {"MEM_FIXED_SIZE", "MEM_UNINIT", "MEM_WRITE", "MEM_ALIGNED"}, 8)

\* The argument lists; a prototype not listed declares no arguments.
MapArgs ==
  [map_lookup_elem |-> <<Plain("CONST_MAP_PTR"), Plain("PTR_TO_MAP_KEY")>>,
   map_update_elem |-> <<Plain("CONST_MAP_PTR"), Plain("PTR_TO_MAP_KEY"),
                         Plain("PTR_TO_MAP_VALUE"), Plain("ANYTHING")>>,
   map_delete_elem |-> <<Plain("CONST_MAP_PTR"), Plain("PTR_TO_MAP_KEY")>>,
   map_push_elem |-> <<Plain("CONST_MAP_PTR"), Plain("PTR_TO_MAP_VALUE"), Plain("ANYTHING")>>,
   map_pop_elem |-> <<Plain("CONST_MAP_PTR"),
                      Arg("PTR_TO_MAP_VALUE", {"MEM_UNINIT", "MEM_WRITE"}, 0)>>,
   map_peek_elem |-> <<Plain("CONST_MAP_PTR"),
                       Arg("PTR_TO_MAP_VALUE", {"MEM_UNINIT", "MEM_WRITE"}, 0)>>,
   map_lookup_percpu_elem |-> <<Plain("CONST_MAP_PTR"), Plain("PTR_TO_MAP_KEY"),
                                Plain("ANYTHING")>>]

StringArgs ==
  [get_current_comm |-> <<UninitMem, Plain("CONST_SIZE")>>,
   strtol |-> <<Mem({"MEM_RDONLY"}), Plain("CONST_SIZE"), Plain("ANYTHING"), FixedMem>>,
   strtoul |-> <<Mem({"MEM_RDONLY"}), Plain("CONST_SIZE"), Plain("ANYTHING"), FixedMem>>,
   strncmp |-> <<Mem({"MEM_RDONLY"}), Plain("CONST_SIZE"), Plain("PTR_TO_CONST_STR")>>,
   get_ns_current_pid_tgid |-> <<Plain("ANYTHING"), Plain("ANYTHING"), UninitMem,
                                 Plain("CONST_SIZE")>>]

TaskArgs ==
  [spin_lock |-> <<Plain("PTR_TO_SPIN_LOCK")>>,
   spin_unlock |-> <<Plain("PTR_TO_SPIN_LOCK")>>,
   get_current_ancestor_cgroup_id |-> <<Plain("ANYTHING")>>,
   event_output_data |-> <<Plain("PTR_TO_CTX"), Plain("CONST_MAP_PTR"), Plain("ANYTHING"),
                           Mem({"MEM_RDONLY"}), Plain("CONST_SIZE_OR_ZERO")>>,
   copy_from_user |-> <<UninitMem, Plain("CONST_SIZE_OR_ZERO"), Plain("ANYTHING")>>,
   copy_from_user_task |-> <<UninitMem, Plain("CONST_SIZE_OR_ZERO"), Plain("ANYTHING"),
                             Arg("PTR_TO_BTF_ID", {}, 2), Plain("ANYTHING")>>,
   per_cpu_ptr |-> <<Plain("PTR_TO_PERCPU_BTF_ID"), Plain("ANYTHING")>>,
   this_cpu_ptr |-> <<Plain("PTR_TO_PERCPU_BTF_ID")>>,
   snprintf |-> <<Mem({"PTR_MAYBE_NULL", "MEM_WRITE"}), Plain("CONST_SIZE_OR_ZERO"),
                  Plain("PTR_TO_CONST_STR"), Mem({"PTR_MAYBE_NULL", "MEM_RDONLY"}),
                  Plain("CONST_SIZE_OR_ZERO")>>,
   kptr_xchg |-> <<Plain("KPTR_XCHG_DEST"),
                   Arg("PTR_TO_BTF_ID", {"PTR_MAYBE_NULL", "OBJ_RELEASE"}, 0)>>]

Declared(p) ==
  CASE p \in DOMAIN MapArgs -> MapArgs[p]
    [] p \in DOMAIN StringArgs -> StringArgs[p]
    [] p \in DOMAIN TaskArgs -> TaskArgs[p]
    [] OTHER -> <<>>

ArgsOf(p) == [i \in Index |-> IF i <= Len(Declared(p)) THEN Declared(p)[i] ELSE DontCare]

\* What every program may call.
BaseHelpers ==
  DOMAIN MapArgs \cup
  {"get_prandom_u32", "get_smp_processor_id", "get_numa_node_id", "tail_call",
   "ktime_get_ns", "ktime_get_boot_ns", "ktime_get_tai_ns", "ringbuf_output",
   "ringbuf_reserve", "ringbuf_submit", "ringbuf_discard", "ringbuf_query", "strncmp",
   "strtol", "strtoul", "get_current_pid_tgid", "get_ns_current_pid_tgid",
   "get_current_uid_gid"}

\* What CAP_BPF adds.
BpfHelpers ==
  {"spin_lock", "spin_unlock", "jiffies64", "per_cpu_ptr", "this_cpu_ptr", "timer_init",
   "timer_set_callback", "timer_start", "timer_cancel", "kptr_xchg", "for_each_map_elem",
   "loop", "user_ringbuf_drain", "ringbuf_reserve_dynptr", "ringbuf_submit_dynptr",
   "ringbuf_discard_dynptr", "dynptr_from_mem", "dynptr_read", "dynptr_write",
   "dynptr_data", "cgrp_storage_get", "cgrp_storage_delete", "get_current_cgroup_id",
   "get_current_ancestor_cgroup_id", "current_task_under_cgroup", "task_storage_get",
   "task_storage_delete"}

\* What CAP_PERFMON adds to both.
PerfmonHelpers ==
  {"trace_printk", "get_current_task", "get_current_task_btf", "get_current_comm",
   "probe_read_user", "probe_read_kernel", "probe_read_user_str", "probe_read_kernel_str",
   "copy_from_user", "copy_from_user_task", "snprintf_btf", "snprintf", "task_pt_regs",
   "trace_vprintk", "perf_event_read", "send_signal", "send_signal_thread",
   "get_task_stack", "get_branch_snapshot", "find_vma"}

\* The prototype behind a helper; most helpers have one of their own name.
ProtoOf(f, sleeps) ==
  CASE f = "get_smp_processor_id" -> "get_raw_smp_processor_id"
    [] f = "trace_printk" -> "probe_read_user"
    [] f = "trace_vprintk" -> "probe_read_user_str"
    [] f = "get_task_stack" /\ sleeps -> "get_task_stack_sleepable"
    [] OTHER -> f

bpf_base_func_proto(f, held, sleeps) ==
  IF \/ f \in BaseHelpers
     \/ "CAP_BPF" \in held /\ f \in BpfHelpers
     \/ "CAP_BPF" \in held /\ "CAP_PERFMON" \in held /\ f \in PerfmonHelpers
  THEN ProtoOf(f, sleeps) ELSE "NULL"

HelperInit ==
  /\ Init
  /\ caps \in SUBSET Capability
  /\ sleepable \in BOOLEAN
  /\ func_id = "unspec"
  /\ proto = "NULL"

\* A program asks for a helper; without a prototype nothing is checked.
Call(f) ==
  /\ func_id = "unspec"
  /\ func_id' = f
  /\ proto' = bpf_base_func_proto(f, caps, sleepable)
  /\ UNCHANGED <<caps, sleepable>>
  /\ IF proto' = "NULL" THEN UNCHANGED vars ELSE Check(ArgsOf(proto'))

HelperNext == \E f \in BaseHelpers \cup BpfHelpers \cup PerfmonHelpers : Call(f)

HelperSpec == HelperInit /\ [][HelperNext]_allVars
-----------------------------------------------------------------------------
(* The prototypes the shim hands out are ones the verifier shim accepts, but   *)
(* for the three whose annotation the shim leaves out (arg1_btf_id of the     *)
(* spin locks, arg2_btf_id of kptr_xchg).                                      *)
HelpersWellFormed ==
  ret # "none" => (Accepted <=> func_id \notin {"spin_lock", "spin_unlock", "kptr_xchg"})

ReadsForeignMemory ==
  {"probe_read_user", "probe_read_kernel", "probe_read_user_str", "probe_read_kernel_str",
   "copy_from_user", "copy_from_user_task", "get_task_stack", "get_task_stack_sleepable",
   "get_current_task", "get_current_task_btf"}

(* Whatever id a program asks with, aliases included, it gets a prototype     *)
(* that reads other memory only if it holds both capabilities.                *)
ForeignReadsNeedBoth == proto \in ReadsForeignMemory => caps = Capability
-----------------------------------------------------------------------------
(* The enumerators of helpers.c in their order. A flagged name is a given      *)
(* value; an unflagged one after it is one more than the value before it.      *)
EnumNames ==
  <<"DONTCARE", "CONST_MAP_PTR", "PTR_TO_MAP_KEY", "PTR_TO_MAP_VALUE", "PTR_TO_MEM",
    "PTR_TO_CTX", "ANYTHING", "PTR_TO_SPIN_LOCK", "CONST_SIZE", "CONST_SIZE_OR_ZERO",
    "PTR_TO_FIXED_SIZE_MEM", "PTR_TO_CONST_STR", "PTR_TO_UNINIT_MEM", "PTR_TO_MEM_OR_NULL",
    "PTR_TO_PERCPU_BTF_ID", "PTR_TO_BTF_ID", "PTR_TO_BTF_ID_OR_NULL", "PTR_TO_DYNPTR",
    "PTR_TO_TIMER", "PTR_TO_FUNC", "CONST_ALLOC_SIZE_OR_ZERO", "KPTR_XCHG_DEST">>

\* PTR_MAYBE_NULL is the first bit above the eight of the base type.
MaybeNull == 256
OrMaybeNull(v) == IF v >= MaybeNull THEN v ELSE MaybeNull + v

EnumValue ==
  LET value[i \in DOMAIN EnumNames] ==
        CASE i = 1 -> 0
          [] EnumNames[i] = "PTR_TO_UNINIT_MEM" -> 4
          [] EnumNames[i] = "PTR_TO_MEM_OR_NULL" -> OrMaybeNull(4)
          [] EnumNames[i] = "PTR_TO_BTF_ID_OR_NULL" -> OrMaybeNull(value[i - 1])
          [] OTHER -> value[i - 1] + 1
  IN [n \in ToSet(EnumNames) |-> value[CHOOSE i \in DOMAIN EnumNames : EnumNames[i] = n]]

\* helpers.c's own number says that an argument may be NULL.
EncodedNullable(a) ==
  \/ "PTR_MAYBE_NULL" \in a.flags
  \/ a.base \in DOMAIN EnumValue /\ EnumValue[a.base] >= MaybeNull

(* The form that allows NULL is the plain form with the flag added:            *)
(* "ARG_PTR_TO_BTF_ID_OR_NULL = PTR_MAYBE_NULL | ARG_PTR_TO_BTF_ID". So an     *)
(* argument declared with the plain form is not encoded as one that may be     *)
(* NULL.                                                                        *)
NullOnlyWhereDeclared ==
  \A i \in Index : EncodedNullable(fn[i]) => "PTR_MAYBE_NULL" \in fn[i].flags
=============================================================================
