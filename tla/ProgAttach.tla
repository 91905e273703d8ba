----------------------------- MODULE ProgAttach -----------------------------
(***************************************************************************)
(* shims/kernel/bpf/syscall.c, the program side: what a load request may   *)
(* say about the hook the program is for, what capability its type needs,  *)
(* and at which hooks the loaded program may be attached later.  The code  *)
(* keeps the answers in six independent switch statements; each is a table *)
(* below, and the properties relate one table to another over the life of  *)
(* a program: load, verification, attachment.                              *)
(*                                                                         *)
(* Names are the source's without BPF_PROG_TYPE_ and BPF_.  The            *)
(* capability checks on load are bpf_prog_load()'s, which is outside the   *)
(* repository: it asks is_net_admin_prog_type() and                        *)
(* is_perfmon_prog_type() and returns -EPERM.                              *)
(***************************************************************************)
EXTENDS Naturals, FiniteSets

CONSTANT MaxLinks  \* bound: links that hold one program at a time

AttachAssumption == MaxLinks \in Nat

ProgType ==
  {"UNSPEC", "SOCKET_FILTER", "KPROBE", "SCHED_CLS", "SCHED_ACT", "TRACEPOINT", "XDP",
   "PERF_EVENT", "CGROUP_SKB", "CGROUP_SOCK", "LWT_IN", "LWT_OUT", "LWT_XMIT", "SOCK_OPS",
   "SK_SKB", "CGROUP_DEVICE", "SK_MSG", "RAW_TRACEPOINT", "CGROUP_SOCK_ADDR",
   "LWT_SEG6LOCAL", "LIRC_MODE2", "SK_REUSEPORT", "FLOW_DISSECTOR", "CGROUP_SYSCTL",
   "RAW_TRACEPOINT_WRITABLE", "CGROUP_SOCKOPT", "TRACING", "STRUCT_OPS", "EXT", "LSM",
   "SK_LOOKUP", "SYSCALL", "NETFILTER"}

SockAddrHook ==
  {"CGROUP_INET4_BIND", "CGROUP_INET6_BIND", "CGROUP_INET4_CONNECT",
   "CGROUP_INET6_CONNECT", "CGROUP_UNIX_CONNECT", "CGROUP_INET4_GETPEERNAME",
   "CGROUP_INET6_GETPEERNAME", "CGROUP_UNIX_GETPEERNAME", "CGROUP_INET4_GETSOCKNAME",
   "CGROUP_INET6_GETSOCKNAME", "CGROUP_UNIX_GETSOCKNAME", "CGROUP_UDP4_SENDMSG",
   "CGROUP_UDP6_SENDMSG", "CGROUP_UNIX_SENDMSG", "CGROUP_UDP4_RECVMSG",
   "CGROUP_UDP6_RECVMSG", "CGROUP_UNIX_RECVMSG"}

CgroupHook ==
  SockAddrHook \cup
  {"CGROUP_INET_INGRESS", "CGROUP_INET_EGRESS", "CGROUP_INET_SOCK_CREATE", "CGROUP_SOCK_OPS",
   "CGROUP_DEVICE", "CGROUP_INET4_POST_BIND", "CGROUP_INET6_POST_BIND", "CGROUP_SYSCTL",
   "CGROUP_GETSOCKOPT", "CGROUP_SETSOCKOPT", "CGROUP_INET_SOCK_RELEASE", "LSM_CGROUP"}

AttachType ==
  CgroupHook \cup
  {"SK_SKB_STREAM_PARSER", "SK_SKB_STREAM_VERDICT", "SK_MSG_VERDICT", "LIRC_MODE2",
   "FLOW_DISSECTOR", "TRACE_RAW_TP", "TRACE_FENTRY", "TRACE_FEXIT", "MODIFY_RETURN",
   "LSM_MAC", "TRACE_ITER", "XDP_DEVMAP", "XDP_CPUMAP", "SK_LOOKUP", "XDP",
   "SK_SKB_VERDICT", "SK_REUSEPORT_SELECT", "SK_REUSEPORT_SELECT_OR_MIGRATE",
   "PERF_EVENT", "TRACE_KPROBE_MULTI", "STRUCT_OPS", "NETFILTER", "TCX_INGRESS",
   "TCX_EGRESS", "TRACE_UPROBE_MULTI", "NETKIT_PRIMARY", "NETKIT_PEER",
   "TRACE_KPROBE_SESSION", "TRACE_UPROBE_SESSION", "TRACE_FSESSION",
   "TRACE_FENTRY_MULTI", "TRACE_FEXIT_MULTI", "TRACE_FSESSION_MULTI"}

\* The enumeration has no "unspecified": its zero is a hook.
Zero == "CGROUP_INET_INGRESS"

Caps == {"NET_ADMIN", "PERFMON"}

VARIABLES
  request,  \* the attributes of the load under way
  prog,     \* struct bpf_prog, once loaded
  stage,    \* "none", "requested", "fixed", "loaded", "refused"
  hooks     \* where links hold the program: their attach_type

vars == <<request, prog, stage, hooks>>
-----------------------------------------------------------------------------
(* The tables *)

\* bpf_prog_load_fixup_attach_type()
LoadFixup(type, hook) ==
  IF type = "CGROUP_SOCK" /\ hook = Zero THEN "CGROUP_INET_SOCK_CREATE"
  ELSE IF type = "SK_REUSEPORT" /\ hook = Zero THEN "SK_REUSEPORT_SELECT"
  ELSE hook

\* Mutant of LoadHooks: the socket-option programs may name the sysctl hook.
LoadHooksWide(type) ==
  IF type = "CGROUP_SOCKOPT"
  THEN {"CGROUP_SETSOCKOPT", "CGROUP_GETSOCKOPT", "CGROUP_SYSCTL"}
  ELSE IF type = "CGROUP_SOCK_ADDR" THEN SockAddrHook ELSE AttachType

\* bpf_prog_load_check_attach(), its switch: the hooks a load may name.
LoadHooks(type) ==
  CASE type = "CGROUP_SOCK" -> {"CGROUP_INET_SOCK_CREATE", "CGROUP_INET_SOCK_RELEASE",
                                "CGROUP_INET4_POST_BIND", "CGROUP_INET6_POST_BIND"}
    [] type = "CGROUP_SOCK_ADDR" -> SockAddrHook
    [] type = "CGROUP_SKB"       -> {"CGROUP_INET_INGRESS", "CGROUP_INET_EGRESS"}
    [] type = "CGROUP_SOCKOPT"   -> {"CGROUP_SETSOCKOPT", "CGROUP_GETSOCKOPT"}
    [] type = "SK_LOOKUP"        -> {"SK_LOOKUP"}
    [] type = "SK_REUSEPORT"     -> {"SK_REUSEPORT_SELECT", "SK_REUSEPORT_SELECT_OR_MIGRATE"}
    [] type = "NETFILTER"        -> {"NETFILTER"}
    [] type \in {"SYSCALL", "EXT"} -> {Zero}
    [] OTHER                     -> AttachType

\* bpf_prog_load_check_attach() = 0.  btf_id is 0, valid (1) or above
\* BTF_MAX_TYPE (2).
LoadCheck(q) ==
  /\ q.btf_id # 0 => /\ q.btf_id = 1
                     /\ q.btf \/ q.dst
                     /\ q.type \in {"TRACING", "LSM", "STRUCT_OPS", "EXT"}
  /\ IF q.multi THEN q.type = "TRACING" /\ q.btf /\ q.btf_id = 0
     ELSE /\ q.btf => q.btf_id # 0 /\ ~ q.dst
          /\ q.dst => q.type \in {"TRACING", "EXT"}
          /\ q.hook \in LoadHooks(q.type)

\* attach_type_to_prog_type()
HookTable ==
  [CGROUP_SKB       |-> {"CGROUP_INET_INGRESS", "CGROUP_INET_EGRESS"},
   CGROUP_SOCK      |-> {"CGROUP_INET_SOCK_CREATE", "CGROUP_INET_SOCK_RELEASE",
                         "CGROUP_INET4_POST_BIND", "CGROUP_INET6_POST_BIND"},
   CGROUP_SOCK_ADDR |-> SockAddrHook,
   SOCK_OPS         |-> {"CGROUP_SOCK_OPS"},
   CGROUP_DEVICE    |-> {"CGROUP_DEVICE"},
   SK_MSG           |-> {"SK_MSG_VERDICT"},
   SK_SKB           |-> {"SK_SKB_STREAM_PARSER", "SK_SKB_STREAM_VERDICT", "SK_SKB_VERDICT"},
   LIRC_MODE2       |-> {"LIRC_MODE2"},
   FLOW_DISSECTOR   |-> {"FLOW_DISSECTOR"},
   CGROUP_SYSCTL    |-> {"CGROUP_SYSCTL"},
   CGROUP_SOCKOPT   |-> {"CGROUP_GETSOCKOPT", "CGROUP_SETSOCKOPT"},
   TRACING          |-> {"TRACE_ITER", "TRACE_RAW_TP", "TRACE_FENTRY", "TRACE_FEXIT",
                         "TRACE_FSESSION", "TRACE_FSESSION_MULTI", "TRACE_FENTRY_MULTI",
                         "TRACE_FEXIT_MULTI", "MODIFY_RETURN"},
   LSM              |-> {"LSM_MAC", "LSM_CGROUP"},
   SK_LOOKUP        |-> {"SK_LOOKUP"},
   XDP              |-> {"XDP"},
   SCHED_CLS        |-> {"TCX_INGRESS", "TCX_EGRESS", "NETKIT_PRIMARY", "NETKIT_PEER"}]

HookProgType(hook) ==
  IF \E t \in DOMAIN HookTable : hook \in HookTable[t]
  THEN CHOOSE t \in DOMAIN HookTable : hook \in HookTable[t]
  ELSE "UNSPEC"

ProbeHook == {"TRACE_KPROBE_MULTI", "TRACE_KPROBE_SESSION",
              "TRACE_UPROBE_MULTI", "TRACE_UPROBE_SESSION"}

\* bpf_prog_attach_check_attach_type() = 0
AttachCheck(p, hook) ==
  CASE p.type \in {"CGROUP_SOCK", "CGROUP_SOCK_ADDR", "CGROUP_SOCKOPT", "SK_LOOKUP"} ->
         hook = p.hook
    [] p.type = "CGROUP_SKB" ->
         /\ "NET_ADMIN" \in p.caps
         /\ HookProgType(hook) = p.type
         /\ p.enforce => p.hook = hook
    [] p.type = "EXT" -> TRUE
    [] p.type = "NETFILTER" -> hook = "NETFILTER"
    [] p.type \in {"PERF_EVENT", "TRACEPOINT"} -> hook = "PERF_EVENT"
    [] p.type = "KPROBE" ->
         /\ p.hook \in ProbeHook => hook = p.hook
         /\ hook \in {"PERF_EVENT"} \cup ProbeHook
    [] p.type = "SCHED_CLS" ->
         hook \in {"TCX_INGRESS", "TCX_EGRESS", "NETKIT_PRIMARY", "NETKIT_PEER"}
    [] OTHER -> HookProgType(hook) # "UNSPEC" /\ HookProgType(hook) = p.type

\* is_cgroup_prog_type(type, hook, check_atype = true)
IsCgroupProg(type, hook) ==
  \/ type \in {"CGROUP_DEVICE", "CGROUP_SKB", "CGROUP_SOCK", "CGROUP_SOCK_ADDR",
               "CGROUP_SOCKOPT", "CGROUP_SYSCTL", "SOCK_OPS"}
  \/ type = "LSM" /\ hook = "LSM_CGROUP"

\* is_net_admin_prog_type()
NeedsNetAdmin(type) ==
  type \in {"SCHED_CLS", "SCHED_ACT", "XDP", "LWT_IN", "LWT_OUT", "LWT_XMIT",
            "LWT_SEG6LOCAL", "SK_SKB", "SK_MSG", "FLOW_DISSECTOR", "CGROUP_DEVICE",
            "CGROUP_SOCK", "CGROUP_SOCK_ADDR", "CGROUP_SOCKOPT", "CGROUP_SYSCTL",
            "SOCK_OPS", "EXT", "NETFILTER"}

\* is_perfmon_prog_type()
NeedsPerfmon(type) ==
  type \in {"KPROBE", "TRACEPOINT", "PERF_EVENT", "RAW_TRACEPOINT",
            "RAW_TRACEPOINT_WRITABLE", "TRACING", "LSM", "STRUCT_OPS", "EXT"}
-----------------------------------------------------------------------------
(* The life of a program *)

None == [type |-> "UNSPEC"]

Init == request = None /\ prog = None /\ stage = "none" /\ hooks = {}

Requests == [type : ProgType \ {"UNSPEC"}, hook : AttachType, btf : BOOLEAN, btf_id : 0 .. 2,
             dst : BOOLEAN, multi : BOOLEAN, caps : SUBSET Caps]

Request ==
  /\ stage = "none"
  /\ request' \in Requests
  /\ stage' = "requested"
  /\ UNCHANGED <<prog, hooks>>

Fixup ==
  /\ stage = "requested"
  /\ request' = [request EXCEPT !.hook = LoadFixup(request.type, @)]
  /\ stage' = "fixed"
  /\ UNCHANGED <<prog, hooks>>

\* bpf_token_capable(): a token with CAP_SYS_ADMIN has both.
MayLoad(q) ==
  /\ NeedsNetAdmin(q.type) => "NET_ADMIN" \in q.caps
  /\ NeedsPerfmon(q.type) => "PERFMON" \in q.caps

\* The verifier may bind an egress program to its hook, by what it returns.
Load(enforce) ==
  /\ stage = "fixed"
  /\ LoadCheck(request) /\ MayLoad(request)
  /\ enforce => request.type = "CGROUP_SKB" /\ request.hook = "CGROUP_INET_EGRESS"
  /\ prog' = [type |-> request.type, hook |-> request.hook, caps |-> request.caps,
              dst |-> request.dst, enforce |-> enforce]
  /\ request' = None
  /\ stage' = "loaded"
  /\ UNCHANGED hooks

Refuse ==
  /\ stage = "fixed"
  /\ ~ (LoadCheck(request) /\ MayLoad(request))
  /\ stage' = "refused"
  /\ UNCHANGED <<request, prog, hooks>>

\* A successful check is followed by bpf_link_init() with the hook.
Attach(hook) ==
  /\ stage = "loaded"
  /\ Cardinality(hooks) < MaxLinks
  /\ AttachCheck(prog, hook)
  /\ hooks' = hooks \cup {hook}
  /\ UNCHANGED <<request, prog, stage>>

Next == \/ Request
        \/ Fixup
        \/ \E enforce \in BOOLEAN : Load(enforce)
        \/ Refuse
        \/ \E hook \in AttachType : Attach(hook)

Spec == Init /\ [][Next]_vars
-----------------------------------------------------------------------------
(* Properties *)

\* The program types that a load binds to a set of hooks.
Strict == {t \in ProgType : LoadHooks(t) # AttachType} \ {"SYSCALL", "EXT"}

\* What the load check accepts the attach check accepts: a program of a type
\* that must name its hook can be attached there, by whoever may attach it.
\* SK_REUSEPORT programs are attached by a socket option and have no entry.
LoadableIsAttachable ==
  stage = "loaded" /\ prog.type \in Strict \ {"SK_REUSEPORT"} /\ "NET_ADMIN" \in prog.caps =>
    AttachCheck(prog, prog.hook)

\* No program gets to a hook that attach_type_to_prog_type() gives to another
\* type, although four types are only compared with what their load named.
HookOwnerRespected ==
  \A h \in hooks : prog.type = "EXT" \/ HookProgType(h) \in {prog.type, "UNSPEC"}

\* A program verified for the context of one hook is never at another one.
BoundToOneHook ==
  \/ prog.type \in {"CGROUP_SOCK", "CGROUP_SOCK_ADDR", "CGROUP_SOCKOPT", "SK_LOOKUP"}
  \/ prog.type = "KPROBE" /\ prog.hook \in ProbeHook
  \/ prog.type = "CGROUP_SKB" /\ prog.enforce
  => hooks \subseteq {prog.hook}

\* Between the load and the attach check somebody has asked for the
\* capability: whatever is at a cgroup hook is a program type that
\* is_cgroup_prog_type() knows and came from a holder of CAP_NET_ADMIN, or of
\* CAP_PERFMON for an LSM program.
CgroupHooksGuarded ==
  \A h \in hooks \cap CgroupHook : prog.type # "EXT" =>
    /\ IsCgroupProg(prog.type, h)
    /\ (IF prog.type = "LSM" THEN "PERFMON" ELSE "NET_ADMIN") \in prog.caps

\* The comment on bpf_prog_load_fixup_attach_type(): a program type that may
\* be loaded without a hook is not refused for the hook it did not name.
LegacyLoadAccepted ==
  /\ stage = "fixed"
  /\ request.type \in {"CGROUP_SOCK", "SK_REUSEPORT", "CGROUP_SKB"}
  /\ request.hook = Zero \/ request.hook = LoadFixup(request.type, Zero)
  => request.hook \in LoadHooks(request.type)
=============================================================================
