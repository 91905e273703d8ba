------------------------------ MODULE FuncProto ------------------------------
(***************************************************************************)
(* The verifier shim's check of a helper prototype (kernel/bpf/verifier.c, *)
(* check_func_proto): five argument types, each a base type with a set of  *)
(* flags, and for each argument one machine word that is read both as a    *)
(* size and as a BTF id pointer (the union of arg_size and arg_btf_id).    *)
(***************************************************************************)
EXTENDS Naturals, FiniteSets, FiniteSetsExt

CONSTANTS
  Kinds,     \* the argument types a prototype is put together from
  MaxUsed    \* how many of the five arguments a generated prototype uses

Index == 1..5

\* BPF_PTR_POISON is the pointer 1; every other non-zero word is an id or a size.
Poison == 1

Arg(base, flags, word) == [base |-> base, flags |-> flags, word |-> word]

DontCare == Arg("DONTCARE", {}, 0)

ProtoAssumption ==
  /\ MaxUsed \in 0..5
  /\ \A k \in Kinds : k.word \in Nat

VARIABLES fn, release_regno, ret

vars == <<fn, release_regno, ret>>

IsMem(a) == a.base = "PTR_TO_MEM"

arg_type_is_mem_size(a) == a.base \in {"CONST_SIZE", "CONST_SIZE_OR_ZERO"} /\ a.flags = {}

arg_type_is_raw_mem(a) == IsMem(a) /\ "MEM_UNINIT" \in a.flags

arg_type_is_release(a) == "OBJ_RELEASE" \in a.flags

IsFixed(a) == "MEM_FIXED_SIZE" \in a.flags

check_raw_mode_ok(p) == Cardinality({i \in Index : arg_type_is_raw_mem(p[i])}) <= 1

NextIsSize(p, i) == i + 1 \in Index /\ arg_type_is_mem_size(p[i + 1])

check_args_pair_invalid(p, i) ==
  IF IsMem(p[i])
  THEN \/ (p[i].word # 0) = NextIsSize(p, i)
       \/ NextIsSize(p, i) = IsFixed(p[i])
  ELSE NextIsSize(p, i)

check_arg_pair_ok(p) ==
  /\ ~arg_type_is_mem_size(p[1])
  /\ \A i \in Index : ~check_args_pair_invalid(p, i)

check_mem_arg_rw_flag_ok(p) ==
  \A i \in Index : IsMem(p[i]) => p[i].flags \cap {"MEM_WRITE", "MEM_RDONLY"} # {}

\* The pointers whose annotation ends the scan of check_btf_id_ok().
IsTyped(a) == a.base \in {"PTR_TO_BTF_ID", "PTR_TO_SPIN_LOCK"}

\* Looks at the argument only when no word is given: a stray id is accepted.
BtfIdMissesStray(p) ==
  \A i \in Index : IsTyped(p[i]) /\ (\A j \in 1..(i - 1) : ~IsTyped(p[j])) => p[i].word # 0

check_btf_id_ok(p) ==
  LET scan[i \in 1..6] ==
        IF i = 6 THEN TRUE
        ELSE IF p[i].base = "PTR_TO_BTF_ID" THEN p[i].word # 0
        ELSE IF p[i].base = "PTR_TO_SPIN_LOCK" THEN p[i].word = Poison
        ELSE (p[i].word # 0 => IsMem(p[i]) /\ IsFixed(p[i])) /\ scan[i + 1]
  IN scan[1]

Released(p) == {i \in Index : arg_type_is_release(p[i])}

check_proto_release_reg(p) ==
  [ok |-> Cardinality(Released(p)) <= 1,
   regno |-> IF Released(p) = {} THEN 0 ELSE Min(Released(p))]

Unwritten == [ok |-> FALSE, regno |-> 0]

\* The conjuncts of the code in their order: meta is written only if the first
\* three hold, and stays written if the last one fails.
check_func_proto(p) ==
  LET release == IF check_raw_mode_ok(p) /\ check_arg_pair_ok(p) /\ check_mem_arg_rw_flag_ok(p)
                 THEN check_proto_release_reg(p)
                 ELSE Unwritten
  IN [ok |-> release.ok /\ check_btf_id_ok(p), regno |-> release.regno]

Init ==
  /\ fn = [i \in Index |-> DontCare]
  /\ release_regno = 0
  /\ ret = "none"

\* The caller clears meta and has the prototype checked. Two calls share nothing,
\* so a behaviour has one.
Check(p) ==
  LET v == check_func_proto(p) IN
  /\ ret = "none"
  /\ fn' = p
  /\ release_regno' = v.regno
  /\ ret' = IF v.ok THEN "ok" ELSE "EINVAL"

Next == \E U \in kSubset(MaxUsed, Index) : \E k \in [U -> Kinds] :
          Check([i \in Index |-> IF i \in U THEN k[i] ELSE DontCare])

Spec == Init /\ [][Next]_vars
-----------------------------------------------------------------------------
TypeOK ==
  /\ DOMAIN fn = Index
  /\ release_regno \in 0..5
  /\ ret \in {"none", "ok", "EINVAL"}

Accepted == ret = "ok"

(* Every buffer of an accepted prototype has exactly one source of its size,  *)
(* its own word or the argument after it, and every size argument measures    *)
(* the buffer before it: check_args_pair_invalid() compares three booleans    *)
(* with == to say so.                                                          *)
SizesKnown ==
  Accepted =>
    \A i \in Index :
      /\ IsMem(fn[i]) => ((IsFixed(fn[i]) /\ fn[i].word # 0) # NextIsSize(fn, i))
      /\ arg_type_is_mem_size(fn[i]) =>
           i > 1 /\ IsMem(fn[i - 1]) /\ ~IsFixed(fn[i - 1]) /\ fn[i - 1].word = 0

(* The register recorded for release is the only releasing argument of an     *)
(* accepted prototype, and none is recorded when nothing is released.         *)
ReleaseRegIsUnique ==
  Accepted => Released(fn) = IF release_regno = 0 THEN {} ELSE {release_regno}

\* The arguments check_btf_id_ok() looks at: up to the first typed pointer.
Scanned == {i \in Index : \A j \in 1..(i - 1) : ~IsTyped(fn[j])}

(* The word shared by size and BTF id has one reading: among the arguments    *)
(* the scan reaches it is set exactly where the argument's type calls for it. *)
(* (The scan ends at the first typed pointer, so nothing is claimed beyond.)  *)
WordHasOneReading ==
  Accepted =>
    \A i \in Scanned : fn[i].word # 0 <=> IsTyped(fn[i]) \/ (IsMem(fn[i]) /\ IsFixed(fn[i]))

\* What a prototype has to be, independent of the order and form of the checks.
WellFormed(p) ==
  /\ \A i \in Index : IsMem(p[i]) =>
       /\ p[i].flags \cap {"MEM_WRITE", "MEM_RDONLY"} # {}
       /\ IsFixed(p[i]) <=> p[i].word # 0
       /\ IsFixed(p[i]) <=> ~NextIsSize(p, i)
  /\ \A i \in Index : arg_type_is_mem_size(p[i]) => i > 1 /\ IsMem(p[i - 1])
  /\ \A i \in Index : IsTyped(p[i]) => p[i].word = Poison
  /\ \A i \in Index : ~IsMem(p[i]) /\ ~IsTyped(p[i]) => p[i].word = 0
  /\ \A i, j \in Index :
       i # j => /\ ~(arg_type_is_raw_mem(p[i]) /\ arg_type_is_raw_mem(p[j]))
                /\ ~(arg_type_is_release(p[i]) /\ arg_type_is_release(p[j]))

(* No well-formed prototype is turned away.                                   *)
WellFormedAccepted == ret # "none" /\ WellFormed(fn) => Accepted
=============================================================================
