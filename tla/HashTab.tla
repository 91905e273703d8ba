------------------------------ MODULE HashTab -------------------------------
(***************************************************************************)
(* shims/kernel/bpf/hashtab.c: the element counts of a hash map without    *)
(* preallocation, the limit they enforce, and the memory they account for. *)
(*                                                                         *)
(* The shim has the counting helpers; who calls them is the kernel's       *)
(* htab_map_update_elem() and htab_map_delete_elem(): under the bucket's   *)
(* lock, is_map_full(), inc_elem_count(), insertion of the new element,    *)
(* removal of the old one and dec_elem_count().  Buckets have locks of     *)
(* their own, so the calls of two CPUs for two keys interleave at every    *)
(* one of these steps, and between the two counters that inc_elem_count()  *)
(* and dec_elem_count() change one after the other.  One counter changes   *)
(* in one step: that is what the kernel's atomic and per-CPU counters      *)
(* give; the shim, which one CPU runs, has a plain ++ and -- there.        *)
(***************************************************************************)
EXTENDS MapSizes, FiniteSets

CONSTANTS Cpu, Key,
          MaxEntries,  \* map->max_entries
          ValueSizes,  \* value sizes users ask for
          NoKey,
          NodeSize     \* sizeof(struct llist_node), sizeof(void *)

HashAssumption ==
  /\ MaxEntries \in Nat \ {0}
  /\ ValueSizes \subseteq U32
  /\ IsFiniteSet(Cpu) /\ IsFiniteSet(Key)
  /\ NoKey \notin Key
  /\ NodeSize \in Nat

VARIABLES
  map,       \* type, value_size, use_percpu_counter
  elems,     \* the keys in the buckets
  count,     \* atomic count, or the per-CPU counter's sum
  nrElems,   \* map->elem_count
  pc, key,   \* what each CPU does, and for which key: it holds the bucket's lock
  replacing  \* the CPU's update found an old element

vars == <<map, elems, count, nrElems, pc, key, replacing>>

Attr == {a \in [type : {"HASH", "PERCPU_HASH"}, key_size : {4}, value_size : ValueSizes,
                max_entries : {MaxEntries}, flags : {{"NO_PREALLOC"}}] : HtabAllocCheck(a)}

Maps == {[type |-> a.type, value_size |-> a.value_size, percpuCounter |-> b] :
          a \in Attr, b \in BOOLEAN}

Init ==
  /\ map \in Maps
  /\ elems = {} /\ count = 0 /\ nrElems = 0
  /\ pc = [c \in Cpu |-> "idle"]
  /\ key = [c \in Cpu |-> NoKey]
  /\ replacing = [c \in Cpu |-> FALSE]
-----------------------------------------------------------------------------
(* The helpers *)

\* Mutant of IsMapFull: the last slot is never used.
IsMapFullEarly == count >= MaxEntries - 1

\* is_map_full(): __percpu_counter_compare() of the shim is exact, so both
\* counters give the same answer.
IsMapFull == IF map.percpuCounter THEN ~ (count < MaxEntries) ELSE count >= MaxEntries

\* bpf_map_inc_elem_count(), bpf_map_dec_elem_count()
IncElemCount == nrElems' = (nrElems + 1) % Word /\ UNCHANGED count
DecElemCount == nrElems' = (nrElems + Word - 1) % Word /\ UNCHANGED count

\* The table's own count, whichever of the two it has: atomic_inc(),
\* atomic_dec(), percpu_counter_add_batch().
IncCount == count' = count + 1 /\ UNCHANGED nrElems

\* Mutant of DecCount: without the branch for the per-CPU counter.
DecAtomicCount == count' = (IF map.percpuCounter THEN count ELSE count - 1) /\ UNCHANGED nrElems

DecCount == count' = count - 1 /\ UNCHANGED nrElems

\* sizeof(header) + round_up(key) + the value, or the pointer to it
HtabElemSize == ElemHeader + RoundUp(4) + IF map.type = "PERCPU_HASH" THEN NodeSize
                                      ELSE RoundUp(map.value_size)

\* htab_map_mem_usage() without the table itself: the product of the value
\* size and the number of CPUs is in 32 bits, the rest in 64.
MemUsage(n) ==
  (HtabElemSize + NodeSize) * n +
    IF map.type = "PERCPU_HASH"
    THEN 2 * NodeSize * n + ((RoundUp(map.value_size) * NrCpus) % Word) * n
    ELSE 0
-----------------------------------------------------------------------------
(* The callers *)

Bucket(c, k, op, then) ==
  /\ pc[c] = "idle"
  /\ \A d \in Cpu : key[d] # k
  /\ key' = [key EXCEPT ![c] = k]
  /\ pc' = [pc EXCEPT ![c] = then]
  /\ replacing' = [replacing EXCEPT ![c] = op = "update" /\ k \in elems]
  /\ UNCHANGED <<map, elems, count, nrElems>>

Update(c, k) == Bucket(c, k, "update", "alloc")
Delete(c, k) == k \in elems /\ Bucket(c, k, "delete", "remove")

Unlock(c) == /\ pc' = [pc EXCEPT ![c] = "idle"]
             /\ key' = [key EXCEPT ![c] = NoKey]
             /\ replacing' = [replacing EXCEPT ![c] = FALSE]

Goto(c, l) == pc' = [pc EXCEPT ![c] = l] /\ UNCHANGED <<key, replacing>>

\* A full map refuses a new key; an update of an old one goes on.
Refuse(c) ==
  /\ pc[c] = "alloc"
  /\ IsMapFull /\ ~ replacing[c]
  /\ Unlock(c)
  /\ UNCHANGED <<map, elems, count, nrElems>>

Admit(c) ==
  /\ pc[c] = "alloc"
  /\ ~ IsMapFull \/ replacing[c]
  /\ Goto(c, "count")
  /\ UNCHANGED <<map, elems, count, nrElems>>

\* inc_elem_count(), in two steps
Count(c) ==
  /\ pc[c] = "count"
  /\ IncElemCount
  /\ Goto(c, "tally")
  /\ UNCHANGED <<map, elems>>

Tally(c) ==
  /\ pc[c] = "tally"
  /\ IncCount
  /\ Goto(c, "insert")
  /\ UNCHANGED <<map, elems>>

Insert(c) ==
  /\ pc[c] = "insert"
  /\ elems' = elems \cup {key[c]}
  /\ IF replacing[c] THEN Goto(c, "uncount") ELSE Unlock(c)
  /\ UNCHANGED <<map, count, nrElems>>

Remove(c) ==
  /\ pc[c] = "remove"
  /\ elems' = elems \ {key[c]}
  /\ Goto(c, "uncount")
  /\ UNCHANGED <<map, count, nrElems>>

\* dec_elem_count(), in two steps
Uncount(c) ==
  /\ pc[c] = "uncount"
  /\ DecElemCount
  /\ Goto(c, "untally")
  /\ UNCHANGED <<map, elems>>

Untally(c) ==
  /\ pc[c] = "untally"
  /\ DecCount
  /\ Unlock(c)
  /\ UNCHANGED <<map, elems>>

Next == \E c \in Cpu :
  \/ \E k \in Key : Update(c, k)
  \/ \E k \in Key : Delete(c, k)
  \/ Refuse(c)
  \/ Admit(c)
  \/ Count(c)
  \/ Tally(c)
  \/ Insert(c)
  \/ Remove(c)
  \/ Uncount(c)
  \/ Untally(c)

Spec == Init /\ [][Next]_vars
-----------------------------------------------------------------------------
(* Properties *)

TypeOK ==
  /\ elems \subseteq Key
  /\ count \in Nat /\ nrElems \in U32
  /\ pc \in [Cpu -> {"idle", "alloc", "count", "tally", "insert", "remove", "uncount", "untally"}]
  /\ key \in [Cpu -> Key \cup {NoKey}]
  /\ replacing \in [Cpu -> BOOLEAN]

\* CPUs whose element is in the table's count and is not in the table, yet or
\* any more; and in map->elem_count.
InFlight == {c \in Cpu : pc[c] \in {"insert", "uncount", "untally"}}
Listed == {c \in Cpu : pc[c] \in {"tally", "insert", "uncount"}}

\* Neither count loses an element: each is the number of elements and of calls
\* between the counter and the element, whatever the interleaving, and so both
\* are the number of elements when no call is under way.
CountExact ==
  /\ count = Cardinality(elems) + Cardinality(InFlight)
  /\ nrElems = (Cardinality(elems) + Cardinality(Listed)) % Word

\* max_entries may be exceeded, for the check and the count are two steps, but
\* only by the CPUs that were between them.
OvershootBounded == Cardinality(elems) <= MaxEntries + Cardinality(Cpu) - 1

\* A new key is refused only if the elements and the updates under way fill
\* the map.
RefusedOnlyWhenFull ==
  [][\A c \in Cpu : Refuse(c) => Cardinality(elems) + Cardinality(InFlight) >= MaxEntries]_vars

\* The memory the map reports covers every element in it, the values of every
\* CPU included: the 32-bit product does not wrap for an accepted map.
UsageCovers ==
  MemUsage(count) >=
    Cardinality(elems) * (HtabElemSize + IF map.type = "PERCPU_HASH" THEN NrCpus * map.value_size ELSE 0)
=============================================================================
