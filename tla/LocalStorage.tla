---------------------------- MODULE LocalStorage ----------------------------
(***************************************************************************)
(* shims/kernel/bpf/bpf_local_storage.c: the local storage of one object,  *)
(* its elements, its lookup cache, and the cache indices of the maps.      *)
(*                                                                         *)
(* Lookups take no lock until they publish what they found in the cache;   *)
(* an unlink may come between any two of their steps.  The callers' part   *)
(* (when elements are created, when memory is reused) is not in the shim:  *)
(* an element or a storage is reused only when no lookup can still hold    *)
(* it, which is what RCU gives the real callers.                           *)
(***************************************************************************)
EXTENDS Integers, FiniteSets

CONSTANTS Map,          \* struct bpf_local_storage_map
          Elem,         \* struct bpf_local_storage_elem
          Reader,       \* concurrent callers of bpf_local_storage_lookup()
          CacheSize,    \* BPF_LOCAL_STORAGE_CACHE_SIZE
          ElemSize,     \* smap->elem_size
          StorageSize,  \* sizeof(struct bpf_local_storage)
          Null

ASSUME LocalStorageAssumption ==
  /\ IsFiniteSet(Map) /\ IsFiniteSet(Elem)
  /\ CacheSize \in Nat \ {0}
  /\ ElemSize \in [Map -> Nat] /\ StorageSize \in Nat
  /\ Null \notin Map \cup Elem \cup Nat

Idx == 0..(CacheSize - 1)

VARIABLES
  idx,        \* smap->cache_idx; Null: the map does not exist
  usage,      \* cache->idx_usage_counts
  smap,       \* SDATA(selem)->smap; Null: the element is not allocated
  linked,     \* the elements on local_storage->list
  cache,      \* local_storage->cache
  charge,     \* local_storage->mem_charge
  alive,      \* the owner points to the storage
  pc,         \* where each lookup is
  want,       \* the map it looks up
  found       \* the selem it goes on to publish

vars == <<idx, usage, smap, linked, cache, charge, alive, pc, want, found>>
readers == <<pc, want, found>>
storage == <<smap, linked, cache, charge, alive>>
-----------------------------------------------------------------------------
(* Cache indices. *)

\* Mutant of LeastUsed: the scan stops at the first index.
FirstIdx == 0

\* The first index with the smallest count, as the scan of
\* bpf_local_storage_cache_idx_get() finds it.
LeastUsed ==
  CHOOSE i \in Idx : /\ \A j \in Idx : usage[i] <= usage[j]
                     /\ \A j \in 0..(i - 1) : usage[i] < usage[j]

\* bpf_local_storage_cache_idx_get(), for a new map.
IdxGet(m) ==
  /\ idx[m] = Null
  /\ idx' = [idx EXCEPT ![m] = LeastUsed]
  /\ usage' = [usage EXCEPT ![LeastUsed] = @ + 1]
  /\ UNCHANGED <<storage, readers>>

\* Mutant of UsageWithout: the count stays.
UsageKept(i) == usage

UsageWithout(i) == [usage EXCEPT ![i] = @ - 1]

\* bpf_local_storage_cache_idx_free(), when the map and its elements are gone.
IdxFree(m) ==
  /\ idx[m] # Null
  /\ \A e \in Elem : smap[e] # m
  /\ \A r \in Reader : want[r] # m
  /\ usage' = UsageWithout(idx[m])
  /\ idx' = [idx EXCEPT ![m] = Null]
  /\ UNCHANGED <<storage, readers>>
-----------------------------------------------------------------------------
(* Linking and unlinking, under local_storage->lock. *)

NoReader == \A r \in Reader : pc[r] = "idle"

\* bpf_selem_link_storage_nolock() of a new element.  The first one comes with
\* a new storage, which is charged for itself.
Link(e, m) ==
  /\ smap[e] = Null /\ idx[m] # Null
  /\ \A f \in linked : smap[f] # m
  /\ alive \/ NoReader
  /\ smap' = [smap EXCEPT ![e] = m]
  /\ linked' = linked \cup {e}
  /\ charge' = charge + ElemSize[m] + (IF alive THEN 0 ELSE StorageSize)
  /\ alive' = TRUE
  /\ UNCHANGED <<idx, usage, cache, readers>>

\* The element is the only one: hlist_is_singular_node().
Singular(e) == linked = {e}

Uncharge(e) == ElemSize[smap[e]] + IF Singular(e) THEN StorageSize ELSE 0

\* The cache after the element's own slot has been cleared.
CacheWithout(e) ==
  IF cache[idx[smap[e]]] = e THEN [cache EXCEPT ![idx[smap[e]]] = Null] ELSE cache

\* bpf_selem_unlink_storage_nolock() and its _misc() part.
Unlink(e) ==
  /\ e \in linked
  /\ cache' = CacheWithout(e)
  /\ charge' = charge - Uncharge(e)
  /\ alive' = ~Singular(e)
  /\ linked' = linked \ {e}
  /\ UNCHANGED <<idx, usage, smap, readers>>

\* The element is freed, after a grace period.
Reclaim(e) ==
  /\ smap[e] # Null /\ e \notin linked
  /\ \A r \in Reader : found[r] # e
  /\ smap' = [smap EXCEPT ![e] = Null]
  /\ UNCHANGED <<idx, usage, linked, cache, charge, alive, readers>>
-----------------------------------------------------------------------------
(* bpf_local_storage_lookup() *)

Goto(r, l, m, e) ==
  /\ pc' = [pc EXCEPT ![r] = l]
  /\ want' = [want EXCEPT ![r] = m]
  /\ found' = [found EXCEPT ![r] = e]

\* The fast path: a hit returns at once.
Hit(m) == cache[idx[m]] # Null /\ smap[cache[idx[m]]] = m

Lookup(r, m) ==
  /\ pc[r] = "idle"
  /\ alive /\ idx[m] # Null
  /\ IF Hit(m) THEN UNCHANGED readers ELSE Goto(r, "walk", m, Null)
  /\ UNCHANGED <<idx, usage, storage>>

\* The slow path walks the list.  With cacheit_lockit the element found is then
\* published.
Walk(r, cacheit) ==
  /\ pc[r] = "walk"
  /\ \/ /\ \A e \in linked : smap[e] # want[r]
        /\ Goto(r, "idle", Null, Null)
     \/ \E e \in linked :
          /\ smap[e] = want[r]
          /\ IF cacheit THEN Goto(r, "publish", want[r], e) ELSE Goto(r, "idle", Null, Null)
  /\ UNCHANGED <<idx, usage, storage>>

\* Mutant of StillLinked: the check under the lock is left out.
StillLinkedSkipped(e) == TRUE

\* selem_linked_to_storage(), under the lock
StillLinked(e) == e \in linked

\* __bpf_local_storage_insert_cache(): the lock may also fail to be taken.
Publish(r) ==
  /\ pc[r] = "publish"
  /\ \/ /\ StillLinked(found[r])
        /\ cache' = [cache EXCEPT ![idx[want[r]]] = found[r]]
     \/ UNCHANGED cache
  /\ Goto(r, "idle", Null, Null)
  /\ UNCHANGED <<idx, usage, smap, linked, charge, alive>>
-----------------------------------------------------------------------------
Init ==
  /\ idx = [m \in Map |-> Null]
  /\ usage = [i \in Idx |-> 0]
  /\ smap = [e \in Elem |-> Null]
  /\ linked = {}
  /\ cache = [i \in Idx |-> Null]
  /\ charge = 0
  /\ alive = FALSE
  /\ pc = [r \in Reader |-> "idle"]
  /\ want = [r \in Reader |-> Null]
  /\ found = [r \in Reader |-> Null]

Next ==
  \/ \E m \in Map : IdxGet(m) \/ IdxFree(m)
  \/ \E e \in Elem, m \in Map : Link(e, m)
  \/ \E e \in Elem : Unlink(e) \/ Reclaim(e)
  \/ \E r \in Reader, m \in Map : Lookup(r, m)
  \/ \E r \in Reader : (\E cacheit \in BOOLEAN : Walk(r, cacheit)) \/ Publish(r)

Spec == Init /\ [][Next]_vars
-----------------------------------------------------------------------------
\* Every field has its type; mem_charge, an unsigned counter that the code only
\* adds to and subtracts from, never goes below zero.
TypeOK ==
  /\ idx \in [Map -> Idx \cup {Null}]
  /\ usage \in [Idx -> Nat]
  /\ smap \in [Elem -> Map \cup {Null}]
  /\ linked \subseteq Elem
  /\ cache \in [Idx -> Elem \cup {Null}]
  /\ charge \in Nat
  /\ alive \in BOOLEAN
  /\ pc \in [Reader -> {"idle", "walk", "publish"}]
  /\ want \in [Reader -> Map \cup {Null}]
  /\ found \in [Reader -> Elem \cup {Null}]

\* The cache never holds an element that is not linked, nor one in another map's
\* slot: no lookup can publish an element that an unlink has already removed
\* (the comment in __bpf_local_storage_insert_cache()).
CacheLinked ==
  \A i \in Idx : cache[i] # Null =>
    /\ cache[i] \in linked
    /\ smap[cache[i]] # Null
    /\ idx[smap[cache[i]]] = i

\* The bytes of the linked elements.
Bytes == UNION {{e} \X (1 .. ElemSize[smap[e]]) : e \in linked}

\* mem_charge is what the linked elements cost, plus the storage itself as long
\* as it has an element; it is zero, and the owner's pointer gone, after the
\* unlink that empties the list.
ChargeExact ==
  /\ alive <=> linked # {}
  /\ charge = Cardinality(Bytes) + (IF linked # {} THEN StorageSize ELSE 0)

\* idx_usage_counts counts the maps that use each index.
UsageExact == \A i \in Idx : usage[i] = Cardinality({m \in Map : idx[m] = i})

\* A new map shares a cache slot only when every slot is taken.
FreshIdx ==
  \A m \in Map : idx[m] = Null /\ idx'[m] # Null /\ (\E i \in Idx : usage[i] = 0)
    => \A n \in Map : idx[n] # idx'[m]

\* cache_idx_get() never gives a map a slot another map uses while one is free.
SharesOnlyWhenFull == [][FreshIdx]_vars
=============================================================================
