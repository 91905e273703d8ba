------------------------------ MODULE ArrayMap ------------------------------
(***************************************************************************)
(* shims/kernel/bpf/arraymap.c: element addresses, direct value access,    *)
(* key iteration and the comparison that lets an inner array be exchanged  *)
(* under programs that were compiled against another one.                  *)
(*                                                                         *)
(* Addresses are offsets from array->value.  elem_size and index_mask are  *)
(* set by array_map_alloc(), which is outside the repository: the rounded  *)
(* value size, and the power of two above max_entries, less one.           *)
(***************************************************************************)
EXTENDS MapSizes, FiniteSets, Sequences

CONSTANTS ValueSizes, Entries, \* attributes users ask for
          Pow2,                \* the powers of two up to Word
          NoKey, NoEnt         \* a NULL key, -ENOENT

ArrayAssumption ==
  /\ ValueSizes \subseteq U32 /\ Entries \subseteq U32
  /\ Pow2 \subseteq Nat /\ Word \in Pow2
  /\ NoKey \notin Nat /\ NoEnt \notin Nat

VARIABLES
  map,      \* the array
  inner,    \* the array that stands behind it when it is an inner map
  key,      \* the key the user passes to the next get_next_key
  visited,  \* the keys the walk returned since it started with no key
  direct    \* an immediate the verifier patched, with the offset asked for

vars == <<map, inner, key, visited, direct>>

Array(a) == [type |-> a.type, value_size |-> a.value_size, max_entries |-> a.max_entries,
             flags |-> a.flags, elem_size |-> RoundUp(a.value_size)]

Attr == {a \in [type : {"ARRAY"}, key_size : {4}, value_size : ValueSizes,
                max_entries : Entries, flags : {{}, {"INNER_MAP"}}] : ArrayAllocCheck(a)}
-----------------------------------------------------------------------------
(* index & index_mask: the mask is 2^k - 1 with 2^k >= max_entries. *)
MaskSize(n) == CHOOSE p \in Pow2 : p >= n /\ \A q \in Pow2 : q >= n => p <= q

\* array_map_lookup_elem(): the element's offset, or NoEnt for NULL.
Lookup(a, index) ==
  IF index >= a.max_entries THEN NoEnt
  ELSE a.elem_size * (index % MaskSize(a.max_entries))

\* bpf_array_get_next_key()
GetNextKey(a, k) ==
  LET index == IF k = NoKey THEN Word - 1 ELSE k
  IN  IF index >= a.max_entries THEN 0
      ELSE IF index = a.max_entries - 1 THEN NoEnt
      ELSE (index + 1) % Word

\* array_map_direct_value_addr() = 0; the immediate is array->value.
DirectValueAddr(a, off) == a.max_entries = 1 /\ off < a.value_size

\* array_map_direct_value_meta(): the offset of an immediate, or NoEnt.
DirectValueMeta(a, imm) ==
  IF a.max_entries = 1 /\ imm < a.elem_size THEN imm ELSE NoEnt

\* Mutant of MetaEqual: the number of entries is not compared.
MetaEqualAnyCount(a, b) ==
  a.type = b.type /\ a.value_size = b.value_size /\ a.flags = b.flags

\* array_map_meta_equal(), bpf_map_meta_equal()
MetaEqual(a, b) ==
  /\ a.type = b.type /\ a.value_size = b.value_size /\ a.flags = b.flags
  /\ "INNER_MAP" \in a.flags \/ a.max_entries = b.max_entries
-----------------------------------------------------------------------------
Init ==
  /\ \E a \in Attr : map = Array(a)
  /\ inner = map
  /\ key = NoKey /\ visited = << >>
  /\ direct = NoEnt

\* One BPF_MAP_GET_NEXT_KEY call of a user who walks the array.
NextKey ==
  LET next == GetNextKey(map, key)
  IN  /\ next # NoEnt
      /\ key' = next
      /\ visited' = Append(visited, next)
      /\ UNCHANGED <<map, inner, direct>>

\* The user starts the walk again.
Restart ==
  /\ key # NoKey
  /\ key' = NoKey /\ visited' = << >>
  /\ UNCHANGED <<map, inner, direct>>

\* The verifier patches a direct access to offset off into a program.
Patch(off) ==
  /\ DirectValueAddr(map, off)
  /\ direct' = off
  /\ UNCHANGED <<map, inner, key, visited>>

\* The outer map's update exchanges the inner array.
Exchange(a) ==
  /\ MetaEqual(map, Array(a))
  /\ inner' = Array(a)
  /\ UNCHANGED <<map, key, visited, direct>>

Next == \/ NextKey
        \/ Restart
        \/ \E off \in ValueSizes : Patch(off)
        \/ \E a \in Attr : Exchange(a)

Spec == Init /\ [][Next]_vars
-----------------------------------------------------------------------------
(* Properties *)

\* Without a key the walk gives every index once, in order, and it ends at the
\* last one, whatever max_entries is, U32_MAX included.
WalkIsExact ==
  /\ visited = [n \in 1 .. Len(visited) |-> n - 1]
  /\ Len(visited) <= map.max_entries
  /\ GetNextKey(map, key) = NoEnt <=> Len(visited) = map.max_entries

\* Different indices have disjoint elements, each large enough for its value
\* and inside the array: neither the mask nor the rounding merges two of them.
ElementsDisjoint ==
  \A i, j \in 0 .. map.max_entries - 1 : i < j =>
    /\ Lookup(map, i) + map.value_size <= Lookup(map, j)
    /\ Lookup(map, j) + map.value_size <= map.elem_size * map.max_entries

\* A patched offset addresses a byte of the value, and the reverse lookup that
\* the dump uses finds the same offset again.
DirectRoundTrip ==
  direct # NoEnt => direct < map.value_size /\ DirectValueMeta(map, direct) = direct

\* Code inlined for one inner array is right for whichever array stands there:
\* what it may index exists in the other, at the same place, unless the flag
\* that keeps lookups from being inlined is set.
InlinedLookupSafe ==
  "INNER_MAP" \notin map.flags =>
    \A i \in 0 .. map.max_entries - 1 : Lookup(inner, i) = Lookup(map, i)
=============================================================================
