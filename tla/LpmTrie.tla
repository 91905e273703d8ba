------------------------------ MODULE LpmTrie -------------------------------
(***************************************************************************)
(* shims/kernel/bpf/lpm_trie.c: the longest-prefix-match trie and the      *)
(* static pool its nodes come from.  Calls are atomic: the trie lock       *)
(* serialises update and delete, and the shim runs on one CPU.             *)
(*                                                                         *)
(* A key's data and a node's data are arrays of bytes, and a byte is the   *)
(* values of its bits, the least significant first; the bits beyond        *)
(* prefixlen are kept as given, as in the code.  A pointer to a pointer    *)
(* (slot, trim) is <<node, bit>>, and <<Trie, 0>> is &trie->root.  Which   *)
(* free slot of the pool an allocation gets (the first one, in the code)   *)
(* is left open: nothing depends on it.                                    *)
(***************************************************************************)
EXTENDS Integers, FiniteSets, FiniteSetsExt

CONSTANTS Slot,          \* the slots of __lpm_node_pool
          Trie, NULL,    \* struct lpm_trie; the null pointer
          ByteBits,      \* bits of a byte
          DataSize,      \* trie->data_size
          MaxEntries,    \* map.max_entries
          Value,         \* values
          None           \* no value

ASSUME LpmAssumption ==
  /\ IsFiniteSet(Slot) /\ Trie \notin Slot /\ NULL \notin Slot \cup {Trie}
  /\ ByteBits \in Nat \ {0} /\ DataSize \in Nat \ {0} /\ MaxEntries \in Nat
  /\ None \notin Value

\* trie->max_prefixlen: every bit of the data.
MaxPrefixLen == DataSize * ByteBits

Data == [0..(DataSize - 1) -> [0..(ByteBits - 1) -> 0..1]]
ZeroData == [i \in 0..(DataSize - 1) |-> [b \in 0..(ByteBits - 1) |-> 0]]

Key == [prefixlen : 0..(MaxPrefixLen + 1), data : Data]
ValidKey == {key \in Key : key.prefixlen <= MaxPrefixLen}
Flags == {"ANY", "NOEXIST", "EXIST"}

\* A slot bpf_map_kmalloc_node() has zeroed.  The model zeroes a slot when it is
\* freed rather than when it is handed out.
Blank == [child |-> [b \in 0..1 |-> NULL], prefixlen |-> 0, data |-> ZeroData, im |-> FALSE, value |-> None]

VARIABLES mem,        \* __lpm_node_pool, and the root pointer
          used,       \* __lpm_pool_used, as the set of used slots
          nEntries,   \* trie->n_entries
          ret         \* what the last call returned

vars == <<mem, used, nEntries, ret>>
-----------------------------------------------------------------------------
(* Bits and prefixes. *)

\* Mutant of extract_bit: a shift too many.
ExtractNextBit(data, index) == data[index \div ByteBits][(ByteBits - (index % ByteBits)) % ByteBits]

\* Bit 0 is the most significant of byte 0.
extract_bit(data, index) == data[index \div ByteBits][ByteBits - 1 - (index % ByteBits)]

Lesser(a, b) == IF a < b THEN a ELSE b

\* The number of leading bits node and key share, up to the shorter prefix.
longest_prefix_match(node, key) ==
  Max({l \in 0..Lesser(mem[node].prefixlen, key.prefixlen) :
         \A j \in 0..(l - 1) : extract_bit(mem[node].data, j) = extract_bit(key.data, j)})

Deref(slot) == mem[slot[1]].child[slot[2]]

\* The loops of trie_update_elem() and trie_delete_elem(), which end at an empty
\* slot, at a node that differs from the key, or at one as long as the key: the
\* local variables when they end.
Walk(key) ==
  LET Visit(slot, trim2, parent) ==
        LET node == Deref(slot)
        IN  [slot |-> slot, trim2 |-> trim2, parent |-> parent, node |-> node,
             matchlen |-> IF node = NULL THEN 0 ELSE longest_prefix_match(node, key)]
      Stops(w) == \/ w.node = NULL
                  \/ mem[w.node].prefixlen # w.matchlen
                  \/ mem[w.node].prefixlen = key.prefixlen
      at[k \in 0..(MaxPrefixLen + 1)] ==
        IF k = 0 THEN Visit(<<Trie, 0>>, <<Trie, 0>>, NULL)
        ELSE LET w == at[k - 1]
             IN  IF Stops(w) THEN w
                 ELSE Visit(<<w.node, extract_bit(key.data, mem[w.node].prefixlen)>>, w.slot, w.node)
  IN  at[MaxPrefixLen + 1]

\* The node is an entry.
Eligible(node) == ~mem[node].im

\* trie_lookup_elem(): the node whose value is returned, or NULL.
Lookup(key) ==
  LET at[k \in 0..(MaxPrefixLen + 1)] ==
        IF k = 0 THEN [node |-> Deref(<<Trie, 0>>), found |-> NULL]
        ELSE LET w == at[k - 1]
                 m == longest_prefix_match(w.node, key)
             IN  IF w.node = NULL THEN w
                 ELSE IF m = MaxPrefixLen THEN [node |-> NULL, found |-> w.node]
                 ELSE IF m < mem[w.node].prefixlen THEN [node |-> NULL, found |-> w.found]
                 ELSE [node |-> mem[w.node].child[extract_bit(key.data, mem[w.node].prefixlen)],
                       found |-> IF Eligible(w.node) THEN w.node ELSE w.found]
      found == at[MaxPrefixLen + 1].found
  IN  IF key.prefixlen > MaxPrefixLen THEN NULL ELSE found

Free == Slot \ used
Fail(e) == ret' = e /\ UNCHANGED <<mem, used, nEntries>>

\* EINVAL of update (invalid flags or prefixlen) and delete (prefixlen).
Invalid == Fail("EINVAL")
-----------------------------------------------------------------------------
(* trie_update_elem(); w is what Walk(key) found. *)

\* lpm_trie_node_alloc() of new_node fails.
UpdateNoMem ==
  /\ Free = {}
  /\ Fail("ENOMEM")

\* Mutant of CheckAdd: one entry too many.
CheckAddLate(flags) == IF flags = "EXIST" THEN "ENOENT"
                       ELSE IF nEntries > MaxEntries THEN "ENOSPC" ELSE "ok"

\* trie_check_add_elem()
CheckAdd(flags) == IF flags = "EXIST" THEN "ENOENT"
                   ELSE IF nEntries = MaxEntries THEN "ENOSPC" ELSE "ok"

\* The walk ended at a node with the key's prefix.
SamePrefix(w) == w.node # NULL /\ mem[w.node].prefixlen = w.matchlen

\* That node is an entry of the map.
Present(w) == SamePrefix(w) /\ Eligible(w.node)

\* What the checks of the flags and of the number of entries say.
Verdict(w, flags) == IF ~Present(w) THEN CheckAdd(flags)
                     ELSE IF flags = "NOEXIST" THEN "EEXIST" ELSE "ok"

\* EEXIST, ENOENT or ENOSPC: new_node was allocated and is freed again.
UpdateRefused(w, flags) ==
  /\ Free # {}
  /\ Verdict(w, flags) # "ok"
  /\ Fail(Verdict(w, flags))

\* new_node before it is linked, with the children it will have.
Fresh(key, v, child) == [child |-> child, prefixlen |-> key.prefixlen, data |-> key.data,
                         im |-> FALSE, value |-> v]

NoChild == [b \in 0..1 |-> NULL]

\* *slot = node
Assign(m, slot, node) == [m EXCEPT ![slot[1]].child[slot[2]] = node]

\* new_node takes the empty slot.
UpdateLeaf(w, new, key, v) ==
  /\ w.node = NULL
  /\ mem' = [Assign(mem, w.slot, new) EXCEPT ![new] = Fresh(key, v, NoChild)]
  /\ used' = used \cup {new}
  /\ nEntries' = nEntries + 1

\* An intermediate node that becomes an entry is counted.
ReplaceCounts(node) == IF mem[node].im THEN 1 ELSE 0

\* new_node replaces the node that has the key's prefix.
UpdateReplace(w, new, key, v) ==
  /\ SamePrefix(w)
  /\ mem' = [Assign(mem, w.slot, new) EXCEPT ![new] = Fresh(key, v, mem[w.node].child),
                                             ![w.node] = Blank]
  /\ used' = (used \cup {new}) \ {w.node}
  /\ nEntries' = nEntries + ReplaceCounts(w.node)

\* new_node goes above a node with a longer prefix.
UpdateAbove(w, new, key, v) ==
  /\ w.node # NULL /\ ~SamePrefix(w)
  /\ w.matchlen = key.prefixlen
  /\ LET bit == extract_bit(mem[w.node].data, w.matchlen)
     IN  mem' = [Assign(mem, w.slot, new) EXCEPT
                   ![new] = Fresh(key, v, [NoChild EXCEPT ![bit] = w.node])]
  /\ used' = used \cup {new}
  /\ nEntries' = nEntries + 1

\* Node and key part below both prefixes: an intermediate node joins them.
Forks(w, key) == w.node # NULL /\ ~SamePrefix(w) /\ w.matchlen # key.prefixlen

\* im_node: the bits node and key share.
Joint(w, child) == [child |-> child, prefixlen |-> w.matchlen, data |-> mem[w.node].data,
                    im |-> TRUE, value |-> None]

UpdateFork(w, new, im_node, key, v) ==
  /\ Forks(w, key)
  /\ LET bit == extract_bit(key.data, w.matchlen)
     IN  mem' = [Assign(mem, w.slot, im_node) EXCEPT
                   ![new] = Fresh(key, v, NoChild),
                   ![im_node] = Joint(w, [NoChild EXCEPT ![bit] = new, ![1 - bit] = w.node])]
  /\ used' = used \cup {new, im_node}
  /\ nEntries' = nEntries + 1

\* Mutant of UpdateForkNoMem: n_entries is not taken back.
UpdateForkKeepsCount(w, key) ==
  /\ Forks(w, key)
  /\ Cardinality(Free) = 1
  /\ nEntries' = nEntries + 1
  /\ ret' = "ENOMEM"
  /\ UNCHANGED <<mem, used>>

\* No slot is left for im_node: n_entries is taken back and new_node freed.
UpdateForkNoMem(w, key) ==
  /\ Forks(w, key)
  /\ Cardinality(Free) = 1
  /\ Fail("ENOMEM")

Update(w, key, v, flags) ==
  \/ UpdateNoMem
  \/ UpdateRefused(w, flags)
  \/ /\ Verdict(w, flags) = "ok"
     /\ \/ UpdateForkNoMem(w, key)
        \/ /\ \E new \in Free :
                \/ UpdateLeaf(w, new, key, v)
                \/ UpdateReplace(w, new, key, v)
                \/ UpdateAbove(w, new, key, v)
                \/ \E im_node \in Free \ {new} : UpdateFork(w, new, im_node, key, v)
           /\ ret' = "ok"
-----------------------------------------------------------------------------
(* trie_delete_elem() *)

\* The walk ended at the entry to delete.
Doomed(w, key) == Present(w) /\ mem[w.node].prefixlen = key.prefixlen

DeleteMissing(w, key) ==
  /\ ~Doomed(w, key)
  /\ Fail("ENOENT")

Children(node) == {b \in 0..1 : mem[node].child[b] # NULL}

\* A node with two children stays as an intermediate node.
DeleteToIM(w) ==
  /\ Children(w.node) = {0, 1}
  /\ mem' = [mem EXCEPT ![w.node].im = TRUE]
  /\ UNCHANGED used

\* A leaf below an intermediate node.
LastBelowIM(w) == w.parent # NULL /\ mem[w.parent].im /\ Children(w.node) = {}

\* The sibling takes the intermediate parent's place.
DeleteWithParent(w) ==
  /\ LastBelowIM(w)
  /\ LET side == IF w.node = mem[w.parent].child[0] THEN 1 ELSE 0
     IN  mem' = [Assign(mem, w.trim2, mem[w.parent].child[side]) EXCEPT
                   ![w.parent] = Blank, ![w.node] = Blank]
  /\ used' = used \ {w.parent, w.node}

\* Any other node is replaced by its only child, if it has one.
DeleteNode(w) ==
  /\ Children(w.node) # {0, 1} /\ ~LastBelowIM(w)
  /\ LET heir == IF mem[w.node].child[0] # NULL THEN mem[w.node].child[0] ELSE mem[w.node].child[1]
     IN  mem' = [Assign(mem, w.slot, heir) EXCEPT ![w.node] = Blank]
  /\ used' = used \ {w.node}

Delete(w, key) ==
  \/ DeleteMissing(w, key)
  \/ /\ Doomed(w, key)
     /\ DeleteToIM(w) \/ DeleteWithParent(w) \/ DeleteNode(w)
     /\ nEntries' = nEntries - 1
     /\ ret' = "ok"
-----------------------------------------------------------------------------
\* lpm_trie_init()
Init ==
  /\ mem = [s \in {Trie} \cup Slot |-> Blank]
  /\ used = {}
  /\ nEntries = 0
  /\ ret = "ok"

Next ==
  \/ Invalid
  \/ \E key \in ValidKey :
       LET w == Walk(key)
       IN  \/ \E flags \in Flags, v \in Value : Update(w, key, v, flags)
           \/ Delete(w, key)

Spec == Init /\ [][Next]_vars
-----------------------------------------------------------------------------
Results == {"ok", "EINVAL", "ENOMEM", "EEXIST", "ENOENT", "ENOSPC"}

\* Every slot of the pool holds a node, and n_entries stays within the limit that
\* trie_check_add_elem() compares it with.
TypeOK ==
  /\ mem \in [{Trie} \cup Slot -> [child : [0..1 -> {NULL} \cup Slot], prefixlen : 0..MaxPrefixLen,
                                data : Data, im : BOOLEAN, value : Value \cup {None}]]
  /\ used \subseteq Slot
  /\ nEntries \in 0..MaxEntries
  /\ ret \in Results

\* The nodes k levels below the root pointer.
Level[k \in 0..MaxPrefixLen] ==
  IF k = 0 THEN {Deref(<<Trie, 0>>)} \ {NULL}
  ELSE (UNION {{mem[n].child[b] : b \in 0..1} : n \in Level[k - 1]}) \ {NULL}

Reachable == UNION {Level[k] : k \in 0..MaxPrefixLen}

\* The pool's used slots are exactly the nodes the trie reaches: no call, whatever
\* way it ends, leaks a node or frees one that is still linked.
PoolExact == used = Reachable

\* The entries of the trie.
EntryNodes == {n \in Reachable : ~mem[n].im}

\* n_entries is the number of entries, and an intermediate node always has two
\* children: deletions leave none behind.
CountExact ==
  /\ nEntries = Cardinality(EntryNodes)
  /\ \A n \in Reachable : mem[n].im => Children(n) = {0, 1}

\* The prefix of a node or key, without the bits beyond it: the bits of its bytes, each
\* from the most significant on.
PrefixOf(x) ==
  [j \in 0..(x.prefixlen - 1) |-> x.data[j \div ByteBits][ByteBits - 1 - (j % ByteBits)]]

\* p is a prefix of q.
Covers(p, q) == DOMAIN p \subseteq DOMAIN q /\ \A j \in DOMAIN p : p[j] = q[j]

\* A child's prefix extends its parent's, by the bit of the side it hangs on.
TrieShape ==
  \A n \in Reachable : \A b \in Children(n) :
    LET c == mem[mem[n].child[b]]
    IN  /\ c.prefixlen > mem[n].prefixlen
        /\ Covers(PrefixOf(mem[n]), PrefixOf(c))
        /\ PrefixOf(c)[mem[n].prefixlen] = b

\* A lookup answers with the entry of the longest stored prefix of the key, for
\* every key and whatever the unused bits of keys and nodes are.
LookupIsLongest ==
  \A key \in ValidKey :
    LET hits == {n \in EntryNodes : Covers(PrefixOf(mem[n]), PrefixOf(key))}
    IN  IF hits = {} THEN Lookup(key) = NULL
        ELSE /\ Lookup(key) \in hits
             /\ \A n \in hits : mem[n].prefixlen <= mem[Lookup(key)].prefixlen

\* The pool runs out only when it holds at least half as many entries as slots, for
\* a trie of n entries has at most n - 1 intermediate nodes and an update needs two
\* nodes: with two slots per entry it never does.
PoolSuffices == ret = "ENOMEM" => 2 * nEntries >= Cardinality(Slot)

Prefixes == {PrefixOf(key) : key \in ValidKey}

\* The walk of an update or a delete finds the key's entry exactly when its
\* prefix is stored: EEXIST and ENOENT are never wrong.
WalkFindsEntry ==
  \A key \in ValidKey :
    Present(Walk(key)) <=> \E n \in EntryNodes : PrefixOf(mem[n]) = PrefixOf(key)

\* After any calls, whatever error ended them, the trie of lpm_trie.c is well formed,
\* its entry count and the node pool say what it holds, and updates and deletes find
\* their entry.
TrieSound ==
  TypeOK /\ PoolExact /\ CountExact /\ TrieShape /\ WalkFindsEntry /\ PoolSuffices

\* The value of every stored prefix.
Entries ==
  LET stored == EntryNodes
  IN  [p \in Prefixes |->
         IF \E n \in stored : PrefixOf(mem[n]) = p
         THEN mem[CHOOSE n \in stored : PrefixOf(mem[n]) = p].value ELSE None]

Map == INSTANCE PrefixMap WITH Prefix <- Prefixes, entries <- Entries

\* The trie is a map from prefixes to values with the flags of BPF maps.
ImplementsMap == Map!Spec
=============================================================================
