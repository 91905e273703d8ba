---------------------------- MODULE BloomFilter -----------------------------
(***************************************************************************)
(* shims/kernel/bpf/bloom_filter.c: a bloom filter over a bitset of 64-bit *)
(* words.  The shim runs on one CPU; a call is one step.  jhash and jhash2 *)
(* are kernel headers: any function of the value and the seed, fixed for   *)
(* the life of the filter.                                                 *)
(***************************************************************************)
EXTENDS Integers

CONSTANTS Value,      \* the values pushed and looked up
          Words,      \* BLOOM_BITSET_WORDS
          WordBits,   \* bits of a word
          NrHash,     \* nr_hash_funcs
          HashMax     \* the largest hash, U32_MAX

ASSUME BloomAssumption ==
  /\ Words \in Nat \ {0} /\ WordBits \in Nat \ {0}
  /\ NrHash \in Nat /\ HashMax \in Nat

VARIABLES jhash,     \* jhash2(value, seed + index), before masking
          bitset,    \* the bits set in every word
          pushed,    \* ghost: the values pushed so far
          ret        \* what the last push returned

vars == <<jhash, bitset, pushed, ret>>

Index == 0..(NrHash - 1)
Bits == Words * WordBits

\* bloom_hash(): bitset_mask is Bits - 1 and Bits is a power of two.
bloom_hash(v, i) == jhash[v][i] % Bits

\* Mutant of Word: all bits share the first word.
WordFirst(bit) == 0

\* The word and the bit within it, of bloom_test_bit() and bloom_set_bit().
Word(bit) == (bit \div WordBits) % Words

Pos(bit) == bit % WordBits

bloom_test_bit(bit) == Pos(bit) \in bitset[Word(bit)]

\* bloom_map_peek_elem(): 0, not -ENOENT.
Peek(v) == \A i \in Index : bloom_test_bit(bloom_hash(v, i))

\* Mutant of SetBits: the last hash function is left out.
SetBitsShort(v) ==
  [w \in 0..(Words - 1) |->
     bitset[w] \cup {Pos(bloom_hash(v, i)) : i \in {j \in 0..(NrHash - 2) : Word(bloom_hash(v, j)) = w}}]

\* The loop of bloom_map_push_elem() with bloom_set_bit().
SetBits(v) ==
  [w \in 0..(Words - 1) |->
     bitset[w] \cup {Pos(bloom_hash(v, i)) : i \in {j \in Index : Word(bloom_hash(v, j)) = w}}]

\* bloom_map_push_elem()
Push(v) ==
  /\ bitset' = SetBits(v)
  /\ pushed' = pushed \cup {v}
  /\ ret' = "ok"
  /\ UNCHANGED jhash

\* Any flags but BPF_ANY are refused.
PushInvalid ==
  /\ ret' = "EINVAL"
  /\ UNCHANGED <<jhash, bitset, pushed>>

\* bloom_filter_init()
Init ==
  /\ jhash \in [Value -> [Index -> 0..HashMax]]
  /\ bitset = [w \in 0..(Words - 1) |-> {}]
  /\ pushed = {}
  /\ ret = "ok"

Next == (\E v \in Value : Push(v)) \/ PushInvalid

Spec == Init /\ [][Next]_vars
-----------------------------------------------------------------------------
\* The words hold bits of a word and nothing else.
TypeOK ==
  /\ jhash \in [Value -> [Index -> 0..HashMax]]
  /\ bitset \in [0..(Words - 1) -> SUBSET (0..(WordBits - 1))]
  /\ pushed \subseteq Value
  /\ ret \in {"ok", "EINVAL"}

\* A value that was pushed is always found: later pushes never hide it.
NoFalseNegative == \A v \in pushed : Peek(v)

\* A value is found by mistake only if every one of its masked hashes is also one
\* of a pushed value: splitting a bit into word and position loses nothing.
OnlyCollisions ==
  \A v \in Value : Peek(v) =>
    \A i \in Index : \E u \in pushed, j \in Index : bloom_hash(u, j) = bloom_hash(v, i)
=============================================================================
