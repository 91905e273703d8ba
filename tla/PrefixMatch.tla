----------------------------- MODULE PrefixMatch -----------------------------
(***************************************************************************)
(* longest_prefix_match() of shims/kernel/bpf/lpm_trie.c, as it is written: *)
(* word by word, then a half word, then a byte, each loaded little-endian, *)
(* swapped, and searched for its highest set bit. LpmTrie uses the result  *)
(* defined bit by bit; this module shows that the loop computes it. A word *)
(* is the values of its bits, the least significant first. A byte has      *)
(* any number of bits (8 in the code), so that whole words stay small; the *)
(* loop adds the same multiples of the width.                              *)
(***************************************************************************)
EXTENDS Integers, FiniteSetsExt

CONSTANT Shape   \* pairs <<bits in a byte, trie->data_size>>

ShapeAssumption ==
  \A s \in Shape : s[1] \in Nat \ {0} /\ s[2] \in Nat \ {0}

VARIABLES
  bits, size,    \* the shape
  xor,           \* node->data ^ key->data
  limit,         \* min(node->prefixlen, key->prefixlen)
  pc, i, prefixlen, result

vars == <<bits, size, xor, limit, pc, i, prefixlen, result>>

Lesser(a, b) == IF a < b THEN a ELSE b

Init ==
  /\ \E s \in Shape :
       /\ bits = s[1] /\ size = s[2]
       /\ xor \in [0..(s[2] - 1) -> [0..(s[1] - 1) -> 0..1]]
       /\ limit \in {Lesser(node, key) : node, key \in 0..(s[1] * s[2])}
  /\ pc = "words" /\ i = 0 /\ prefixlen = 0 /\ result = -1

\* A load of n bytes at i, least significant byte first.
Load(n) == [b \in 0..(bits * n - 1) |-> xor[i + (b \div bits)][b % bits]]

\* The word as loaded.
NoSwap(x, n) == x

\* be32_to_cpu(), be16_to_cpu(): byte k becomes byte n - 1 - k.
be_to_cpu(x, n) == [b \in 0..(bits * n - 1) |-> x[bits * (n - 1 - (b \div bits)) + (b % bits)]]

\* Find last set bit, numbered from 1; 0 if none is set.
fls(x) == Max({0} \cup {b + 1 : b \in {c \in DOMAIN x : x[c] = 1}})

Zero(x) == \A b \in DOMAIN x : x[b] = 0

Return(r) == result' = r /\ pc' = "done" /\ UNCHANGED i

\* The equal leading bits of n bytes.
Matched(n, diff) == bits * n - fls(diff)

\* Compares n bytes: ends at the limit or at a difference, or goes on at next.
Compare(n, next) ==
  LET diff == be_to_cpu(Load(n), n)
      now == prefixlen + Matched(n, diff)
  IN /\ prefixlen' = now
     /\ \/ now >= limit /\ Return(limit)
        \/ now < limit /\ ~Zero(diff) /\ Return(now)
        \/ now < limit /\ Zero(diff) /\ i' = i + n /\ pc' = next /\ UNCHANGED result

Skip(next) == pc' = next /\ UNCHANGED <<i, prefixlen, result>>

WordStep ==
  /\ pc = "words"
  /\ IF size >= i + 4 THEN Compare(4, "words") ELSE Skip("half")
  /\ UNCHANGED <<bits, size, xor, limit>>

HalfStep ==
  /\ pc = "half"
  /\ IF size >= i + 2 THEN Compare(2, "byte") ELSE Skip("byte")
  /\ UNCHANGED <<bits, size, xor, limit>>

\* The last byte, and the return of what has matched so far.
ByteStep ==
  /\ pc = "byte"
  /\ LET now == IF size >= i + 1 THEN prefixlen + Matched(1, xor[i]) ELSE prefixlen
     IN prefixlen' = now /\ Return(IF size >= i + 1 /\ now >= limit THEN limit ELSE now)
  /\ UNCHANGED <<bits, size, xor, limit>>

Next == WordStep \/ HalfStep \/ ByteStep

Spec == Init /\ [][Next]_vars
-----------------------------------------------------------------------------
\* extract_bit() of the difference: bit 0 is the most significant of byte 0.
DiffBit(j) == xor[j \div bits][bits - 1 - (j % bits)]

\* The leading bits that are equal, up to the shorter prefix.
CommonPrefix == Max({l \in 0..limit : \A j \in 0..(l - 1) : DiffBit(j) = 0})

(* The word-wise loop returns the number of leading bits the node and the key   *)
(* share, up to the shorter prefix, for every data size, wherever the limit and *)
(* the first difference lie in a word.                                          *)
MatchIsLongest == pc = "done" => result = CommonPrefix
=============================================================================
