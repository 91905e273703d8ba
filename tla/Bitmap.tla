-------------------------------- MODULE Bitmap --------------------------------
(***************************************************************************)
(* shims/lib/bitmap.c: bitmaps as arrays of words of W bits, a word being  *)
(* the set of its bits. The functions work word by word; those that read   *)
(* or count mask the last word of a size that does not fill it, others     *)
(* leave bits past the end there. A caller may name one bitmap for several *)
(* arguments.                                                              *)
(***************************************************************************)
EXTENDS Integers, FiniteSets

CONSTANTS
  Map,    \* bitmaps
  W, N    \* BITS_PER_LONG; words of each bitmap

BitmapAssumption == W \in Nat \ {0} /\ N \in [Map -> Nat]

VARIABLES map, call, ret   \* the words of each bitmap; the call under way, its result

vars == <<map, call, ret>>

BitIndex == 0..W - 1
Index(m) == 0..N[m] - 1

\* As BitSet sees it.
Set == [m \in Map |-> {i \in 0..W * N[m] - 1 : i % W \in map[m][i \div W]}]
Abstract == INSTANCE BitSet WITH set <- Set
Calls == Abstract!Calls
NoCall == Abstract!NoCall

Init ==
  /\ map = [m \in Map |-> [k \in Index(m) |-> {}]]
  /\ call = NoCall /\ ret = 0

BITS_TO_LONGS(bits) == (bits + W - 1) \div W

\* One bit short.
LastWordMaskShort(bits) == IF bits % W = 0 THEN BitIndex ELSE 0..(bits % W) - 2

\* ~0UL >> (-bits & (BITS_PER_LONG - 1))
BITMAP_LAST_WORD_MASK(bits) == IF bits % W = 0 THEN BitIndex ELSE 0..(bits % W) - 1

\* ~0UL << (start & (BITS_PER_LONG - 1))
BITMAP_FIRST_WORD_MASK(start) == {b \in BitIndex : b >= start % W}

\* The words a call on bits reads: bits / BITS_PER_LONG whole ones, and the next one
\* through the mask if bits is not a multiple.
Masked(words, bits) ==
  [k \in 0..BITS_TO_LONGS(bits) - 1 |->
     IF k < bits \div W THEN words[k] ELSE words[k] \cap BITMAP_LAST_WORD_MASK(bits)]

Zero(words) == \A k \in DOMAIN words : words[k] = {}
Combine(F(_, _), s, t) == [k \in (DOMAIN s) \cap (DOMAIN t) |-> F(s[k], t[k])]
WAnd(x, y) == x \cap y
WOr(x, y) == x \cup y
WXor(x, y) == (x \ y) \cup (y \ x)
WAndNot(x, y) == x \ y

\* The sum of hweight_long() over the words.
hweight(words) == Cardinality({p \in (DOMAIN words) \X BitIndex : p[2] \in words[p[1]]})

Begin(k) == call' = k

\* dst[i] = words[i] for the words given; the rest of dst stays.
Store(dst, words) ==
  map' = [map EXCEPT ![dst] =
            [i \in Index(dst) |-> IF i \in DOMAIN words THEN words[i] ELSE map[dst][i]]]

Ask(k, answer) == Begin(k) /\ ret' = answer /\ UNCHANGED map

Whole(words, bits) == [i \in 0..BITS_TO_LONGS(bits) - 1 |-> words[i]]

bitmap_equal(k) ==
  k.op = "equal" /\ Ask(k, Zero(Masked(Combine(WXor, map[k.a], map[k.b]), k.bits)))
bitmap_or_equal(k) ==
  k.op = "or_equal" /\ Ask(k, Zero(Masked(Combine(WXor, Combine(WOr, map[k.a], map[k.b]), map[k.c]), k.bits)))
bitmap_intersects(k) ==
  k.op = "intersects" /\ Ask(k, ~Zero(Masked(Combine(WAnd, map[k.a], map[k.b]), k.bits)))
bitmap_subset(k) ==
  k.op = "subset" /\ Ask(k, Zero(Masked(Combine(WAndNot, map[k.a], map[k.b]), k.bits)))
bitmap_weight(k) ==
  k.op = "weight" /\ Ask(k, hweight(Masked(map[k.a], k.bits)))
bitmap_weight_and(k) ==
  k.op = "weight_and" /\ Ask(k, hweight(Masked(Combine(WAnd, map[k.a], map[k.b]), k.bits)))
bitmap_weight_andnot(k) ==
  k.op = "weight_andnot" /\ Ask(k, hweight(Masked(Combine(WAndNot, map[k.a], map[k.b]), k.bits)))

bitmap_complement(k) ==
  /\ k.op = "complement" /\ Begin(k) /\ ret' = 0
  /\ Store(k.dst, Whole([i \in Index(k.a) |-> BitIndex \ map[k.a][i]], k.bits))

StoreMasked(k, words) ==
  /\ Begin(k)
  /\ Store(k.dst, Masked(words, k.bits)) /\ ret' = ~Zero(Masked(words, k.bits))

bitmap_and(k) == k.op = "and" /\ StoreMasked(k, Combine(WAnd, map[k.a], map[k.b]))
bitmap_andnot(k) == k.op = "andnot" /\ StoreMasked(k, Combine(WAndNot, map[k.a], map[k.b]))

bitmap_or(k) ==
  /\ k.op = "or" /\ Begin(k) /\ ret' = 0
  /\ Store(k.dst, Whole(Combine(WOr, map[k.a], map[k.b]), k.bits))
bitmap_xor(k) ==
  /\ k.op = "xor" /\ Begin(k) /\ ret' = 0
  /\ Store(k.dst, Whole(Combine(WXor, map[k.a], map[k.b]), k.bits))

\* Stored whole, counted through the mask.
StoreWeighted(k, words) ==
  /\ Begin(k)
  /\ Store(k.dst, Whole(words, k.bits)) /\ ret' = hweight(Masked(words, k.bits))

bitmap_weighted_or(k) == k.op = "weighted_or" /\ StoreWeighted(k, Combine(WOr, map[k.a], map[k.b]))
bitmap_weighted_xor(k) == k.op = "weighted_xor" /\ StoreWeighted(k, Combine(WXor, map[k.a], map[k.b]))

bitmap_replace(k) ==
  /\ k.op = "replace" /\ Begin(k) /\ ret' = 0
  /\ Store(k.dst, Whole(Combine(WOr, Combine(WAndNot, map[k.a], map[k.c]),
                                     Combine(WAnd, map[k.b], map[k.c])), k.bits))

\* What the loop of set and clear does with word i: nothing before the first word or
\* once len is used up; else the first word from start on, the last up to the end.
RangeMask(i, start, len) ==
  LET first == start \div W
      lead == IF i = first THEN BITMAP_FIRST_WORD_MASK(start) ELSE BitIndex
      left == IF i = first THEN len ELSE start + len - i * W
      room == IF i = first THEN W - (start % W) ELSE W
  IN IF i < first \/ left <= 0 THEN {}
     ELSE IF left >= room THEN lead ELSE lead \cap BITMAP_LAST_WORD_MASK(start + len)

bitmap_set(k) ==
  /\ k.op = "set" /\ Begin(k) /\ ret' = 0
  /\ Store(k.dst, [i \in Index(k.dst) |-> map[k.dst][i] \cup RangeMask(i, k.start, k.len)])
bitmap_clear(k) ==
  /\ k.op = "clear" /\ Begin(k) /\ ret' = 0
  /\ Store(k.dst, [i \in Index(k.dst) |-> map[k.dst][i] \ RangeMask(i, k.start, k.len)])

Return == call # NoCall /\ call' = NoCall /\ ret' = 0 /\ UNCHANGED map

Next ==
  \/ Return
  \/ /\ call = NoCall
     /\ \E k \in Calls :
          \/ bitmap_equal(k) \/ bitmap_or_equal(k) \/ bitmap_intersects(k) \/ bitmap_subset(k)
          \/ bitmap_weight(k) \/ bitmap_weight_and(k) \/ bitmap_weight_andnot(k)
          \/ bitmap_complement(k) \/ bitmap_and(k) \/ bitmap_andnot(k) \/ bitmap_or(k) \/ bitmap_xor(k)
          \/ bitmap_weighted_or(k) \/ bitmap_weighted_xor(k) \/ bitmap_replace(k)
          \/ bitmap_set(k) \/ bitmap_clear(k)

Spec == Init /\ [][Next]_vars
-----------------------------------------------------------------------------
(* Whatever calls came before and whatever they left past the end of a bitmap,   *)
(* each function returns and stores what the set operation says, and writes no   *)
(* word and, in set and clear, no bit it was not given.                          *)
ImplementsBitSet == Abstract!Spec
=============================================================================
