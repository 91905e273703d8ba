-------------------------------- MODULE BitSet --------------------------------
(***************************************************************************)
(* What the bitmap functions promise: a bitmap is a set of positions, and  *)
(* a call on the first "bits" positions computes the set operation on      *)
(* them. What it leaves in the rest of the last word is not specified;     *)
(* past that word, and outside a range, it changes nothing.                *)
(***************************************************************************)
EXTENDS Integers, FiniteSets

CONSTANTS
  Map,     \* bitmaps
  W, N     \* BITS_PER_LONG; words of each bitmap

VARIABLES set, call, ret   \* positions in each bitmap; the call under way, its result

Position(m) == 0..W * N[m] - 1
Sizes == UNION {0..W * N[m] : m \in Map}
Low(bits) == 0..bits - 1

Compute == {"complement", "and", "or", "xor", "andnot", "weighted_or", "weighted_xor", "replace"}
Ask == {"equal", "or_equal", "intersects", "subset", "weight", "weight_and", "weight_andnot"}
\* An argument that a function does not have repeats another one, and the size fits in all.
Calls ==
  {k \in [op : Compute \cup Ask, dst : Map, a : Map, b : Map, c : Map, bits : Sizes] :
     /\ \A m \in {k.dst, k.a, k.b, k.c} : k.bits <= W * N[m]
     /\ k.op \in Ask => k.dst = k.a
     /\ k.op \in {"complement", "weight"} => k.b = k.a
     /\ k.op \notin {"or_equal", "replace"} => k.c = k.a}
  \cup {k \in [op : {"set", "clear"}, dst : Map, start : Sizes, len : Sizes] :
          k.start < W * N[k.dst] /\ k.start + k.len <= W * N[k.dst]}
NoCall == [op |-> "none"]

Init == set = [m \in Map |-> {}] /\ call = NoCall /\ ret = 0

Xor(s, t) == (s \ t) \cup (t \ s)

\* The set that op makes of the sets x, y and z, within low.
Computed(op, x, y, z, low) ==
  CASE op = "complement" -> low \ x
    [] op = "and" -> x \cap y
    [] op = "andnot" -> x \ y
    [] op \in {"or", "weighted_or"} -> x \cup y
    [] op \in {"xor", "weighted_xor"} -> Xor(x, y)
    [] op = "replace" -> (x \ z) \cup (y \cap z)

\* What op returns; v is the set it makes. Functions without a result return 0.
Result(op, x, y, z, v) ==
  CASE op \in {"and", "andnot"} -> v # {}
    [] op \in {"weighted_or", "weighted_xor"} -> Cardinality(v)
    [] op = "equal" -> x = y
    [] op = "or_equal" -> x \cup y = z
    [] op = "intersects" -> x \cap y # {}
    [] op = "subset" -> x \subseteq y
    [] op = "weight" -> Cardinality(x)
    [] op = "weight_and" -> Cardinality(x \cap y)
    [] op = "weight_andnot" -> Cardinality(x \ y)
    [] OTHER -> 0

\* The words that hold the first bits positions.
WholeWords(bits) == 0..W * ((bits + W - 1) \div W) - 1

Effect(k) ==
  LET low == Low(k.bits)
      x == set[k.a] \cap low
      y == set[k.b] \cap low
      z == set[k.c] \cap low
  IN IF k.op \in Ask
     THEN set' = set /\ ret' = Result(k.op, x, y, z, {})
     ELSE LET v == Computed(k.op, x, y, z, low)
          IN /\ ret' = Result(k.op, x, y, z, v)
             /\ set'[k.dst] \cap low = v
             /\ set'[k.dst] \ WholeWords(k.bits) = set[k.dst] \ WholeWords(k.bits)
             /\ \A m \in Map \ {k.dst} : set'[m] = set[m]

RangeEffect(k) ==
  LET range == k.start..k.start + k.len - 1
  IN /\ set' = [set EXCEPT ![k.dst] = IF k.op = "set" THEN @ \cup range ELSE @ \ range]
     /\ ret' = 0

Perform ==
  /\ call = NoCall /\ call' \in Calls
  /\ IF call'.op \in {"set", "clear"} THEN RangeEffect(call') ELSE Effect(call')

Return == call # NoCall /\ call' = NoCall /\ ret' = 0 /\ UNCHANGED set

Next == Perform \/ Return

Spec == Init /\ [][Next]_<<set, call, ret>>
=============================================================================
