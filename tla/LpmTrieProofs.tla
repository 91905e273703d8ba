--------------------------- MODULE LpmTrieProofs ----------------------------
(***************************************************************************)
(* For every size of key, pool and map: the trie of lpm_trie.c is sound    *)
(* after every call, whatever error ended it, a lookup returns the longest *)
(* stored prefix, and the trie implements the map of prefixes.             *)
(*                                                                         *)
(* TrieSound speaks of what the root reaches, level by level, which is no  *)
(* base for an induction: changing one pointer moves a whole subtree.  The *)
(* inductive invariant TrieInv speaks of the used slots and their pointers *)
(* only: each used node has exactly one pointer to it and extends the node *)
(* that holds it.  That the root reaches exactly the used nodes, and that  *)
(* the loops of update, delete and lookup come to every node that agrees   *)
(* with the key, follow from it, for prefixes grow on the way down.        *)
(***************************************************************************)
EXTENDS LpmTrie, FiniteSetTheorems, WellFoundedInduction, TLAPS

-----------------------------------------------------------------------------
(* Numbers *)

Less == OpToRel(<, Nat)

\* The order of the naturals as a relation, for the theorems on well-founded relations.
LEMMA LessIsLess == \A x, y \in Nat : <<x, y>> \in Less <=> x < y
  BY DEF Less, OpToRel

\* Every nonempty set of naturals has a least element.
LEMMA LeastNatural ==
  ASSUME NEW T, T \subseteq Nat, T # {}
  PROVE  \E x \in T : \A y \in T : x <= y
<1>1. IsWellFoundedOn(Less, Nat)
  BY NatLessThanWellFounded DEF Less
<1>2. PICK x \in T : \A y \in T : ~(<<y, x>> \in Less)
  BY <1>1, WFMin
<1>3. ASSUME NEW y \in T  PROVE  x <= y
  <2>1. x \in Nat /\ y \in Nat
    OBVIOUS
  <2>2. ~(y < x)
    BY <2>1, <1>2, LessIsLess
  <2>. QED
    BY <2>1, <2>2
<1>. QED
  BY <1>3

\* A nonempty bounded set of naturals has a greatest one, which Max returns.
LEMMA MaxIs ==
  ASSUME NEW n \in Nat, NEW T, T \subseteq 0..n, T # {}
  PROVE  Max(T) \in T /\ \A y \in T : Max(T) >= y
<1>. DEFINE U == {n - x : x \in T}
<1>0. \A x \in T : x \in Nat /\ n - x \in Nat
  OBVIOUS
<1>1. U \subseteq Nat /\ U # {}
  BY <1>0
<1>2. PICK z \in U : \A y \in U : z <= y
  <2>. HIDE DEF U
  <2>. QED
    BY <1>1, LeastNatural
<1>3. PICK x \in T : z = n - x
  BY <1>2
<1>4. \A y \in T : x >= y
  <2>. TAKE y \in T
  <2>1. n - y \in U
    OBVIOUS
  <2>2. n - x <= n - y
    BY <1>2, <1>3, <2>1
  <2>. QED
    BY <2>2
<1>. HIDE DEF U
<1>. QED
  BY <1>4, Zenon DEF Max

\* A recursive function over a bounded range: the values of a loop.
LEMMA LoopHas ==
  ASSUME NEW n \in Nat, NEW W, NEW a \in W, NEW f \in [W -> W]
  PROVE  \E g \in [0..n -> W] : g[0] = a /\ \A k \in 1..n : g[k] = f[g[k - 1]]
<1>. DEFINE Has(k) == \E g \in [0..k -> W] : g[0] = a /\ \A j \in 1..k : g[j] = f[g[j - 1]]
            T == {k \in 0..n : ~Has(k)}
<1>. SUFFICES ASSUME T # {}  PROVE  FALSE
  <2>1. n \in 0..n
    OBVIOUS
  <2>. QED
    BY <2>1
<1>1. PICK k \in T : \A y \in T : k <= y
  <2>1. T \subseteq Nat
    OBVIOUS
  <2>. HIDE DEF T
  <2>. QED
    BY <2>1, LeastNatural
<1>2. k \in Nat /\ k <= n /\ ~Has(k)
  OBVIOUS
<1>3. CASE k = 0
  <2>. DEFINE g == [j \in 0..0 |-> a]
  <2>1. g \in [0..k -> W] /\ g[0] = a /\ \A j \in 1..k : g[j] = f[g[j - 1]]
    BY <1>3
  <2>. QED
    BY <1>2, <2>1
<1>4. CASE k # 0
  <2>1. k - 1 \in 0..n /\ k - 1 \notin T
    <3>. HIDE DEF T
    <3>. QED
      BY <1>1, <1>2, <1>4
  <2>2. Has(k - 1)
    BY <2>1
  <2>3. PICK h \in [0..(k - 1) -> W] : h[0] = a /\ \A j \in 1..(k - 1) : h[j] = f[h[j - 1]]
    BY <2>2
  <2>. DEFINE g == [j \in 0..k |-> IF j = k THEN f[h[k - 1]] ELSE h[j]]
  <2>4. \A j \in 0..k : j # k => j \in 0..(k - 1)
    BY <1>2
  <2>5. h[k - 1] \in W
    BY <1>2, <1>4
  <2>6. g \in [0..k -> W]
    BY <2>4, <2>5
  <2>7. g[0] = a
    BY <1>2, <1>4, <2>3
  <2>8. \A j \in 1..k : g[j] = f[g[j - 1]]
    <3>. TAKE j \in 1..k
    <3>1. j - 1 \in 0..k /\ j - 1 # k /\ j \in 0..k
      BY <1>2
    <3>2. g[j - 1] = h[j - 1]
      BY <3>1
    <3>3. CASE j = k
      BY <3>2, <3>3
    <3>4. CASE j # k
      <4>1. j \in 1..(k - 1)
        BY <1>2, <3>4
      <4>. QED
        BY <2>3, <3>1, <3>2, <3>4, <4>1
    <3>. QED
      BY <3>3, <3>4
  <2>. QED
    <3>. HIDE DEF g
    <3>. QED
      BY <1>2, <2>6, <2>7, <2>8
<1>. QED
  BY <1>3, <1>4
-----------------------------------------------------------------------------
(* Nodes, keys and their bits *)

Node == [child : [0..1 -> {NULL} \cup Slot], prefixlen : 0..MaxPrefixLen,
         data : Data, im : BOOLEAN, value : Value \cup {None}]
Memory == [{Trie} \cup Slot -> Node]

Child(m, x, b) == m[x].child[b]
PLen(m, x) == m[x].prefixlen
PBit(m, x, j) == extract_bit(m[x].data, j)
KBit(key, j) == extract_bit(key.data, j)
Inner(m, x) == m[x].im

\* The sizes of a byte, of the data and of the longest prefix are positive.
LEMMA Lengths == /\ MaxPrefixLen \in Nat \ {0} /\ DataSize \in Nat \ {0} /\ ByteBits \in Nat \ {0}
                 /\ MaxPrefixLen = DataSize * ByteBits
<1>1. DataSize \in Nat \ {0} /\ ByteBits \in Nat \ {0}
  BY LpmAssumption
<1>2. DataSize * ByteBits \in Nat \ {0}
  BY <1>1
<1>. QED
  BY <1>1, <1>2 DEF MaxPrefixLen

\* extract_bit() of a bit the data has is 0 or 1.
LEMMA BitIs ==
  ASSUME NEW data \in Data, NEW j \in 0..(MaxPrefixLen - 1)
  PROVE  extract_bit(data, j) \in 0..1
<1>. DEFINE q == j \div ByteBits
            r == j % ByteBits
            x == ByteBits * q
<1>0. MaxPrefixLen \in Nat /\ DataSize \in Nat \ {0} /\ ByteBits \in Nat \ {0} /\ MaxPrefixLen = DataSize * ByteBits
  BY Lengths
<1>1. q \in Nat /\ r \in 0..(ByteBits - 1) /\ j = ByteBits * q + r
  BY <1>0
<1>. HIDE DEF q, r
<1>2. x \in Nat /\ x < MaxPrefixLen
  BY <1>0, <1>1
<1>3. q < DataSize
  <2>. SUFFICES ASSUME q >= DataSize  PROVE  FALSE
    BY <1>0, <1>1
  <2>1. ByteBits * q >= ByteBits * DataSize
    BY <1>0, <1>1
  <2>2. ByteBits * DataSize = DataSize * ByteBits
    BY <1>0
  <2>. QED
    BY <1>0, <1>1, <1>2, <2>1, <2>2
<1>4. q \in 0..(DataSize - 1) /\ ByteBits - 1 - r \in 0..(ByteBits - 1)
  BY <1>0, <1>1, <1>3
<1>5. data[q][ByteBits - 1 - r] \in 0..1
  BY <1>4 DEF Data
<1>. QED
  BY <1>5 DEF extract_bit, q, r

\* What the type of the memory says of a node.
LEMMA NodeIs ==
  ASSUME NEW m \in Memory, NEW x \in {Trie} \cup Slot
  PROVE  /\ m[x] \in Node
         /\ PLen(m, x) \in Nat /\ PLen(m, x) <= MaxPrefixLen /\ PLen(m, x) \in 0..MaxPrefixLen
         /\ Inner(m, x) \in BOOLEAN
         /\ \A b \in 0..1 : Child(m, x, b) \in {NULL} \cup Slot
         /\ \A j \in 0..(MaxPrefixLen - 1) : PBit(m, x, j) \in 0..1
<1>0. MaxPrefixLen \in Nat
  BY Lengths
<1>1. m[x] \in Node
  BY DEF Memory
<1>2. m[x].prefixlen \in 0..MaxPrefixLen /\ m[x].im \in BOOLEAN /\ m[x].data \in Data
      /\ m[x].child \in [0..1 -> {NULL} \cup Slot]
  BY <1>1 DEF Node
<1>3. PLen(m, x) \in Nat /\ PLen(m, x) <= MaxPrefixLen
  BY <1>0, <1>2 DEF PLen
<1>4. \A j \in 0..(MaxPrefixLen - 1) : PBit(m, x, j) \in 0..1
  BY <1>2, BitIs DEF PBit
<1>5. \A b \in 0..1 : Child(m, x, b) \in {NULL} \cup Slot
  BY <1>2 DEF Child
<1>. QED
  BY <1>1, <1>2, <1>3, <1>4, <1>5 DEF Inner, PLen

\* What the type of a key says of it.
LEMMA KeyIs ==
  ASSUME NEW key \in ValidKey
  PROVE  /\ key \in Key /\ key.prefixlen \in Nat /\ key.prefixlen <= MaxPrefixLen /\ key.data \in Data
         /\ key.prefixlen \in 0..MaxPrefixLen
         /\ \A j \in 0..(MaxPrefixLen - 1) : KBit(key, j) \in 0..1
<1>1. key.data \in Data /\ key.prefixlen \in 0..(MaxPrefixLen + 1) /\ key.prefixlen <= MaxPrefixLen /\ key \in Key
  BY DEF ValidKey, Key
<1>2. key.prefixlen \in Nat /\ key.prefixlen \in 0..MaxPrefixLen
  BY <1>1, Lengths
<1>. QED
  BY <1>1, <1>2, BitIs DEF KBit

\* The length of the match: the bits below it agree, and the next differs if both have one.
Match(n, key, l) ==
  /\ l \in Nat /\ l <= PLen(mem, n) /\ l <= key.prefixlen /\ l \in 0..MaxPrefixLen
  /\ \A j \in 0..(l - 1) : PBit(mem, n, j) = KBit(key, j)
  /\ (l < PLen(mem, n) /\ l < key.prefixlen) => PBit(mem, n, l) # KBit(key, l)

\* longest_prefix_match() returns that length.
LEMMA MatchIs ==
  ASSUME mem \in Memory, NEW n \in Slot, NEW key \in ValidKey
  PROVE  Match(n, key, longest_prefix_match(n, key))
<1>. DEFINE p == PLen(mem, n)
            k == key.prefixlen
            e == Lesser(p, k)
            T == {l \in 0..e : \A j \in 0..(l - 1) : PBit(mem, n, j) = KBit(key, j)}
            l == longest_prefix_match(n, key)
<1>1. p \in Nat /\ k \in Nat /\ p <= MaxPrefixLen /\ MaxPrefixLen \in Nat
  BY NodeIs, KeyIs, Lengths
<1>2. l = Max(T)
  BY DEF longest_prefix_match, PBit, KBit, PLen
<1>. HIDE DEF p, k, l
<1>3. e \in Nat /\ e <= p /\ e <= k /\ (e = p \/ e = k)
  BY <1>1 DEF Lesser
<1>. HIDE DEF e
<1>4. 0 \in T /\ T \subseteq 0..e
  BY <1>3
<1>5. l \in T /\ \A y \in T : l >= y
  <2>. HIDE DEF T
  <2>. QED
    BY <1>2, <1>3, <1>4, MaxIs, Zenon
<1>6. l \in Nat /\ l <= e /\ \A j \in 0..(l - 1) : PBit(mem, n, j) = KBit(key, j)
  BY <1>3, <1>5
<1>7. ASSUME l < p, l < k, PBit(mem, n, l) = KBit(key, l)  PROVE  FALSE
  <2>1. l + 1 \in 0..e /\ (l + 1) - 1 = l
    BY <1>1, <1>3, <1>6, <1>7
  <2>2. \A j \in 0..((l + 1) - 1) : PBit(mem, n, j) = KBit(key, j)
    <3>. TAKE j \in 0..((l + 1) - 1)
    <3>1. j = l \/ j \in 0..(l - 1)
      BY <1>6
    <3>. QED
      BY <1>6, <1>7, <3>1
  <2>3. l + 1 \in T
    BY <2>1, <2>2
  <2>4. l >= l + 1
    <3>. HIDE DEF T
    <3>. QED
      BY <1>5, <2>3
  <2>. QED
    BY <1>6, <2>4
<1>8. l \in Nat /\ l <= p /\ l <= k /\ l \in 0..MaxPrefixLen
  BY <1>1, <1>3, <1>6
<1>. QED
  BY <1>6, <1>7, <1>8 DEF Match, p, k, l
-----------------------------------------------------------------------------
(* The shape of the trie, stated of its pointers *)

\* Pointer b of x is one of the trie's.
Holds(u, x, b) == (x = Trie /\ b = 0) \/ (x \in u /\ b \in 0..1)

\* c extends x on side b.
Below(m, x, b, c) ==
  /\ PLen(m, x) < PLen(m, c)
  /\ \A j \in 0..(PLen(m, x) - 1) : PBit(m, c, j) = PBit(m, x, j)
  /\ PBit(m, c, PLen(m, x)) = b

\* Pointers lead to used nodes, each node has one, and a child extends its parent.
Closed(m, u) ==
  \A x \in {Trie} \cup u, b \in 0..1 : Holds(u, x, b) => Child(m, x, b) \in u \cup {NULL}
Owned(m, u) ==
  \A n \in u : \E x \in {Trie} \cup u, b \in 0..1 : Holds(u, x, b) /\ Child(m, x, b) = n
Single(m, u) ==
  \A x, y \in {Trie} \cup u, b, c \in 0..1 :
    /\ Holds(u, x, b) /\ Holds(u, y, c)
    /\ Child(m, x, b) = Child(m, y, c) /\ Child(m, x, b) # NULL
    => x = y /\ b = c
Nested(m, u) ==
  \A x \in u, b \in 0..1 : Child(m, x, b) # NULL => Below(m, x, b, Child(m, x, b))

Tree(m, u) ==
  /\ m \in Memory /\ u \subseteq Slot
  /\ Closed(m, u) /\ Owned(m, u) /\ Single(m, u) /\ Nested(m, u)

\* An intermediate node has two children; an entry has a value.
Two(m, u) == \A x \in u : Inner(m, x) => Child(m, x, 0) # NULL /\ Child(m, x, 1) # NULL
Valued(m, u) == \A x \in u : ~Inner(m, x) => m[x].value \in Value
Stored(m, u) == {x \in u : ~Inner(m, x)}

\* The inductive invariant.
TrieInv ==
  /\ Tree(mem, used) /\ Two(mem, used) /\ Valued(mem, used)
  /\ nEntries = Cardinality(Stored(mem, used)) /\ nEntries <= MaxEntries
  /\ ret \in Results /\ PoolSuffices

\* The root pointer, the null pointer and the slots are different things.
LEMMA Pointers == Trie \notin Slot /\ NULL \notin Slot /\ NULL # Trie /\ IsFiniteSet(Slot)
  BY LpmAssumption

-----------------------------------------------------------------------------
(* The loop of update and delete *)

\* The bits of node n and the key agree as far as n has some.
Agrees(m, n, key) ==
  PLen(m, n) <= key.prefixlen /\ \A j \in 0..(PLen(m, n) - 1) : PBit(m, n, j) = KBit(key, j)

Visited(key, slot, trim2, parent) ==
  LET node == Deref(slot)
  IN  [slot |-> slot, trim2 |-> trim2, parent |-> parent, node |-> node,
       matchlen |-> IF node = NULL THEN 0 ELSE longest_prefix_match(node, key)]
Ends(key, w) ==
  \/ w.node = NULL
  \/ mem[w.node].prefixlen # w.matchlen
  \/ mem[w.node].prefixlen = key.prefixlen
First(key) == Visited(key, <<Trie, 0>>, <<Trie, 0>>, NULL)
Turn(key, w) ==
  IF Ends(key, w) THEN w
  ELSE Visited(key, <<w.node, extract_bit(key.data, mem[w.node].prefixlen)>>, w.slot, w.node)
Turns(key, f) == [k \in 0..(MaxPrefixLen + 1) |-> IF k = 0 THEN First(key) ELSE Turn(key, f[k - 1])]

\* Walk(key) is the last turn of a loop over the locals.
LEMMA WalkIsLoop ==
  ASSUME NEW key
  PROVE  Walk(key) = (CHOOSE f : f = Turns(key, f))[MaxPrefixLen + 1]
  BY DEF Walk, Turns, First, Turn, Ends, Visited

\* What holds of the locals in every turn: the pointer is one of the trie's, and it hangs
\* below a node that agrees with the key, on the side of the key's next bit.
Position(w) == Holds(used, w.slot[1], w.slot[2]) /\ w.node = Child(mem, w.slot[1], w.slot[2])
UnderParent(key, w) ==
  /\ w.parent \in used /\ w.slot[1] = w.parent
  /\ Agrees(mem, w.parent, key) /\ PLen(mem, w.parent) < key.prefixlen
  /\ w.slot[2] = KBit(key, PLen(mem, w.parent))
  /\ Holds(used, w.trim2[1], w.trim2[2]) /\ Child(mem, w.trim2[1], w.trim2[2]) = w.parent
Sound(key, w) ==
  /\ Position(w)
  /\ w.matchlen = (IF w.node = NULL THEN 0 ELSE longest_prefix_match(w.node, key))
  /\ (w.slot[1] = Trie /\ w.parent = NULL) \/ UnderParent(key, w)
Pointer == ({Trie} \cup Slot) \X (0..1)
Local == [slot : Pointer, trim2 : Pointer, parent : {NULL} \cup Slot, node : {NULL} \cup Slot,
          matchlen : 0..MaxPrefixLen]
Locals(key) == {w \in Local : Sound(key, w)}

\* The locals after a visit.
Visit(key, x, b, t, p, w) ==
  /\ w \in Local /\ w.slot = <<x, b>> /\ w.trim2 = t /\ w.parent = p
  /\ w.node = Child(mem, x, b) /\ w.node \in used \cup {NULL} /\ Position(w)
  /\ w.matchlen = (IF w.node = NULL THEN 0 ELSE longest_prefix_match(w.node, key))

\* A visit at a pointer of the trie sets the locals to it and the node behind it.
LEMMA VisitIs ==
  ASSUME Tree(mem, used), NEW key \in ValidKey, NEW x \in {Trie} \cup Slot, NEW b \in 0..1,
         NEW t \in Pointer, NEW p \in {NULL} \cup Slot, Holds(used, x, b)
  PROVE  Visit(key, x, b, t, p, Visited(key, <<x, b>>, t, p))
<1>. DEFINE n == Child(mem, x, b)
            l == IF n = NULL THEN 0 ELSE longest_prefix_match(n, key)
            s == <<x, b>>
            w == Visited(key, <<x, b>>, t, p)
<1>1. n \in used \cup {NULL} /\ n \in {NULL} \cup Slot /\ mem \in Memory
  <2>1. x \in {Trie} \cup used
    BY DEF Holds
  <2>. QED
    BY <2>1 DEF Tree, Closed
<1>2. l \in 0..MaxPrefixLen
  <2>1. CASE n = NULL
    BY <2>1, Lengths
  <2>2. CASE n # NULL
    <3>1. n \in Slot
      BY <1>1, <2>2
    <3>2. longest_prefix_match(n, key) \in 0..MaxPrefixLen
      <4>. HIDE DEF n
      <4>. QED
        BY <1>1, <3>1, MatchIs DEF Match
    <3>. QED
      BY <2>2, <3>2
  <2>. QED
    BY <2>1, <2>2
<1>3. w = [slot |-> s, trim2 |-> t, parent |-> p, node |-> n, matchlen |-> l]
  BY DEF Visited, Deref, Child
<1>4. s \in Pointer /\ s[1] = x /\ s[2] = b
  BY DEF Pointer
<1>. HIDE DEF w, n, l, s
<1>5. w \in Local
  BY <1>1, <1>2, <1>3, <1>4 DEF Local
<1>6. w.slot = s /\ w.trim2 = t /\ w.parent = p /\ w.node = n /\ w.matchlen = l
  BY <1>3
<1>7. Position(w)
  BY <1>4, <1>6 DEF Position, n
<1>. QED
  BY <1>1, <1>5, <1>6, <1>7, Zenon DEF Visit, w, n, l, s

\* The loop begins at the root pointer.
LEMMA FirstIs ==
  ASSUME Tree(mem, used), NEW key \in ValidKey
  PROVE  First(key) \in Locals(key) /\ First(key).node \in used \cup {NULL} /\ First(key).node = Child(mem, Trie, 0)
<1>. DEFINE w == First(key)
            t == <<Trie, 0>>
<1>1. Holds(used, Trie, 0) /\ t \in Pointer /\ NULL \in {NULL} \cup Slot /\ Trie \in {Trie} \cup Slot /\ 0 \in 0..1
  BY DEF Holds, Pointer
<1>2. w = Visited(key, <<Trie, 0>>, t, NULL)
  BY DEF First
<1>3. /\ w \in Local /\ w.slot = t /\ w.parent = NULL /\ w.node \in used \cup {NULL} /\ Position(w)
      /\ w.node = Child(mem, Trie, 0)
      /\ w.matchlen = (IF w.node = NULL THEN 0 ELSE longest_prefix_match(w.node, key))
  <2>. HIDE DEF t
  <2>1. Visit(key, Trie, 0, t, NULL, Visited(key, <<Trie, 0>>, t, NULL))
    BY <1>1, VisitIs
  <2>. HIDE DEF w
  <2>2. Visit(key, Trie, 0, t, NULL, w)
    BY <1>2, <2>1
  <2>. QED
    BY <2>2, Zenon DEF Visit, t
<1>4. t[1] = Trie
  OBVIOUS
<1>. HIDE DEF w, t
<1>5. Sound(key, w)
  BY <1>3, <1>4, Zenon DEF Sound
<1>. QED
  BY <1>3, <1>5 DEF Locals, w

\* A turn that does not end the loop goes one node down.
LEMMA TurnIs ==
  ASSUME Tree(mem, used), NEW key \in ValidKey, NEW w \in Locals(key), ~Ends(key, w)
  PROVE  /\ w.node \in used /\ Agrees(mem, w.node, key) /\ PLen(mem, w.node) < key.prefixlen
         /\ KBit(key, PLen(mem, w.node)) \in 0..1
         /\ Turn(key, w) \in Locals(key)
         /\ Turn(key, w).node = Child(mem, w.node, KBit(key, PLen(mem, w.node)))
         /\ Turn(key, w).node \in used \cup {NULL}
<1>. DEFINE n == w.node
            b == KBit(key, PLen(mem, n))
            v == Turn(key, w)
<1>1. n # NULL /\ PLen(mem, n) = w.matchlen /\ PLen(mem, n) # key.prefixlen
  BY DEF Ends, PLen
<1>2. /\ w \in Local /\ Position(w) /\ w.matchlen = longest_prefix_match(n, key)
      /\ w.slot \in Pointer /\ n \in {NULL} \cup Slot
  BY <1>1 DEF Locals, Sound, Local
<1>3. n \in used /\ n \in Slot /\ mem \in Memory
  <2>1. w.slot[1] \in {Trie} \cup used /\ w.slot[2] \in 0..1
    BY <1>2 DEF Position, Holds
  <2>2. n \in used \cup {NULL}
    BY <1>2, <2>1 DEF Position, Tree, Closed
  <2>. QED
    BY <1>1, <2>2 DEF Tree
<1>4. /\ PLen(mem, n) <= key.prefixlen /\ \A j \in 0..(PLen(mem, n) - 1) : PBit(mem, n, j) = KBit(key, j)
  <2>. HIDE DEF n
  <2>. QED
    BY <1>1, <1>2, <1>3, MatchIs DEF Match
<1>5. PLen(mem, n) < key.prefixlen /\ PLen(mem, n) \in 0..(MaxPrefixLen - 1)
  <2>1. PLen(mem, n) \in Nat /\ key.prefixlen \in Nat /\ key.prefixlen <= MaxPrefixLen /\ MaxPrefixLen \in Nat
    BY <1>3, NodeIs, KeyIs, Lengths
  <2>. QED
    BY <1>1, <1>4, <2>1
<1>6. b \in 0..1
  BY <1>5, KeyIs
<1>7. v = Visited(key, <<n, b>>, w.slot, n)
  BY DEF Turn, KBit, PLen
<1>8. Holds(used, n, b)
  BY <1>3, <1>6 DEF Holds
<1>9. Agrees(mem, n, key)
  BY <1>4 DEF Agrees
<1>. HIDE DEF n, b, v
<1>10. /\ v \in Local /\ v.slot = <<n, b>> /\ v.trim2 = w.slot /\ v.parent = n
       /\ v.node = Child(mem, n, b) /\ v.node \in used \cup {NULL} /\ Position(v)
       /\ v.matchlen = (IF v.node = NULL THEN 0 ELSE longest_prefix_match(v.node, key))
  <2>1. n \in {Trie} \cup Slot /\ n \in {NULL} \cup Slot /\ w.slot \in Pointer
    BY <1>2, <1>3
  <2>. QED
    <3>. DEFINE t == w.slot
    <3>1. t \in Pointer
      BY <2>1
    <3>. HIDE DEF t
    <3>2. Visit(key, n, b, t, n, Visited(key, <<n, b>>, t, n))
      BY <1>6, <1>8, <2>1, <3>1, VisitIs
    <3>3. Visit(key, n, b, t, n, v)
      BY <1>7, <3>2 DEF t
    <3>. QED
      BY <3>3, Zenon DEF Visit, t
<1>11. UnderParent(key, v)
  <2>1. v.slot[1] = n /\ v.slot[2] = b
    BY <1>10
  <2>. QED
    BY <1>2, <1>3, <1>5, <1>9, <1>10, <2>1, Zenon DEF UnderParent, Position, n, b
<1>12. v \in Locals(key)
  BY <1>10, <1>11, Zenon DEF Locals, Sound
<1>. QED
  BY <1>3, <1>5, <1>6, <1>9, <1>10, <1>12, Zenon DEF n, b, v

\* A turn keeps the invariant of the loop.
LEMMA TurnKeeps ==
  ASSUME Tree(mem, used), NEW key \in ValidKey, NEW w \in Locals(key)
  PROVE  Turn(key, w) \in Locals(key)
<1>1. CASE Ends(key, w)
  BY <1>1 DEF Turn
<1>2. CASE ~Ends(key, w)
  BY <1>2, TurnIs
<1>. QED
  BY <1>1, <1>2

\* The locals of all turns.
Run(key, g) ==
  /\ g \in [0..(MaxPrefixLen + 1) -> Locals(key)] /\ g[0] = First(key)
  /\ \A k \in 1..(MaxPrefixLen + 1) : g[k] = Turn(key, g[k - 1])

\* The loop has a run, whose last turn Walk(key) is.
LEMMA WalkRuns ==
  ASSUME Tree(mem, used), NEW key \in ValidKey
  PROVE  \E g : Run(key, g) /\ Walk(key) = g[MaxPrefixLen + 1]
<1>. DEFINE W == Locals(key)
            e == MaxPrefixLen + 1
            F == [w \in W |-> Turn(key, w)]
            a == First(key)
            h == CHOOSE f : f = Turns(key, f)
<1>1. e \in Nat
  BY Lengths
<1>2. a \in W /\ F \in [W -> W]
  BY FirstIs, TurnKeeps
<1>3. PICK g \in [0..e -> W] : g[0] = a /\ \A k \in 1..e : g[k] = F[g[k - 1]]
  <2>. HIDE DEF e, W, F, a
  <2>. QED
    BY <1>1, <1>2, LoopHas, SMTT(30)
<1>4. \A k \in 1..e : k - 1 \in 0..e /\ g[k - 1] \in W
  BY <1>1
<1>5. \A k \in 1..e : g[k] = Turn(key, g[k - 1])
  <2>. HIDE DEF W, e, a
  <2>. QED
    BY <1>3, <1>4
<1>6. Run(key, g)
  BY <1>3, <1>5 DEF Run
<1>. HIDE DEF W, F
<1>7. g = Turns(key, g)
  <2>1. g = [k \in 0..e |-> g[k]]
    OBVIOUS
  <2>2. \A k \in 0..e : g[k] = IF k = 0 THEN First(key) ELSE Turn(key, g[k - 1])
    <3>. TAKE k \in 0..e
    <3>1. k = 0 \/ k \in 1..e
      BY <1>1
    <3>2. 0 \notin 1..e
      BY <1>1
    <3>. HIDE DEF e
    <3>. QED
      BY <1>3, <1>5, <3>1, <3>2, Zenon
  <2>. QED
    BY <2>1, <2>2, Zenon DEF Turns
<1>8. h = Turns(key, h)
  BY <1>7, Zenon
<1>. HIDE DEF h
<1>9. \A k \in 0..e : h[k] = IF k = 0 THEN First(key) ELSE Turn(key, h[k - 1])
  BY <1>8, Zenon DEF Turns
<1>10. h[e] = g[e]
  <2>. DEFINE T == {k \in 0..e : h[k] # g[k]}
  <2>. SUFFICES ASSUME T # {}  PROVE  FALSE
    BY <1>1
  <2>1. PICK k \in T : \A y \in T : k <= y
    <3>1. T \subseteq Nat
      BY <1>1
    <3>. HIDE DEF T
    <3>. QED
      BY <3>1, LeastNatural
  <2>2. k \in 0..e /\ k \in Nat /\ h[k] # g[k]
    BY <1>1
  <2>. HIDE DEF e
  <2>3. CASE k = 0
    <3>1. h[k] = First(key)
      BY <1>9, <2>2, <2>3, Zenon
    <3>. QED
      BY <1>3, <2>2, <2>3, <3>1 DEF a
  <2>4. CASE k # 0
    <3>1. k \in 1..e /\ k - 1 \in 0..e /\ k - 1 \notin T
      <4>1. k \in 1..e /\ k - 1 \in 0..e /\ ~(k <= k - 1)
        BY <1>1, <2>2, <2>4
      <4>. HIDE DEF T
      <4>. QED
        BY <2>1, <4>1
    <3>2. h[k - 1] = g[k - 1]
      BY <3>1
    <3>3. h[k] = Turn(key, h[k - 1])
      BY <1>9, <2>2, <2>4, Zenon
    <3>4. g[k] = Turn(key, g[k - 1])
      BY <1>5, <3>1
    <3>. QED
      BY <2>2, <3>2, <3>3, <3>4, Zenon
  <2>. QED
    BY <2>3, <2>4
<1>. QED
  BY <1>6, <1>10, WalkIsLoop DEF h, e

\* A loop that has ended stays where it is.
LEMMA EndsStays ==
  ASSUME NEW key, NEW g, Run(key, g), NEW j \in 0..(MaxPrefixLen + 1), Ends(key, g[j])
  PROVE  g[MaxPrefixLen + 1] = g[j]
<1>. DEFINE e == MaxPrefixLen + 1
            T == {k \in 0..e : k >= j /\ g[k] # g[j]}
<1>1. e \in Nat
  BY Lengths
<1>. SUFFICES ASSUME T # {}  PROVE  FALSE
  BY <1>1
<1>2. PICK k \in T : \A y \in T : k <= y
  <2>1. T \subseteq Nat
    BY <1>1
  <2>. HIDE DEF T
  <2>. QED
    BY <2>1, LeastNatural
<1>3. k \in 0..e /\ k >= j /\ k # j /\ j \in 0..e
  OBVIOUS
<1>4. k \in 1..e /\ k - 1 \in 0..e /\ k - 1 >= j /\ ~(k <= k - 1)
  BY <1>1, <1>3
<1>5. k - 1 \notin T
  <2>. HIDE DEF T
  <2>. QED
    BY <1>2, <1>4
<1>6. g[k - 1] = g[j]
  BY <1>4, <1>5
<1>7. g[k] = Turn(key, g[k - 1])
  BY <1>4 DEF Run
<1>8. g[k] = g[j]
  BY <1>6, <1>7, Zenon DEF Turn
<1>. QED
  BY <1>2, <1>8

\* In a turn k that does not end the loop the node has at least k bits.
LEMMA TurnDeep ==
  ASSUME Tree(mem, used), NEW key \in ValidKey, NEW g, Run(key, g), NEW k \in 0..(MaxPrefixLen + 1)
  PROVE  Ends(key, g[k]) \/ (g[k].node \in used /\ PLen(mem, g[k].node) >= k)
<1>. DEFINE e == MaxPrefixLen + 1
            Deep(x) == Ends(key, g[x]) \/ (g[x].node \in used /\ PLen(mem, g[x].node) >= x)
            T == {x \in 0..e : ~Deep(x)}
<1>1. e \in Nat
  BY Lengths
<1>. SUFFICES ASSUME T # {}  PROVE  FALSE
  OBVIOUS
<1>2. PICK y \in T : \A z \in T : y <= z
  <2>1. T \subseteq Nat
    BY <1>1
  <2>. HIDE DEF T
  <2>. QED
    BY <2>1, LeastNatural
<1>3. y \in 0..e /\ y \in Nat /\ ~Ends(key, g[y]) /\ ~Deep(y)
  BY <1>1
<1>4. g[y] \in Locals(key)
  BY <1>3 DEF Run
<1>5. g[y].node \in used /\ mem \in Memory /\ used \subseteq Slot
  BY <1>3, <1>4, TurnIs DEF Tree
<1>6. PLen(mem, g[y].node) \in Nat
  BY <1>5, NodeIs
<1>7. CASE y = 0
  BY <1>3, <1>5, <1>6, <1>7
<1>8. CASE y # 0
  <2>. DEFINE v == g[y - 1]
              b == KBit(key, PLen(mem, v.node))
  <2>1. y \in 1..e /\ y - 1 \in 0..e /\ ~(y <= y - 1)
    BY <1>1, <1>3, <1>8
  <2>2. y - 1 \notin T
    <3>. HIDE DEF T
    <3>. QED
      BY <1>2, <2>1
  <2>3. v \in Locals(key) /\ g[y] = Turn(key, v)
    BY <2>1 DEF Run
  <2>4. ~Ends(key, v)
    BY <1>3, <2>3, Zenon DEF Turn
  <2>5. v.node \in used /\ PLen(mem, v.node) >= y - 1
    BY <2>1, <2>2, <2>4
  <2>. HIDE DEF v
  <2>6. b \in 0..1 /\ g[y].node = Child(mem, v.node, b)
    BY <2>3, <2>4, TurnIs
  <2>. HIDE DEF b
  <2>7. Child(mem, v.node, b) # NULL
    BY <1>5, <2>6, Pointers
  <2>8. PLen(mem, v.node) < PLen(mem, g[y].node)
    BY <2>5, <2>6, <2>7 DEF Tree, Nested, Below
  <2>9. PLen(mem, v.node) \in Nat
    BY <1>5, <2>5, NodeIs
  <2>10. PLen(mem, g[y].node) >= y
    BY <1>3, <1>6, <2>5, <2>8, <2>9
  <2>. QED
    BY <1>3, <1>5, <2>10
<1>. QED
  BY <1>7, <1>8

\* The loop has ended in its last turn, for a node has at most MaxPrefixLen bits.
LEMMA LoopEnds ==
  ASSUME Tree(mem, used), NEW key \in ValidKey, NEW g, Run(key, g)
  PROVE  Ends(key, g[MaxPrefixLen + 1])
<1>. DEFINE n == g[MaxPrefixLen + 1].node
<1>1. MaxPrefixLen + 1 \in 0..(MaxPrefixLen + 1) /\ MaxPrefixLen \in Nat
  BY Lengths
<1>. SUFFICES ASSUME n \in used, PLen(mem, n) >= MaxPrefixLen + 1  PROVE  FALSE
  BY <1>1, TurnDeep
<1>2. n \in Slot /\ mem \in Memory
  BY DEF Tree
<1>. HIDE DEF n
<1>3. PLen(mem, n) \in Nat /\ PLen(mem, n) <= MaxPrefixLen
  BY <1>2, NodeIs
<1>. QED
  BY <1>1, <1>3

\* The match with a node that agrees with the key is the node's whole prefix.
LEMMA AgreesMatch ==
  ASSUME mem \in Memory, NEW n \in Slot, NEW key \in ValidKey, Agrees(mem, n, key)
  PROVE  longest_prefix_match(n, key) = PLen(mem, n)
<1>. DEFINE q == longest_prefix_match(n, key)
<1>1. Match(n, key, q)
  BY MatchIs
<1>. HIDE DEF q
<1>2. q \in Nat /\ q <= PLen(mem, n) /\ PLen(mem, n) \in Nat /\ PLen(mem, n) <= key.prefixlen /\ key.prefixlen \in Nat
  BY <1>1, NodeIs, KeyIs DEF Match, Agrees
<1>3. ASSUME q < PLen(mem, n)  PROVE  FALSE
  <2>1. q \in 0..(PLen(mem, n) - 1) /\ q < key.prefixlen
    BY <1>2, <1>3
  <2>. QED
    BY <1>1, <1>3, <2>1 DEF Match, Agrees
<1>4. q = PLen(mem, n)
  BY <1>2, <1>3
<1>. QED
  BY <1>4 DEF q

\* A node's parent agrees with a key that the node agrees with.
LEMMA UpAgrees ==
  ASSUME NEW m \in Memory, NEW p \in Slot, NEW x \in Slot, NEW b, Below(m, p, b, x), NEW key \in ValidKey, Agrees(m, x, key)
  PROVE  Agrees(m, p, key) /\ KBit(key, PLen(m, p)) = b /\ PLen(m, p) < PLen(m, x) /\ PLen(m, p) < key.prefixlen
<1>1. /\ PLen(m, p) \in Nat /\ PLen(m, x) \in Nat /\ PLen(m, p) < PLen(m, x) /\ PLen(m, x) <= key.prefixlen
      /\ key.prefixlen \in Nat
  BY NodeIs, KeyIs DEF Below, Agrees
<1>2. \A j \in 0..PLen(m, p) : j \in 0..(PLen(m, x) - 1)
  BY <1>1
<1>3. \A j \in 0..PLen(m, p) : PBit(m, x, j) = KBit(key, j)
  BY <1>2 DEF Agrees
<1>4. PLen(m, p) \in 0..PLen(m, p) /\ \A j \in 0..(PLen(m, p) - 1) : j \in 0..PLen(m, p)
  BY <1>1
<1>5. PLen(m, p) <= key.prefixlen /\ PLen(m, p) < key.prefixlen
  BY <1>1
<1>. QED
  BY <1>1, <1>3, <1>4, <1>5 DEF Agrees, Below

\* Every node that agrees with the key is visited.
LEMMA AllVisited ==
  ASSUME Tree(mem, used), NEW key \in ValidKey, NEW g, Run(key, g), NEW n \in used, Agrees(mem, n, key)
  PROVE  \E j \in 0..PLen(mem, n) : g[j].node = n
<1>. DEFINE Seen(x) == \E j \in 0..PLen(mem, x) : g[j].node = x
            T == {PLen(mem, x) : x \in {y \in used : Agrees(mem, y, key) /\ ~Seen(y)}}
<1>. SUFFICES ASSUME T # {}  PROVE  FALSE
  OBVIOUS
<1>0. mem \in Memory /\ used \subseteq Slot /\ \A x \in used : PLen(mem, x) \in 0..MaxPrefixLen
  BY NodeIs DEF Tree
<1>1. PICK l \in T : \A z \in T : l <= z
  <2>1. T \subseteq Nat
    BY <1>0, Lengths
  <2>. HIDE DEF T
  <2>. QED
    BY <2>1, LeastNatural
<1>2. PICK x \in used : Agrees(mem, x, key) /\ ~Seen(x) /\ l = PLen(mem, x)
  BY <1>1
<1>3. PICK p \in {Trie} \cup used, b \in 0..1 : Holds(used, p, b) /\ Child(mem, p, b) = x
  BY DEF Tree, Owned
<1>4. x \in Slot /\ x # NULL /\ Trie \notin used /\ PLen(mem, x) \in Nat /\ MaxPrefixLen \in Nat
  BY <1>0, Pointers, Lengths
<1>5. CASE p = Trie
  <2>1. b = 0
    BY <1>3, <1>4, <1>5 DEF Holds
  <2>2. g[0].node = Child(mem, Trie, 0)
    BY FirstIs DEF Run
  <2>3. 0 \in 0..PLen(mem, x)
    BY <1>4
  <2>. QED
    BY <1>2, <1>3, <1>5, <2>1, <2>2, <2>3
<1>6. CASE p # Trie
  <2>1. p \in used /\ p \in Slot
    BY <1>0, <1>6
  <2>2. Below(mem, p, b, x)
    BY <1>3, <1>4, <2>1 DEF Tree, Nested
  <2>3. PLen(mem, p) \in Nat /\ PLen(mem, p) < PLen(mem, x) /\ PLen(mem, x) <= key.prefixlen
        /\ key.prefixlen \in Nat /\ PLen(mem, x) <= MaxPrefixLen
    BY <1>0, <1>2, <2>1, <2>2, KeyIs, Lengths DEF Below, Agrees
  <2>4. Agrees(mem, p, key)
    <3>1. \A j \in 0..(PLen(mem, p) - 1) : PBit(mem, p, j) = KBit(key, j)
      <4>. TAKE j \in 0..(PLen(mem, p) - 1)
      <4>1. j \in 0..(PLen(mem, x) - 1)
        BY <1>4, <2>3
      <4>2. PBit(mem, x, j) = KBit(key, j)
        BY <1>2, <4>1 DEF Agrees
      <4>3. PBit(mem, x, j) = PBit(mem, p, j)
        BY <2>2 DEF Below
      <4>. QED
        BY <4>2, <4>3
    <3>2. PLen(mem, p) <= key.prefixlen
      BY <1>4, <2>3
    <3>. QED
      BY <3>1, <3>2 DEF Agrees
  <2>5. Seen(p)
    <3>. SUFFICES ASSUME ~Seen(p)  PROVE  FALSE
      OBVIOUS
    <3>1. PLen(mem, p) \in T
      BY <2>1, <2>4
    <3>2. l <= PLen(mem, p)
      <4>. HIDE DEF T
      <4>. QED
        BY <1>1, <3>1
    <3>. QED
      BY <1>2, <1>4, <2>3, <3>2
  <2>6. PICK j \in 0..PLen(mem, p) : g[j].node = p
    BY <2>5
  <2>7. j \in 0..(MaxPrefixLen + 1) /\ j + 1 \in 1..(MaxPrefixLen + 1) /\ j + 1 \in 0..PLen(mem, x) /\ (j + 1) - 1 = j
    BY <1>4, <2>3
  <2>8. g[j] \in Locals(key) /\ g[j + 1] = Turn(key, g[j])
    BY <2>7 DEF Run
  <2>9. ~Ends(key, g[j])
    <3>1. longest_prefix_match(p, key) = PLen(mem, p)
      BY <1>0, <2>1, <2>4, AgreesMatch
    <3>2. p # NULL
      BY <2>1, Pointers
    <3>3. g[j].matchlen = PLen(mem, p)
      BY <2>6, <2>8, <3>1, <3>2 DEF Locals, Sound
    <3>4. PLen(mem, p) # key.prefixlen
      BY <1>4, <2>3
    <3>. QED
      BY <2>6, <3>2, <3>3, <3>4, Zenon DEF Ends, PLen
  <2>10. g[j + 1].node = Child(mem, p, KBit(key, PLen(mem, p)))
    BY <2>6, <2>8, <2>9, TurnIs
  <2>11. KBit(key, PLen(mem, p)) = b
    <3>1. PLen(mem, p) \in 0..(PLen(mem, x) - 1)
      BY <1>4, <2>3
    <3>2. PBit(mem, x, PLen(mem, p)) = KBit(key, PLen(mem, p))
      BY <1>2, <3>1 DEF Agrees
    <3>. QED
      BY <2>2, <3>2 DEF Below
  <2>12. g[j + 1].node = x
    BY <1>3, <2>10, <2>11
  <2>. QED
    BY <1>2, <2>7, <2>12
<1>. QED
  BY <1>5, <1>6

\* Where a walk ends: at the only node that can have the key's prefix.
Found(key, w) ==
  /\ w \in Locals(key) /\ w.node \in used \cup {NULL} /\ Ends(key, w)
  /\ \A n \in used : Agrees(mem, n, key) /\ PLen(mem, n) = key.prefixlen => w.node = n

\* The walk ends at such a place.
LEMMA WalkIs ==
  ASSUME Tree(mem, used), NEW key \in ValidKey
  PROVE  Found(key, Walk(key))
<1>. DEFINE e == MaxPrefixLen + 1
<1>1. PICK g : Run(key, g) /\ Walk(key) = g[e]
  BY WalkRuns
<1>2. e \in 0..e /\ e \in Nat /\ MaxPrefixLen \in Nat
  BY Lengths
<1>3. g[e] \in Locals(key) /\ Ends(key, g[e])
  BY <1>1, <1>2, LoopEnds DEF Run
<1>4. g[e].node \in used \cup {NULL}
  <2>1. Position(g[e])
    BY <1>3 DEF Locals, Sound
  <2>. QED
    BY <2>1 DEF Position, Holds, Tree, Closed
<1>5. ASSUME NEW n \in used, Agrees(mem, n, key), PLen(mem, n) = key.prefixlen  PROVE  g[e].node = n
  <2>1. PICK j \in 0..PLen(mem, n) : g[j].node = n
    BY <1>1, <1>5, AllVisited
  <2>2. j \in 0..e
    BY <1>2, <1>5, KeyIs
  <2>3. Ends(key, g[j])
    BY <1>5, <2>1 DEF Ends, PLen
  <2>4. g[e] = g[j]
    BY <1>1, <2>2, <2>3, EndsStays
  <2>. QED
    BY <2>1, <2>4
<1>. QED
  BY <1>1, <1>3, <1>4, <1>5 DEF Found

\* The node a walk ends at, if it has the key's prefix.
LEMMA FoundSame ==
  ASSUME Tree(mem, used), NEW key \in ValidKey, NEW w, Found(key, w)
  PROVE  SamePrefix(w) <=> w.node \in used /\ Agrees(mem, w.node, key) /\ PLen(mem, w.node) = key.prefixlen
<1>. DEFINE n == w.node
<1>0. mem \in Memory /\ used \subseteq Slot /\ NULL \notin used
  BY Pointers DEF Tree
<1>1. n \in used \cup {NULL} /\ n \in {NULL} \cup Slot /\ (n # NULL => w.matchlen = longest_prefix_match(n, key))
  BY <1>0 DEF Found, Locals, Sound
<1>2. ASSUME n \in used, Agrees(mem, n, key)  PROVE  w.matchlen = PLen(mem, n)
  <2>1. n \in Slot /\ n # NULL
    BY <1>0, <1>2
  <2>. HIDE DEF n
  <2>. QED
    BY <1>0, <1>1, <1>2, <2>1, AgreesMatch
<1>3. ASSUME n \in used, PLen(mem, n) = w.matchlen  PROVE  Agrees(mem, n, key) /\ PLen(mem, n) = key.prefixlen
  <2>1. n \in Slot /\ n # NULL
    BY <1>0, <1>3
  <2>2. PLen(mem, n) = key.prefixlen
    BY <1>3, <2>1 DEF Found, Ends, PLen
  <2>. HIDE DEF n
  <2>3. Match(n, key, w.matchlen)
    BY <1>0, <1>1, <2>1, MatchIs
  <2>. QED
    BY <1>3, <2>2, <2>3 DEF Match, Agrees
<1>. QED
  BY <1>0, <1>1, <1>2, <1>3 DEF SamePrefix, PLen
-----------------------------------------------------------------------------
(* Changing one pointer of the trie *)

SameBits(m, m2, y) == PLen(m2, y) = PLen(m, y) /\ \A j : PBit(m2, y, j) = PBit(m, y, j)

\* The nodes of v keep their bits, and they and the root their pointers but one.
Rewired(m, m2, v, x, b) ==
  /\ m2 \in Memory
  /\ \A y \in {Trie} \cup v, c \in 0..1 : ~(y = x /\ c = b) => Child(m2, y, c) = Child(m, y, c)
  /\ \A y \in v : SameBits(m, m2, y)

\* Below depends on the bits of the two nodes only.
LEMMA BelowSame ==
  ASSUME NEW m, NEW m2, NEW x, NEW c, NEW b, SameBits(m, m2, x), SameBits(m, m2, c), Below(m, x, b, c)
  PROVE  Below(m2, x, b, c)
  BY DEF SameBits, Below

\* Below is transitive.
LEMMA BelowTrans ==
  ASSUME NEW m \in Memory, NEW x \in Slot, NEW y \in Slot, NEW z \in Slot, NEW b, NEW c,
         Below(m, x, b, y), Below(m, y, c, z)
  PROVE  Below(m, x, b, z)
<1>1. PLen(m, x) \in Nat /\ PLen(m, y) \in Nat /\ PLen(m, z) \in Nat /\ PLen(m, x) < PLen(m, y) /\ PLen(m, y) < PLen(m, z)
  BY NodeIs DEF Below
<1>2. \A j \in 0..PLen(m, x) : j \in 0..(PLen(m, y) - 1)
  BY <1>1
<1>3. \A j \in 0..PLen(m, x) : PBit(m, z, j) = PBit(m, y, j)
  BY <1>2 DEF Below
<1>4. PLen(m, x) \in 0..PLen(m, x) /\ \A j \in 0..(PLen(m, x) - 1) : j \in 0..PLen(m, x)
  BY <1>1
<1>5. PBit(m, z, PLen(m, x)) = b
  BY <1>3, <1>4 DEF Below
<1>6. \A j \in 0..(PLen(m, x) - 1) : PBit(m, z, j) = PBit(m, x, j)
  BY <1>3, <1>4 DEF Below
<1>7. PLen(m, x) < PLen(m, z)
  BY <1>1
<1>. QED
  BY <1>5, <1>6, <1>7 DEF Below

\* A new leaf takes an empty pointer.
LEMMA LeafTree ==
  ASSUME NEW m, NEW u, Tree(m, u), NEW x, NEW b, Holds(u, x, b), Child(m, x, b) = NULL,
         NEW m2, NEW n \in Slot \ u, Rewired(m, m2, u, x, b), Child(m2, x, b) = n,
         \A c \in 0..1 : Child(m2, n, c) = NULL, x \in u => Below(m2, x, b, n)
  PROVE  Tree(m2, u \cup {n})
<1>. DEFINE u2 == u \cup {n}
<1>0. u \subseteq Slot /\ Trie \notin Slot /\ NULL \notin Slot /\ b \in 0..1 /\ x # n /\ x \in {Trie} \cup u
  BY Pointers DEF Tree, Holds
<1>1. \A y, c : Holds(u2, y, c) <=> Holds(u, y, c) \/ (y = n /\ c \in 0..1)
  BY DEF Holds
<1>2. \A y, c : Holds(u, y, c) => /\ y \in {Trie} \cup u /\ c \in 0..1 /\ y # n
                                  /\ Child(m2, y, c) = IF y = x /\ c = b THEN n ELSE Child(m, y, c)
  BY <1>0 DEF Holds, Rewired
<1>3. \A y, c : Holds(u, y, c) => Child(m, y, c) \in u \cup {NULL}
  BY <1>2 DEF Tree, Closed
<1>4. Closed(m2, u2)
  BY <1>0, <1>1, <1>2, <1>3 DEF Closed
<1>5. Owned(m2, u2)
  BY <1>0, <1>1, <1>2 DEF Owned, Tree
<1>6. Single(m2, u2)
  BY <1>0, <1>1, <1>2, <1>3 DEF Single, Tree
<1>7. Nested(m2, u2)
  <2>. SUFFICES ASSUME NEW y \in u2, NEW c \in 0..1, Child(m2, y, c) # NULL
                PROVE  Below(m2, y, c, Child(m2, y, c))
    BY DEF Nested
  <2>1. y \in u /\ Holds(u, y, c)
    BY DEF Holds
  <2>2. CASE y = x /\ c = b
    BY <2>1, <2>2
  <2>3. CASE ~(y = x /\ c = b)
    <3>1. Child(m2, y, c) = Child(m, y, c) /\ Child(m, y, c) \in u
      BY <1>2, <1>3, <2>1, <2>3
    <3>2. Below(m, y, c, Child(m, y, c)) /\ SameBits(m, m2, y) /\ SameBits(m, m2, Child(m, y, c))
      BY <2>1, <3>1 DEF Tree, Nested, Rewired
    <3>. QED
      BY <3>1, <3>2, BelowSame
  <2>. QED
    BY <2>2, <2>3
<1>8. m2 \in Memory /\ u2 \subseteq Slot
  BY <1>0 DEF Rewired
<1>. QED
  BY <1>4, <1>5, <1>6, <1>7, <1>8 DEF Tree

\* A new node takes the place of one with the same prefix.
LEMMA ReplaceTree ==
  ASSUME NEW m, NEW u, Tree(m, u), NEW x, NEW b, Holds(u, x, b), NEW n \in u, Child(m, x, b) = n,
         NEW m2, NEW k \in Slot \ u, Rewired(m, m2, u \ {n}, x, b), Child(m2, x, b) = k,
         \A c \in 0..1 : Child(m2, k, c) = Child(m, n, c),
         PLen(m2, k) = PLen(m, n), \A j \in 0..(PLen(m, n) - 1) : PBit(m2, k, j) = PBit(m, n, j)
  PROVE  Tree(m2, (u \cup {k}) \ {n})
<1>. DEFINE u2 == (u \cup {k}) \ {n}
            v == u \ {n}
<1>0. /\ u \subseteq Slot /\ Trie \notin Slot /\ NULL \notin Slot /\ b \in 0..1 /\ x # k /\ x \in {Trie} \cup u
      /\ u2 = v \cup {k} /\ n \in Slot /\ n # k
  BY Pointers DEF Tree, Holds
<1>1. x # n
  <2>. SUFFICES ASSUME x = n  PROVE  FALSE
    OBVIOUS
  <2>1. PLen(m, n) < PLen(m, n) /\ PLen(m, n) \in Nat
    BY <1>0, NodeIs DEF Tree, Nested, Below
  <2>. QED
    BY <2>1
<1>2. \A y, c : Holds(u2, y, c) <=> Holds(v, y, c) \/ (y = k /\ c \in 0..1)
  BY <1>0 DEF Holds
<1>3. \A y, c : Holds(v, y, c) => /\ y \in {Trie} \cup v /\ c \in 0..1 /\ y # k /\ Holds(u, y, c)
                                  /\ Child(m2, y, c) = IF y = x /\ c = b THEN k ELSE Child(m, y, c)
  BY <1>0 DEF Holds, Rewired
<1>4. \A y, c : Holds(u, y, c) => Child(m, y, c) \in u \cup {NULL} /\ (Child(m, y, c) = n <=> y = x /\ c = b)
                                  /\ (Holds(v, y, c) \/ (y = n /\ c \in 0..1))
  <2>1. \A y, c : Holds(u, y, c) => y \in {Trie} \cup u /\ c \in 0..1
    BY DEF Holds
  <2>2. \A y, c : Holds(u, y, c) => Child(m, y, c) \in u \cup {NULL}
    BY <2>1 DEF Tree, Closed
  <2>3. \A y, c : Holds(u, y, c) => (Child(m, y, c) = n <=> y = x /\ c = b)
    BY <1>0, <2>1 DEF Tree, Single
  <2>4. \A y, c : Holds(u, y, c) => (Holds(v, y, c) \/ (y = n /\ c \in 0..1))
    BY DEF Holds
  <2>. QED
    BY <2>2, <2>3, <2>4
<1>5. \A c \in 0..1 : Holds(u, n, c)
  BY DEF Holds
<1>6. Holds(v, x, b) /\ Holds(u2, x, b)
  BY <1>0, <1>1 DEF Holds
<1>. HIDE DEF u2, v
<1>7. Closed(m2, u2)
  BY <1>0, <1>1, <1>2, <1>3, <1>4, <1>5 DEF Closed, v
<1>8. Owned(m2, u2)
  <2>. SUFFICES ASSUME NEW z \in u2  PROVE  \E y \in {Trie} \cup u2, c \in 0..1 : Holds(u2, y, c) /\ Child(m2, y, c) = z
    BY DEF Owned
  <2>1. CASE z = k
    BY <1>0, <1>1, <1>6, <2>1 DEF v
  <2>2. CASE z # k
    <3>1. z \in u /\ z # n
      BY <1>0, <2>2 DEF v
    <3>2. PICK y \in {Trie} \cup u, c \in 0..1 : Holds(u, y, c) /\ Child(m, y, c) = z
      BY <3>1 DEF Tree, Owned
    <3>3. CASE y = n
      <4>1. k \in u2 /\ Holds(u2, k, c) /\ Child(m2, k, c) = z
        BY <1>0, <1>2, <3>2, <3>3
      <4>. QED
        BY <4>1
    <3>4. CASE y # n
      <4>1. Holds(v, y, c) /\ y \in {Trie} \cup u2 /\ Holds(u2, y, c) /\ Child(m2, y, c) = z
        BY <1>0, <1>2, <1>3, <1>4, <3>1, <3>2, <3>4
      <4>. QED
        BY <4>1
    <3>. QED
      BY <3>3, <3>4
  <2>. QED
    BY <2>1, <2>2
<1>9. Single(m2, u2)
  <2>1. \A y, z, c, d : (/\ Holds(u, y, c) /\ Holds(u, z, d) /\ Child(m, y, c) = Child(m, z, d) /\ Child(m, y, c) # NULL)
                        => y = z /\ c = d
    BY DEF Tree, Single, Holds
  <2>2. \A y, c : Holds(v, y, c) => Child(m2, y, c) # k \/ (y = x /\ c = b)
    BY <1>0, <1>3, <1>4
  <2>. DEFINE O(y) == IF y = k THEN n ELSE y
  <2>3. \A c \in 0..1 : Child(m2, k, c) # k
    BY <1>0, <1>4, <1>5
  <2>4. \A y, c : (Holds(u2, y, c) /\ ~(y = x /\ c = b))
                   => Holds(u, O(y), c) /\ Child(m2, y, c) = Child(m, O(y), c) /\ Child(m2, y, c) # k
    BY <1>0, <1>2, <1>3, <1>5, <2>2, <2>3
  <2>5. \A y, z : y \in {Trie} \cup u2 /\ z \in {Trie} \cup u2 /\ O(y) = O(z) => y = z
    BY <1>0 DEF v
  <2>. HIDE DEF O
  <2>. SUFFICES ASSUME NEW y \in {Trie} \cup u2, NEW z \in {Trie} \cup u2, NEW c \in 0..1, NEW d \in 0..1,
                       Holds(u2, y, c), Holds(u2, z, d), Child(m2, y, c) = Child(m2, z, d), Child(m2, y, c) # NULL
                PROVE  y = z /\ c = d
    BY DEF Single
  <2>6. CASE (y = x /\ c = b) \/ (z = x /\ d = b)
    BY <2>4, <2>6
  <2>7. CASE ~(y = x /\ c = b) /\ ~(z = x /\ d = b)
    <3>1. O(y) = O(z) /\ c = d
      BY <2>1, <2>4, <2>7
    <3>. QED
      BY <2>5, <3>1
  <2>. QED
    BY <2>6, <2>7
<1>10. Nested(m2, u2)
  <2>. SUFFICES ASSUME NEW y \in u2, NEW c \in 0..1, Child(m2, y, c) # NULL
                PROVE  Below(m2, y, c, Child(m2, y, c))
    BY DEF Nested
  <2>1. CASE y = k
    <3>. DEFINE z == Child(m, n, c)
    <3>1. Child(m2, y, c) = z /\ z \in u /\ z # n /\ z \in v
      BY <1>0, <1>1, <1>4, <1>5, <2>1 DEF v
    <3>2. Below(m, n, c, z) /\ SameBits(m, m2, z)
      BY <3>1 DEF Tree, Nested, Rewired, v
    <3>. HIDE DEF z
    <3>3. Below(m2, k, c, z)
      BY <3>2 DEF Below, SameBits
    <3>. QED
      BY <2>1, <3>1, <3>3
  <2>2. CASE y # k
    <3>1. y \in v /\ Holds(v, y, c) /\ Holds(u, y, c) /\ y \in u
      BY <1>0, <2>2 DEF Holds, v
    <3>2. CASE y = x /\ c = b
      <4>1. Below(m, x, b, n) /\ SameBits(m, m2, x)
        BY <1>0, <3>1, <3>2 DEF Tree, Nested, Rewired, v
      <4>2. PLen(m, x) \in Nat /\ PLen(m, n) \in Nat /\ PLen(m, x) < PLen(m, n)
        BY <1>0, <3>1, <3>2, <4>1, NodeIs DEF Below, Tree
      <4>3. \A j \in 0..PLen(m, x) : PBit(m2, k, j) = PBit(m, n, j)
        BY <4>2
      <4>4. PLen(m, x) \in 0..PLen(m, x) /\ \A j \in 0..(PLen(m, x) - 1) : j \in 0..PLen(m, x)
        BY <4>2
      <4>5. Below(m2, x, b, k)
        BY <4>1, <4>3, <4>4 DEF Below, SameBits
      <4>. QED
        BY <3>2, <4>5
    <3>3. CASE ~(y = x /\ c = b)
      <4>. DEFINE z == Child(m, y, c)
      <4>1. Child(m2, y, c) = z /\ z \in v
        BY <1>3, <1>4, <3>1, <3>3 DEF v
      <4>2. Below(m, y, c, z) /\ SameBits(m, m2, z) /\ SameBits(m, m2, y)
        BY <1>0, <3>1, <4>1 DEF Tree, Nested, Rewired, v
      <4>. HIDE DEF z
      <4>. QED
        BY <4>1, <4>2, BelowSame
    <3>. QED
      BY <3>2, <3>3
  <2>. QED
    BY <2>1, <2>2
<1>11. m2 \in Memory /\ u2 \subseteq Slot
  BY <1>0 DEF Rewired, v
<1>. QED
  BY <1>7, <1>8, <1>9, <1>10, <1>11 DEF Tree, u2

\* A new node goes between a pointer and the node it leads to.
LEMMA AboveTree ==
  ASSUME NEW m, NEW u, Tree(m, u), NEW x, NEW b, Holds(u, x, b), NEW n \in u, Child(m, x, b) = n,
         NEW m2, NEW k \in Slot \ u, Rewired(m, m2, u, x, b), Child(m2, x, b) = k,
         NEW d \in 0..1, Child(m2, k, d) = n, \A c \in 0..1 : c # d => Child(m2, k, c) = NULL,
         x \in u => Below(m2, x, b, k), Below(m2, k, d, n)
  PROVE  Tree(m2, u \cup {k})
<1>. DEFINE u2 == u \cup {k}
<1>0. /\ u \subseteq Slot /\ Trie \notin Slot /\ NULL \notin Slot /\ b \in 0..1 /\ x # k /\ x \in {Trie} \cup u
      /\ n \in Slot /\ n # k
  BY Pointers DEF Tree, Holds
<1>1. \A y, c : Holds(u2, y, c) <=> Holds(u, y, c) \/ (y = k /\ c \in 0..1)
  BY DEF Holds
<1>2. \A y, c : Holds(u, y, c) => /\ y \in {Trie} \cup u /\ c \in 0..1 /\ y # k
                                  /\ Child(m2, y, c) = IF y = x /\ c = b THEN k ELSE Child(m, y, c)
  BY <1>0 DEF Holds, Rewired
<1>3. \A y, c : Holds(u, y, c) => Child(m, y, c) \in u \cup {NULL} /\ (Child(m, y, c) = n <=> y = x /\ c = b)
  <2>1. \A y, c : Holds(u, y, c) => y \in {Trie} \cup u /\ c \in 0..1
    BY DEF Holds
  <2>2. \A y, c : Holds(u, y, c) => Child(m, y, c) \in u \cup {NULL}
    BY <2>1 DEF Tree, Closed
  <2>3. \A y, c : Holds(u, y, c) => (Child(m, y, c) = n <=> y = x /\ c = b)
    BY <1>0, <2>1 DEF Tree, Single
  <2>. QED
    BY <2>2, <2>3
<1>4. Closed(m2, u2)
  BY <1>0, <1>1, <1>2, <1>3 DEF Closed
<1>5. Owned(m2, u2)
  <2>. SUFFICES ASSUME NEW z \in u2  PROVE  \E y \in {Trie} \cup u2, c \in 0..1 : Holds(u2, y, c) /\ Child(m2, y, c) = z
    BY DEF Owned
  <2>1. CASE z = k
    BY <1>0, <1>1, <2>1
  <2>2. CASE z = n
    BY <1>0, <1>1, <2>2
  <2>3. CASE z # k /\ z # n
    <3>1. PICK y \in {Trie} \cup u, c \in 0..1 : Holds(u, y, c) /\ Child(m, y, c) = z
      BY <2>3 DEF Tree, Owned
    <3>2. y \in {Trie} \cup u2 /\ Holds(u2, y, c) /\ Child(m2, y, c) = z
      BY <1>0, <1>1, <1>2, <1>3, <2>3, <3>1
    <3>. QED
      BY <3>2
  <2>. QED
    BY <2>1, <2>2, <2>3
<1>6. Single(m2, u2)
  <2>1. \A y, z, c, e : (/\ Holds(u, y, c) /\ Holds(u, z, e) /\ Child(m, y, c) = Child(m, z, e) /\ Child(m, y, c) # NULL)
                        => y = z /\ c = e
    BY DEF Tree, Single, Holds
  <2>2. \A y, c : Holds(u, y, c) => /\ Child(m2, y, c) # n
                                    /\ Child(m2, y, c) = k => y = x /\ c = b
    BY <1>0, <1>2, <1>3
  <2>3. \A c \in 0..1 : Child(m2, k, c) # k /\ (Child(m2, k, c) # NULL => c = d /\ Child(m2, k, c) = n)
    BY <1>0
  <2>. QED
    BY <1>0, <1>1, <1>2, <1>3, <2>1, <2>2, <2>3 DEF Single
<1>7. Nested(m2, u2)
  <2>. SUFFICES ASSUME NEW y \in u2, NEW c \in 0..1, Child(m2, y, c) # NULL
                PROVE  Below(m2, y, c, Child(m2, y, c))
    BY DEF Nested
  <2>1. CASE y = k
    BY <2>1
  <2>2. CASE y # k /\ y = x /\ c = b
    BY <1>0, <2>2
  <2>3. CASE y # k /\ ~(y = x /\ c = b)
    <3>1. Child(m2, y, c) = Child(m, y, c) /\ Child(m, y, c) \in u /\ y \in u
      BY <1>2, <1>3, <2>3 DEF Holds
    <3>2. Below(m, y, c, Child(m, y, c)) /\ SameBits(m, m2, y) /\ SameBits(m, m2, Child(m, y, c))
      BY <3>1 DEF Tree, Nested, Rewired
    <3>. QED
      BY <3>1, <3>2, BelowSame
  <2>. QED
    BY <2>1, <2>2, <2>3
<1>8. m2 \in Memory /\ u2 \subseteq Slot
  BY <1>0 DEF Rewired
<1>. QED
  BY <1>4, <1>5, <1>6, <1>7, <1>8 DEF Tree

\* Two new nodes: k between a pointer and the node it leads to, and a leaf on its other side.
LEMMA ForkTree ==
  ASSUME NEW m, NEW u, Tree(m, u), NEW x, NEW b, Holds(u, x, b), NEW n \in u, Child(m, x, b) = n,
         NEW m2, NEW k \in Slot \ u, NEW f \in Slot \ u, f # k, Rewired(m, m2, u, x, b), Child(m2, x, b) = k,
         NEW d \in 0..1, Child(m2, k, d) = n, Child(m2, k, 1 - d) = f, \A c \in 0..1 : Child(m2, f, c) = NULL,
         x \in u => Below(m2, x, b, k), Below(m2, k, d, n), Below(m2, k, 1 - d, f)
  PROVE  Tree(m2, u \cup {f, k})
<1>. DEFINE u2 == u \cup {f, k}
<1>0. /\ u \subseteq Slot /\ Trie \notin Slot /\ NULL \notin Slot /\ b \in 0..1 /\ x # k /\ x \in {Trie} \cup u
      /\ n \in Slot /\ n # k /\ n # f /\ x # f /\ 1 - d \in 0..1 /\ 1 - d # d /\ \A c \in 0..1 : c = d \/ c = 1 - d
  BY Pointers DEF Tree, Holds
<1>1. \A y, c : Holds(u2, y, c) <=> Holds(u, y, c) \/ (y = k /\ c \in 0..1) \/ (y = f /\ c \in 0..1)
  BY DEF Holds
<1>2. \A y, c : Holds(u, y, c) => /\ y \in {Trie} \cup u /\ c \in 0..1 /\ y # k /\ y # f
                                  /\ Child(m2, y, c) = IF y = x /\ c = b THEN k ELSE Child(m, y, c)
  BY <1>0 DEF Holds, Rewired
<1>3. \A y, c : Holds(u, y, c) => Child(m, y, c) \in u \cup {NULL} /\ (Child(m, y, c) = n <=> y = x /\ c = b)
  <2>1. \A y, c : Holds(u, y, c) => y \in {Trie} \cup u /\ c \in 0..1
    BY DEF Holds
  <2>2. \A y, c : Holds(u, y, c) => Child(m, y, c) \in u \cup {NULL}
    BY <2>1 DEF Tree, Closed
  <2>3. \A y, c : Holds(u, y, c) => (Child(m, y, c) = n <=> y = x /\ c = b)
    BY <1>0, <2>1 DEF Tree, Single
  <2>. QED
    BY <2>2, <2>3
<1>4. Closed(m2, u2)
  BY <1>0, <1>1, <1>2, <1>3 DEF Closed
<1>5. Owned(m2, u2)
  <2>. SUFFICES ASSUME NEW z \in u2  PROVE  \E y \in {Trie} \cup u2, c \in 0..1 : Holds(u2, y, c) /\ Child(m2, y, c) = z
    BY DEF Owned
  <2>1. CASE z = k
    BY <1>0, <1>1, <2>1
  <2>2. CASE z = n
    BY <1>0, <1>1, <2>2
  <2>3. CASE z = f
    BY <1>0, <1>1, <2>3
  <2>4. CASE z # k /\ z # n /\ z # f
    <3>1. PICK y \in {Trie} \cup u, c \in 0..1 : Holds(u, y, c) /\ Child(m, y, c) = z
      BY <2>4 DEF Tree, Owned
    <3>2. ~(y = x /\ c = b)
      BY <1>3, <2>4, <3>1
    <3>3. Child(m2, y, c) = z /\ Holds(u2, y, c)
      BY <1>1, <1>2, <3>1, <3>2
    <3>. QED
      BY <3>1, <3>3
  <2>. QED
    BY <2>1, <2>2, <2>3, <2>4
<1>6. Single(m2, u2)
  <2>1. \A y, z, c, e : (/\ Holds(u, y, c) /\ Holds(u, z, e) /\ Child(m, y, c) = Child(m, z, e) /\ Child(m, y, c) # NULL)
                        => y = z /\ c = e
    BY DEF Tree, Single, Holds
  <2>2. \A y, c : Holds(u, y, c) => /\ Child(m2, y, c) # n /\ Child(m2, y, c) # f
                                    /\ Child(m2, y, c) = k => y = x /\ c = b
    BY <1>0, <1>2, <1>3
  <2>3. \A c \in 0..1 : Child(m2, k, c) # k /\ Child(m2, k, c) = (IF c = d THEN n ELSE f)
    BY <1>0
  <2>. SUFFICES ASSUME NEW y \in {Trie} \cup u2, NEW z \in {Trie} \cup u2, NEW c \in 0..1, NEW e \in 0..1,
                       Holds(u2, y, c), Holds(u2, z, e), Child(m2, y, c) = Child(m2, z, e), Child(m2, y, c) # NULL
                PROVE  y = z /\ c = e
    BY DEF Single
  <2>4. y # f /\ z # f
    OBVIOUS
  <2>5. CASE y = k \/ z = k
    <3>1. Child(m2, y, c) = n \/ Child(m2, y, c) = f
      BY <2>3, <2>5
    <3>2. y = k /\ z = k
      BY <1>1, <2>2, <2>4, <3>1
    <3>3. (IF c = d THEN n ELSE f) = (IF e = d THEN n ELSE f)
      BY <2>3, <3>2
    <3>. QED
      BY <1>0, <3>2, <3>3
  <2>6. CASE y # k /\ z # k
    <3>1. Holds(u, y, c) /\ Holds(u, z, e)
      BY <1>1, <2>4, <2>6
    <3>. QED
      BY <1>2, <2>1, <2>2, <3>1
  <2>. QED
    BY <2>5, <2>6
<1>7. Nested(m2, u2)
  <2>. SUFFICES ASSUME NEW y \in u2, NEW c \in 0..1, Child(m2, y, c) # NULL
                PROVE  Below(m2, y, c, Child(m2, y, c))
    BY DEF Nested
  <2>1. CASE y = k
    BY <1>0, <2>1
  <2>2. CASE y # k /\ y = x /\ c = b
    BY <1>0, <2>2
  <2>3. CASE y # k /\ ~(y = x /\ c = b)
    <3>0. y \in u
      BY <2>3
    <3>1. Child(m2, y, c) = Child(m, y, c) /\ Child(m, y, c) \in u
      BY <1>2, <1>3, <2>3, <3>0 DEF Holds
    <3>2. Below(m, y, c, Child(m, y, c)) /\ SameBits(m, m2, y) /\ SameBits(m, m2, Child(m, y, c))
      BY <3>0, <3>1 DEF Tree, Nested, Rewired
    <3>. QED
      BY <3>1, <3>2, BelowSame
  <2>. QED
    BY <2>1, <2>2, <2>3
<1>8. m2 \in Memory /\ u2 \subseteq Slot
  BY <1>0 DEF Rewired
<1>. QED
  BY <1>4, <1>5, <1>6, <1>7, <1>8 DEF Tree

\* A node with at most one child gives its place to it.
LEMMA SpliceTree ==
  ASSUME NEW m, NEW u, Tree(m, u), NEW x, NEW b, Holds(u, x, b), NEW n \in u, Child(m, x, b) = n,
         NEW m2, Rewired(m, m2, u \ {n}, x, b),
         NEW d \in 0..1, Child(m2, x, b) = Child(m, n, d), Child(m, n, 1 - d) = NULL
  PROVE  Tree(m2, u \ {n})
<1>. DEFINE v == u \ {n}
            h == Child(m, n, d)
<1>0. /\ u \subseteq Slot /\ Trie \notin Slot /\ NULL \notin Slot /\ b \in 0..1 /\ x \in {Trie} \cup u
      /\ n \in Slot /\ \A c \in 0..1 : c = d \/ c = 1 - d
  BY Pointers DEF Tree, Holds
<1>1. x # n
  <2>. SUFFICES ASSUME x = n  PROVE  FALSE
    OBVIOUS
  <2>1. PLen(m, n) < PLen(m, n) /\ PLen(m, n) \in Nat
    BY <1>0, NodeIs DEF Tree, Nested, Below
  <2>. QED
    BY <2>1
<1>2. \A y, c : Holds(u, y, c) <=> Holds(v, y, c) \/ (y = n /\ c \in 0..1)
  BY DEF Holds
<1>3. \A y, c : Holds(v, y, c) => /\ y \in {Trie} \cup v /\ c \in 0..1 /\ y # n
                                  /\ Child(m2, y, c) = IF y = x /\ c = b THEN h ELSE Child(m, y, c)
  BY <1>0 DEF Holds, Rewired
<1>4. \A y, c : Holds(u, y, c) => Child(m, y, c) \in u \cup {NULL} /\ (Child(m, y, c) = n <=> y = x /\ c = b)
  <2>1. \A y, c : Holds(u, y, c) => y \in {Trie} \cup u /\ c \in 0..1
    BY DEF Holds
  <2>2. \A y, c : Holds(u, y, c) => Child(m, y, c) \in u \cup {NULL}
    BY <2>1 DEF Tree, Closed
  <2>3. \A y, c : Holds(u, y, c) => (Child(m, y, c) = n <=> y = x /\ c = b)
    BY <1>0, <2>1 DEF Tree, Single
  <2>. QED
    BY <2>2, <2>3
<1>5. Holds(v, x, b) /\ Holds(u, n, d)
  BY <1>0, <1>1 DEF Holds
<1>6. h \in v \cup {NULL}
  BY <1>0, <1>1, <1>4, <1>5
<1>. HIDE DEF v, h
<1>7. Closed(m2, v)
  BY <1>0, <1>2, <1>3, <1>4, <1>6 DEF Closed, v
<1>8. Owned(m2, v)
  <2>. SUFFICES ASSUME NEW z \in v  PROVE  \E y \in {Trie} \cup v, c \in 0..1 : Holds(v, y, c) /\ Child(m2, y, c) = z
    BY DEF Owned
  <2>0. z \in u /\ z # n /\ z # NULL
    BY <1>0 DEF v
  <2>1. PICK y \in {Trie} \cup u, c \in 0..1 : Holds(u, y, c) /\ Child(m, y, c) = z
    BY <2>0 DEF Tree, Owned
  <2>2. CASE y = n
    <3>1. c = d
      BY <1>0, <2>0, <2>1, <2>2
    <3>2. Child(m2, x, b) = z
      BY <2>1, <2>2, <3>1
    <3>. QED
      BY <1>3, <1>5, <3>2
  <2>3. CASE y # n
    <3>1. Holds(v, y, c) /\ y \in {Trie} \cup v /\ Child(m2, y, c) = z
      BY <1>2, <1>3, <1>4, <2>0, <2>1, <2>3
    <3>. QED
      BY <3>1
  <2>. QED
    BY <2>2, <2>3
<1>9. Single(m2, v)
  <2>1. \A y, z, c, e : (/\ Holds(u, y, c) /\ Holds(u, z, e) /\ Child(m, y, c) = Child(m, z, e) /\ Child(m, y, c) # NULL)
                        => y = z /\ c = e
    BY DEF Tree, Single, Holds
  <2>. SUFFICES ASSUME NEW y \in {Trie} \cup v, NEW z \in {Trie} \cup v, NEW c \in 0..1, NEW e \in 0..1,
                       Holds(v, y, c), Holds(v, z, e), Child(m2, y, c) = Child(m2, z, e), Child(m2, y, c) # NULL
                PROVE  y = z /\ c = e
    BY DEF Single
  <2>2. Holds(u, y, c) /\ Holds(u, z, e) /\ y # n /\ z # n
    BY <1>2, <1>3
  <2>3. \A q, a : Holds(u, q, a) /\ q # n => Child(m, q, a) # h \/ h = NULL
    BY <1>5, <2>1 DEF h
  <2>. QED
    BY <1>3, <2>1, <2>2, <2>3
<1>10. Nested(m2, v)
  <2>. SUFFICES ASSUME NEW y \in v, NEW c \in 0..1, Child(m2, y, c) # NULL
                PROVE  Below(m2, y, c, Child(m2, y, c))
    BY DEF Nested
  <2>1. Holds(v, y, c) /\ Holds(u, y, c) /\ y \in u /\ y \in Slot
    BY <1>0 DEF Holds, v
  <2>2. CASE y = x /\ c = b
    <3>1. h \in v /\ h \in Slot /\ Child(m2, y, c) = h /\ h \in u /\ h # NULL
      BY <1>0, <1>3, <1>6, <2>1, <2>2 DEF v
    <3>2. Below(m, x, b, n) /\ Below(m, n, d, h)
      BY <1>0, <2>1, <2>2, <3>1 DEF Tree, Nested, h
    <3>3. Below(m, x, b, h)
      BY <1>0, <2>1, <2>2, <3>1, <3>2, BelowTrans DEF Tree
    <3>4. SameBits(m, m2, x) /\ SameBits(m, m2, h)
      BY <2>1, <2>2, <3>1 DEF Rewired, v
    <3>. QED
      BY <2>2, <3>1, <3>3, <3>4, BelowSame
  <2>3. CASE ~(y = x /\ c = b)
    <3>. DEFINE z == Child(m, y, c)
    <3>1. Child(m2, y, c) = z /\ z \in v
      BY <1>3, <1>4, <2>1, <2>3 DEF v
    <3>2. Below(m, y, c, z) /\ SameBits(m, m2, z) /\ SameBits(m, m2, y)
      BY <1>0, <2>1, <3>1 DEF Tree, Nested, Rewired, v
    <3>. HIDE DEF z
    <3>. QED
      BY <3>1, <3>2, BelowSame
  <2>. QED
    BY <2>2, <2>3
<1>11. m2 \in Memory /\ v \subseteq Slot
  BY <1>0 DEF Rewired, v
<1>. QED
  BY <1>7, <1>8, <1>9, <1>10, <1>11 DEF Tree, v

\* The pointers and the bits stay.
LEMMA SameTree ==
  ASSUME NEW m, NEW u, Tree(m, u), NEW m2 \in Memory,
         \A y \in {Trie} \cup u, c \in 0..1 : Child(m2, y, c) = Child(m, y, c),
         \A y \in u : SameBits(m, m2, y)
  PROVE  Tree(m2, u)
<1>0. \A y, c : Holds(u, y, c) => y \in {Trie} \cup u /\ c \in 0..1
  BY DEF Holds
<1>1. Closed(m2, u)
  BY <1>0 DEF Tree, Closed
<1>2. Owned(m2, u)
  BY <1>0 DEF Tree, Owned
<1>3. Single(m2, u)
  BY <1>0 DEF Tree, Single
<1>4. Nested(m2, u)
  <2>. SUFFICES ASSUME NEW y \in u, NEW c \in 0..1, Child(m2, y, c) # NULL
                PROVE  Below(m2, y, c, Child(m2, y, c))
    BY DEF Nested
  <2>. DEFINE z == Child(m, y, c)
  <2>1. Child(m2, y, c) = z /\ z \in u
    BY DEF Tree, Closed, Holds
  <2>2. Below(m, y, c, z)
    BY <2>1 DEF Tree, Nested
  <2>. HIDE DEF z
  <2>. QED
    BY <2>1, <2>2, BelowSame
<1>. QED
  BY <1>1, <1>2, <1>3, <1>4 DEF Tree
-----------------------------------------------------------------------------
(* Writes to the memory *)

\* A node keeps its bits, its kind and its value.
Kept(m, m2, y) == SameBits(m, m2, y) /\ Inner(m2, y) = Inner(m, y) /\ m2[y].value = m[y].value

\* Only pointer b of x changes, to n.
Linked(m, m2, x, b, n) ==
  /\ m2 \in Memory
  /\ \A y \in {Trie} \cup Slot : /\ Kept(m, m2, y)
                                 /\ \A c \in 0..1 : Child(m2, y, c) = IF y = x /\ c = b THEN n ELSE Child(m, y, c)

\* *slot = node changes one pointer and keeps the type of the memory.
LEMMA AssignIs ==
  ASSUME NEW m \in Memory, NEW s \in Pointer, NEW n \in {NULL} \cup Slot
  PROVE  Linked(m, Assign(m, s, n), s[1], s[2], n)
<1>. DEFINE x == s[1]
            b == s[2]
            m2 == [m EXCEPT ![x].child[b] = n]
<1>0. m2 = Assign(m, s, n)
  BY DEF Assign
<1>1. x \in {Trie} \cup Slot /\ b \in 0..1
  BY DEF Pointer
<1>. HIDE DEF x, b
<1>2. DOMAIN m = {Trie} \cup Slot /\ \A y \in {Trie} \cup Slot : m[y] \in Node
  BY DEF Memory
<1>3. m2 = [m EXCEPT ![x] = [m[x] EXCEPT !.child = [m[x].child EXCEPT ![b] = n]]]
  BY <1>1, <1>2
<1>. DEFINE r == [m[x] EXCEPT !.child = [m[x].child EXCEPT ![b] = n]]
<1>4. /\ r \in Node /\ r.prefixlen = m[x].prefixlen /\ r.data = m[x].data /\ r.im = m[x].im /\ r.value = m[x].value
      /\ \A c \in 0..1 : r.child[c] = IF c = b THEN n ELSE m[x].child[c]
  BY <1>1, <1>2 DEF Node
<1>5. \A y \in {Trie} \cup Slot : m2[y] = IF y = x THEN r ELSE m[y]
  BY <1>2, <1>3
<1>6. m2 \in Memory
  BY <1>1, <1>2, <1>3, <1>4 DEF Memory
<1>. HIDE DEF m2, r
<1>7. ASSUME NEW y \in {Trie} \cup Slot
      PROVE  Kept(m, m2, y) /\ \A c \in 0..1 : Child(m2, y, c) = IF y = x /\ c = b THEN n ELSE Child(m, y, c)
  <2>1. m2[y].prefixlen = m[y].prefixlen /\ m2[y].data = m[y].data /\ m2[y].im = m[y].im /\ m2[y].value = m[y].value
    BY <1>4, <1>5
  <2>2. Kept(m, m2, y)
    BY <2>1, Zenon DEF Kept, SameBits, PLen, PBit, Inner
  <2>3. \A c \in 0..1 : m2[y].child[c] = IF y = x /\ c = b THEN n ELSE m[y].child[c]
    BY <1>4, <1>5
  <2>. QED
    BY <2>2, <2>3 DEF Child
<1>8. Linked(m, m2, x, b, n)
  BY <1>6, <1>7, Zenon DEF Linked
<1>. QED
  BY <1>0, <1>8 DEF x, b

\* One or two slots are written.
Stores(m, m2, k, f) ==
  m2 \in Memory /\ \A y \in {Trie} \cup Slot : y # k /\ y # f => m2[y] = m[y]

\* Zeroed data is data.
LEMMA ZeroDataIs == ZeroData \in Data
  BY Lengths DEF ZeroData, Data

\* A node without children has none.
LEMMA NoChildIs == NoChild \in [0..1 -> {NULL} \cup Slot] /\ \A c \in 0..1 : NoChild[c] = NULL
  BY DEF NoChild

\* A zeroed slot is a node.
LEMMA BlankIs == Blank \in Node
<1>1. [b \in 0..1 |-> NULL] \in [0..1 -> {NULL} \cup Slot] /\ 0 \in 0..MaxPrefixLen
  BY Lengths
<1>. QED
  BY <1>1, ZeroDataIs DEF Blank, Node

\* Slot k holds the entry of the key with this value.
EntryOf(m, k, key, v) ==
  PLen(m, k) = key.prefixlen /\ (\A j : PBit(m, k, j) = KBit(key, j)) /\ ~Inner(m, k) /\ m[k].value = v

\* new_node as lpm_trie_node_alloc() and the update set it up is the key's entry.
LEMMA FreshIs ==
  ASSUME NEW key \in ValidKey, NEW v \in Value, NEW ch \in [0..1 -> {NULL} \cup Slot]
  PROVE  /\ Fresh(key, v, ch) \in Node
         /\ \A m, k : m[k] = Fresh(key, v, ch) => EntryOf(m, k, key, v) /\ \A c : Child(m, k, c) = ch[c]
<1>. DEFINE r == Fresh(key, v, ch)
<1>1. key.prefixlen \in 0..MaxPrefixLen /\ key.data \in Data
  BY KeyIs
<1>2. r \in Node
  BY <1>1 DEF Fresh, Node
<1>3. r.prefixlen = key.prefixlen /\ r.data = key.data /\ r.im = FALSE /\ r.value = v /\ r.child = ch
  BY DEF Fresh
<1>. HIDE DEF r
<1>4. ASSUME NEW m, NEW k, m[k] = r  PROVE  EntryOf(m, k, key, v) /\ \A c : Child(m, k, c) = ch[c]
  BY <1>3, <1>4, Zenon DEF EntryOf, PLen, PBit, KBit, Inner, Child
<1>. QED
  BY <1>2, <1>4, Zenon DEF r

\* The nodes of v and the root keep everything but pointer b of x, which becomes n.
Moved(m, m2, v, x, b, n) ==
  /\ m2 \in Memory
  /\ \A y \in {Trie} \cup v : /\ Kept(m, m2, y)
                              /\ \A c \in 0..1 : Child(m2, y, c) = IF y = x /\ c = b THEN n ELSE Child(m, y, c)

\* Writing slots outside of v keeps the nodes of v.
LEMMA StoresKeep ==
  ASSUME NEW m, NEW m1, NEW m2, NEW x, NEW b, NEW n, Linked(m, m1, x, b, n),
         NEW k \in Slot, NEW f \in Slot, Stores(m1, m2, k, f), NEW v, v \subseteq Slot, k \notin v, f \notin v
  PROVE  Moved(m, m2, v, x, b, n)
<1>1. ASSUME NEW y \in {Trie} \cup v
      PROVE  Kept(m, m2, y) /\ \A c \in 0..1 : Child(m2, y, c) = IF y = x /\ c = b THEN n ELSE Child(m, y, c)
  <2>0. y \in {Trie} \cup Slot /\ y # k /\ y # f
    BY Pointers
  <2>1. m2[y] = m1[y]
    BY <2>0 DEF Stores
  <2>2. Kept(m, m1, y) /\ \A c \in 0..1 : Child(m1, y, c) = IF y = x /\ c = b THEN n ELSE Child(m, y, c)
    BY <2>0, Zenon DEF Linked
  <2>3. Kept(m, m2, y)
    BY <2>1, <2>2, Zenon DEF Kept, SameBits, PLen, PBit, Inner
  <2>4. \A c : Child(m2, y, c) = Child(m1, y, c)
    BY <2>1 DEF Child
  <2>. QED
    BY <2>2, <2>3, <2>4, Zenon
<1>. QED
  BY <1>1, Zenon DEF Stores, Moved

\* A pointer that moved rewires the trie.
LEMMA MovedIs ==
  ASSUME NEW m, NEW m2, NEW v, NEW x, NEW b, NEW n, Moved(m, m2, v, x, b, n)
  PROVE  /\ Rewired(m, m2, v, x, b) /\ m2 \in Memory
         /\ x \in {Trie} \cup v /\ b \in 0..1 => Child(m2, x, b) = n
         /\ \A y \in v : Kept(m, m2, y) /\ SameBits(m, m2, y) /\ Inner(m2, y) = Inner(m, y)
<1>1. \A y \in v : Kept(m, m2, y) /\ SameBits(m, m2, y) /\ Inner(m2, y) = Inner(m, y)
  BY Zenon DEF Moved, Kept
<1>2. Rewired(m, m2, v, x, b)
  BY <1>1 DEF Moved, Rewired
<1>. QED
  BY <1>1, <1>2 DEF Moved
-----------------------------------------------------------------------------
(* A trie of n entries has fewer than n intermediate nodes. *)

\* A trie with a node has one behind the root pointer.
LEMMA RootUsed ==
  ASSUME NEW m, NEW u, Tree(m, u), u # {}
  PROVE  Child(m, Trie, 0) \in u
<1>. DEFINE T == {PLen(m, y) : y \in u}
<1>0. u \subseteq Slot /\ m \in Memory /\ \A y \in u : PLen(m, y) \in Nat
  BY NodeIs DEF Tree
<1>1. PICK l \in T : \A z \in T : l <= z
  <2>1. T \subseteq Nat /\ T # {}
    BY <1>0
  <2>. HIDE DEF T
  <2>. QED
    BY <2>1, LeastNatural
<1>2. PICK y \in u : l = PLen(m, y)
  OBVIOUS
<1>3. PICK x \in {Trie} \cup u, b \in 0..1 : Holds(u, x, b) /\ Child(m, x, b) = y
  BY DEF Tree, Owned
<1>4. y # NULL
  BY <1>0, Pointers
<1>5. x \notin u
  <2>. SUFFICES ASSUME x \in u  PROVE  FALSE
    OBVIOUS
  <2>1. PLen(m, x) < PLen(m, y)
    BY <1>3, <1>4 DEF Tree, Nested, Below
  <2>2. PLen(m, x) \in T
    OBVIOUS
  <2>3. l <= PLen(m, x)
    <3>. HIDE DEF T
    <3>. QED
      BY <1>1, <2>2
  <2>. QED
    BY <1>0, <1>2, <2>1, <2>3
<1>. QED
  BY <1>3, <1>5 DEF Holds

\* Each intermediate node is the parent of two nodes and each node has one parent, so that
\* there are fewer intermediate nodes than entries.
LEMMA InnerFew ==
  ASSUME NEW m, NEW u, Tree(m, u), Two(m, u), u # {}
  PROVE  /\ IsFiniteSet(u) /\ IsFiniteSet(Stored(m, u))
         /\ Cardinality(u) \in Nat /\ Cardinality(Stored(m, u)) \in Nat
         /\ Cardinality(u) + 1 <= 2 * Cardinality(Stored(m, u))
<1>. DEFINE I == {x \in u : Inner(m, x)}
            S == Stored(m, u)
            r == Child(m, Trie, 0)
            D == I \X {0, 1}
            R == u \ {r}
            f == [q \in D |-> Child(m, q[1], q[2])]
<1>1. u \subseteq Slot /\ m \in Memory /\ NULL \notin u /\ Trie \notin u /\ IsFiniteSet(u)
  BY Pointers, FS_Subset DEF Tree
<1>2. r \in u
  BY RootUsed
<1>3. IsFiniteSet(I) /\ IsFiniteSet(S) /\ IsFiniteSet(R)
  BY <1>1, FS_Subset DEF Stored
<1>4. \A x \in I, b \in {0, 1} : Holds(u, x, b) /\ Child(m, x, b) \in R
  <2>. TAKE x \in I, b \in {0, 1}
  <2>0. b \in 0..1 /\ Holds(u, x, b) /\ Holds(u, Trie, 0) /\ 0 \in 0..1
    BY DEF Holds
  <2>1. Child(m, x, b) # NULL
    BY DEF Two
  <2>2. Child(m, x, b) \in u
    BY <2>0, <2>1 DEF Tree, Closed
  <2>3. Child(m, x, b) # r
    BY <1>1, <2>0, <2>1 DEF Tree, Single
  <2>. QED
    BY <2>0, <2>2, <2>3
<1>5. f \in Injection(D, R)
  <2>. HIDE DEF R, I, r
  <2>1. f \in [D -> R]
    BY <1>4
  <2>2. ASSUME NEW p \in D, NEW q \in D, f[p] = f[q]  PROVE  p = q
    <3>1. p = <<p[1], p[2]>> /\ q = <<q[1], q[2]>> /\ p[1] \in I /\ q[1] \in I /\ p[2] \in {0, 1} /\ q[2] \in {0, 1}
      OBVIOUS
    <3>2. Child(m, p[1], p[2]) = Child(m, q[1], q[2]) /\ Child(m, p[1], p[2]) # NULL
      BY <1>1, <1>4, <2>2, <3>1 DEF R
    <3>3. p[1] \in u /\ q[1] \in u /\ p[2] \in 0..1 /\ q[2] \in 0..1
      BY <3>1 DEF I
    <3>4. p[1] = q[1] /\ p[2] = q[2]
      BY <1>4, <3>1, <3>2, <3>3 DEF Tree, Single
    <3>. QED
      BY <3>1, <3>4, Zenon
  <2>. QED
    BY <2>1, <2>2 DEF Injection, IsInjective
<1>6. Cardinality(D) = Cardinality(I) * 2 /\ IsFiniteSet(D)
  <2>. HIDE DEF I
  <2>1. IsFiniteSet({0, 1}) /\ Cardinality({0, 1}) = 2
    <3>1. Cardinality({0}) = 1 /\ IsFiniteSet({0})
      BY FS_Singleton, Zenon
    <3>2. 1 \notin {0} /\ {0} \cup {1} = {0, 1}
      OBVIOUS
    <3>3. IsFiniteSet({0} \cup {1}) /\ Cardinality({0} \cup {1}) = Cardinality({0}) + 1
      BY <3>1, <3>2, FS_AddElement, Zenon
    <3>. QED
      BY <3>1, <3>2, <3>3
  <2>. QED
    BY <1>3, <2>1, FS_Product
<1>7. Cardinality(D) <= Cardinality(R)
  <2>. HIDE DEF D, R, f
  <2>1. Injection(D, R) # {}
    BY <1>5
  <2>. QED
    BY <1>3, <2>1, FS_Injection
<1>8. Cardinality(R) = Cardinality(u) - 1
  BY <1>1, <1>2, FS_RemoveElement
<1>9. Cardinality(I) \in Nat /\ Cardinality(S) \in Nat /\ Cardinality(u) \in Nat
  BY <1>1, <1>3, FS_CardinalityType
<1>10. Cardinality(u) = Cardinality(I) + Cardinality(S)
  <2>1. u = I \cup S /\ I \cap S = {}
    BY DEF Stored
  <2>. HIDE DEF I, S
  <2>2. Cardinality(I \cup S) = Cardinality(I) + Cardinality(S) - Cardinality(I \cap S)
    BY <1>3, FS_Union
  <2>3. Cardinality(I \cap S) = 0
    BY <2>1, FS_EmptySet
  <2>. QED
    BY <1>9, <2>1, <2>2, <2>3
<1>. HIDE DEF I, S, D, R
<1>11. Cardinality(u) + 1 <= 2 * Cardinality(S)
  BY <1>6, <1>7, <1>8, <1>9, <1>10
<1>. QED
  BY <1>1, <1>3, <1>9, <1>11 DEF S
-----------------------------------------------------------------------------
(* What the actions do to the trie *)

\* Pointer b of x is where the walk for the key ended.
At(key, w, x, b) ==
  /\ w.slot \in Pointer /\ x = w.slot[1] /\ b = w.slot[2] /\ b \in 0..1 /\ x \in {Trie} \cup used
  /\ x \in {Trie} \cup Slot /\ Holds(used, x, b) /\ Child(mem, x, b) = w.node
  /\ x \in used => UnderParent(key, w)

\* The pointer where a walk ended.
LEMMA AtIs ==
  ASSUME Tree(mem, used), NEW key \in ValidKey, NEW w, Found(key, w)
  PROVE  At(key, w, w.slot[1], w.slot[2])
<1>1. w \in Local /\ Sound(key, w) /\ Position(w) /\ Trie \notin used /\ used \subseteq Slot
  BY Pointers DEF Found, Locals, Sound, Tree
<1>2. w.slot \in Pointer
  BY <1>1 DEF Local
<1>3. Holds(used, w.slot[1], w.slot[2]) /\ Child(mem, w.slot[1], w.slot[2]) = w.node
  BY <1>1 DEF Position
<1>4. w.slot[2] \in 0..1 /\ w.slot[1] \in {Trie} \cup used
  BY <1>3 DEF Holds
<1>5. w.slot[1] \in used => UnderParent(key, w)
  BY <1>1 DEF Sound
<1>. QED
  BY <1>1, <1>2, <1>3, <1>4, <1>5 DEF At

\* The key's entry extends the node the walk went down from.
LEMMA BelowKey ==
  ASSUME NEW key \in ValidKey, NEW w, NEW x, NEW b, At(key, w, x, b), x \in used,
         NEW m2, SameBits(mem, m2, x), NEW k, NEW v, EntryOf(m2, k, key, v), mem \in Memory
  PROVE  Below(m2, x, b, k)
<1>1. Agrees(mem, x, key) /\ PLen(mem, x) < key.prefixlen /\ b = KBit(key, PLen(mem, x))
  BY DEF At, UnderParent
<1>. QED
  BY <1>1 DEF Agrees, Below, SameBits, EntryOf

\* The entry that an update replaces.
Gone(w) == IF SamePrefix(w) THEN {w.node} ELSE {}

\* The trie after an update that succeeds, and after a deletion.
Written(w, new, key, v) ==
  /\ Tree(mem', used') /\ Two(mem', used') /\ new \in Slot \ used /\ EntryOf(mem', new, key, v)
  /\ Stored(mem', used') = (Stored(mem, used) \ Gone(w)) \cup {new}
  /\ \A y \in Stored(mem, used) \ Gone(w) : Kept(mem, mem', y)
Removed(w) ==
  /\ Tree(mem', used') /\ Two(mem', used')
  /\ Stored(mem', used') = Stored(mem, used) \ {w.node}
  /\ \A y \in Stored(mem, used) \ {w.node} : Kept(mem, mem', y)

\* trie_update_elem() at an empty slot.
LEMMA LeafStep ==
  ASSUME TrieInv, NEW key \in ValidKey, NEW w, Found(key, w), NEW v \in Value, NEW new \in Free,
         UpdateLeaf(w, new, key, v)
  PROVE  Written(w, new, key, v)
<1>. DEFINE x == w.slot[1]
            b == w.slot[2]
            m1 == Assign(mem, w.slot, new)
            m2 == mem'
            u2 == used \cup {new}
<1>0. Tree(mem, used) /\ Two(mem, used) /\ mem \in Memory /\ used \subseteq Slot /\ NULL \notin Slot /\ Trie \notin Slot
  BY Pointers DEF TrieInv, Tree
<1>1. new \in Slot /\ new \notin used /\ w.node = NULL /\ used' = u2 /\ mem' = [m1 EXCEPT ![new] = Fresh(key, v, NoChild)]
  BY DEF Free, UpdateLeaf
<1>2. At(key, w, x, b)
  BY <1>0, AtIs
<1>. HIDE DEF x, b
<1>3. Linked(mem, m1, x, b, new)
  BY <1>0, <1>1, <1>2, AssignIs DEF At
<1>. DEFINE r == Fresh(key, v, NoChild)
<1>4. Stores(m1, m2, new, new) /\ m2[new] = r
  <2>1. m1 \in Memory /\ r \in Node /\ mem' = [m1 EXCEPT ![new] = r]
    BY <1>1, <1>3, FreshIs, NoChildIs DEF Linked
  <2>. HIDE DEF m1, r, m2
  <2>2. m2 = [m1 EXCEPT ![new] = r]
    BY <2>1 DEF m2
  <2>. QED
    BY <1>1, <2>1, <2>2 DEF Memory, Stores
<1>. HIDE DEF m1, m2
<1>5. EntryOf(m2, new, key, v) /\ \A c \in 0..1 : Child(m2, new, c) = NULL
  BY <1>4, FreshIs, NoChildIs
<1>6. Moved(mem, m2, used, x, b, new)
  BY <1>0, <1>1, <1>3, <1>4, StoresKeep
<1>7. Rewired(mem, m2, used, x, b)
  BY <1>6, MovedIs
<1>8. Child(m2, x, b) = new /\ Child(mem, x, b) = NULL /\ Holds(used, x, b)
  BY <1>1, <1>2, <1>6, MovedIs DEF At
<1>9. x \in used => Below(m2, x, b, new)
  BY <1>0, <1>2, <1>5, <1>6, BelowKey, MovedIs
<1>10. Tree(m2, u2)
  BY <1>0, <1>1, <1>5, <1>7, <1>8, <1>9, LeafTree
<1>11. Two(m2, u2)
  <2>. SUFFICES ASSUME NEW y \in u2, Inner(m2, y)  PROVE  Child(m2, y, 0) # NULL /\ Child(m2, y, 1) # NULL
    BY DEF Two
  <2>1. y \in used /\ Inner(mem, y)
    BY <1>5, <1>6, MovedIs DEF EntryOf
  <2>2. \A c \in 0..1 : Child(mem, y, c) # NULL
    BY <1>0, <2>1 DEF Two
  <2>. QED
    BY <1>0, <1>1, <1>6, <2>1, <2>2 DEF Moved
<1>12. Gone(w) = {} /\ Stored(m2, u2) = Stored(mem, used) \cup {new}
  <2>1. ~SamePrefix(w)
    BY <1>1 DEF SamePrefix
  <2>2. \A y \in used : Inner(m2, y) = Inner(mem, y)
    BY <1>6, MovedIs
  <2>3. ~Inner(m2, new)
    BY <1>5 DEF EntryOf
  <2>. QED
    BY <1>1, <2>1, <2>2, <2>3, Zenon DEF Gone, Stored
<1>13. \A y \in Stored(mem, used) : Kept(mem, m2, y)
  BY <1>6, MovedIs DEF Stored
<1>. QED
  BY <1>1, <1>5, <1>10, <1>11, <1>12, <1>13, Zenon DEF Written, m2

\* The place where a node hangs is not a pointer of its own.
LEMMA NotOwn ==
  ASSUME NEW m, NEW u, Tree(m, u), NEW x, NEW b, Holds(u, x, b), NEW n \in u, Child(m, x, b) = n
  PROVE  x # n
<1>. SUFFICES ASSUME x = n  PROVE  FALSE
  OBVIOUS
<1>1. n \in Slot /\ m \in Memory /\ n # NULL /\ n # Trie /\ b \in 0..1
  BY Pointers DEF Tree, Holds
<1>2. PLen(m, n) < PLen(m, n) /\ PLen(m, n) \in Nat
  BY <1>1, NodeIs DEF Tree, Nested, Below
<1>. QED
  BY <1>2

\* trie_update_elem() at a node with the key's prefix.
LEMMA ReplaceStep ==
  ASSUME TrieInv, NEW key \in ValidKey, NEW w, Found(key, w), NEW v \in Value, NEW new \in Free,
         UpdateReplace(w, new, key, v)
  PROVE  Written(w, new, key, v)
<1>. DEFINE x == w.slot[1]
            b == w.slot[2]
            n == w.node
            m1 == Assign(mem, w.slot, new)
            m2 == mem'
            u1 == used \ {n}
            u2 == (used \cup {new}) \ {n}
            r == Fresh(key, v, mem[n].child)
<1>0. Tree(mem, used) /\ Two(mem, used) /\ mem \in Memory /\ used \subseteq Slot /\ NULL \notin Slot /\ Trie \notin Slot
  BY Pointers DEF TrieInv, Tree
<1>1. new \in Slot /\ new \notin used /\ SamePrefix(w) /\ used' = u2 /\ mem' = [m1 EXCEPT ![new] = r, ![n] = Blank]
  BY DEF Free, UpdateReplace
<1>2. n \in used /\ Agrees(mem, n, key) /\ PLen(mem, n) = key.prefixlen
  BY <1>0, <1>1, FoundSame
<1>3. At(key, w, x, b) /\ n \in Slot /\ n # new
  BY <1>0, <1>1, <1>2, AtIs
<1>. HIDE DEF x, b
<1>4. Linked(mem, m1, x, b, new)
  BY <1>0, <1>1, <1>3, AssignIs DEF At
<1>5. mem[n].child \in [0..1 -> {NULL} \cup Slot]
  BY <1>0, <1>3 DEF Memory, Node
<1>6. Stores(m1, m2, new, n) /\ m2[new] = r
  <2>1. m1 \in Memory /\ r \in Node /\ Blank \in Node
    BY <1>4, <1>5, FreshIs, BlankIs DEF Linked
  <2>. HIDE DEF m1, r, n
  <2>. QED
    BY <1>1, <1>3, <2>1 DEF Memory, Stores
<1>. HIDE DEF m1, m2
<1>7. EntryOf(m2, new, key, v) /\ \A c : Child(m2, new, c) = Child(mem, n, c)
  <2>1. EntryOf(m2, new, key, v) /\ \A c : Child(m2, new, c) = mem[n].child[c]
    BY <1>5, <1>6, FreshIs
  <2>. QED
    BY <2>1, Zenon DEF Child
<1>. HIDE DEF r, n
<1>8. Moved(mem, m2, u1, x, b, new)
  <2>1. u1 \subseteq Slot /\ new \notin u1 /\ n \notin u1
    BY <1>0, <1>1
  <2>. HIDE DEF u1
  <2>. QED
    BY <1>1, <1>3, <1>4, <1>6, <2>1, StoresKeep
<1>9. Holds(used, x, b) /\ Child(mem, x, b) = n /\ x \in {Trie} \cup used /\ b \in 0..1
  BY <1>3 DEF At, n
<1>10. x \in {Trie} \cup u1
  BY <1>0, <1>2, <1>9, NotOwn
<1>11. Rewired(mem, m2, u1, x, b) /\ Child(m2, x, b) = new
  <2>. HIDE DEF u1
  <2>. QED
    BY <1>8, <1>9, <1>10, MovedIs
<1>12. PLen(m2, new) = PLen(mem, n) /\ \A j \in 0..(PLen(mem, n) - 1) : PBit(m2, new, j) = PBit(mem, n, j)
  BY <1>2, <1>7 DEF EntryOf, Agrees
<1>13. Tree(m2, u2)
  BY <1>0, <1>1, <1>2, <1>7, <1>9, <1>11, <1>12, ReplaceTree
<1>14. Two(m2, u2)
  <2>. SUFFICES ASSUME NEW y \in u2, Inner(m2, y)  PROVE  Child(m2, y, 0) # NULL /\ Child(m2, y, 1) # NULL
    BY DEF Two
  <2>1. y \in u1
    BY <1>7 DEF EntryOf
  <2>2. Inner(mem, y) /\ y \in used
    BY <1>8, <2>1, MovedIs
  <2>3. \A c \in 0..1 : Child(mem, y, c) # NULL
    BY <1>0, <2>2 DEF Two
  <2>. QED
    BY <1>0, <1>1, <1>8, <2>1, <2>3 DEF Moved
<1>15. Gone(w) = {n} /\ Stored(m2, u2) = (Stored(mem, used) \ {n}) \cup {new}
  <2>1. Gone(w) = {n}
    BY <1>1 DEF Gone, n
  <2>2. \A y \in used \ {n} : Inner(m2, y) = Inner(mem, y)
    BY <1>8, MovedIs
  <2>3. ~Inner(m2, new)
    BY <1>7 DEF EntryOf
  <2>. QED
    BY <1>1, <1>3, <2>1, <2>2, <2>3, Zenon DEF Stored
<1>16. \A y \in Stored(mem, used) \ {n} : Kept(mem, m2, y)
  BY <1>8, MovedIs DEF Stored
<1>17. used' = u2 /\ new \in Slot \ used
  BY <1>1
<1>. QED
  BY <1>7, <1>13, <1>14, <1>15, <1>16, <1>17, Zenon DEF Written, m2

\* trie_update_elem() above a node with a longer prefix.
LEMMA AboveStep ==
  ASSUME TrieInv, NEW key \in ValidKey, NEW w, Found(key, w), NEW v \in Value, NEW new \in Free,
         UpdateAbove(w, new, key, v)
  PROVE  Written(w, new, key, v)
<1>. DEFINE x == w.slot[1]
            b == w.slot[2]
            n == w.node
            m1 == Assign(mem, w.slot, new)
            m2 == mem'
            u2 == used \cup {new}
            d == extract_bit(mem[n].data, w.matchlen)
            ch == [NoChild EXCEPT ![d] = n]
            r == Fresh(key, v, ch)
<1>0. Tree(mem, used) /\ Two(mem, used) /\ mem \in Memory /\ used \subseteq Slot /\ NULL \notin Slot /\ Trie \notin Slot
  BY Pointers DEF TrieInv, Tree
<1>1. /\ new \in Slot /\ new \notin used /\ ~SamePrefix(w) /\ used' = u2 /\ mem' = [m1 EXCEPT ![new] = r]
      /\ n # NULL /\ w.matchlen = key.prefixlen
  BY DEF Free, UpdateAbove
<1>2. n \in used /\ n \in Slot /\ w.matchlen = longest_prefix_match(n, key) /\ PLen(mem, n) # w.matchlen
  BY <1>0, <1>1 DEF Found, Locals, Sound, SamePrefix, PLen
<1>3. At(key, w, x, b)
  BY <1>0, AtIs
<1>. HIDE DEF x, b
<1>4. Linked(mem, m1, x, b, new)
  BY <1>0, <1>1, <1>3, AssignIs DEF At
<1>5. Match(n, key, key.prefixlen) /\ d = PBit(mem, n, key.prefixlen)
  <2>1. Match(n, key, longest_prefix_match(n, key))
    BY <1>0, <1>2, MatchIs
  <2>. QED
    BY <1>1, <1>2, <2>1 DEF PBit
<1>6. key.prefixlen < PLen(mem, n) /\ d \in 0..1
  <2>1. PLen(mem, n) \in Nat /\ key.prefixlen \in Nat /\ key.prefixlen <= PLen(mem, n) /\ PLen(mem, n) <= MaxPrefixLen /\ MaxPrefixLen \in Nat
    BY <1>0, <1>2, <1>5, NodeIs, KeyIs, Lengths DEF Match
  <2>2. key.prefixlen < PLen(mem, n) /\ key.prefixlen \in 0..(MaxPrefixLen - 1)
    BY <1>1, <1>2, <2>1
  <2>3. \A j \in 0..(MaxPrefixLen - 1) : PBit(mem, n, j) \in 0..1
    BY <1>0, <1>2, NodeIs
  <2>. QED
    BY <1>5, <2>2, <2>3
<1>. HIDE DEF n, d
<1>7. ch \in [0..1 -> {NULL} \cup Slot] /\ ch[d] = n /\ \A c \in 0..1 : c # d => ch[c] = NULL
  BY <1>2, <1>6, NoChildIs
<1>. HIDE DEF ch
<1>8. Stores(m1, m2, new, new) /\ m2[new] = r
  <2>1. m1 \in Memory /\ r \in Node
    BY <1>4, <1>7, FreshIs DEF Linked
  <2>. HIDE DEF m1, r
  <2>. QED
    BY <1>1, <2>1 DEF Memory, Stores
<1>. HIDE DEF m1, m2
<1>9. EntryOf(m2, new, key, v) /\ \A c : Child(m2, new, c) = ch[c]
  BY <1>7, <1>8, FreshIs
<1>. HIDE DEF r
<1>10. Moved(mem, m2, used, x, b, new)
  BY <1>0, <1>1, <1>4, <1>8, StoresKeep
<1>11. Holds(used, x, b) /\ Child(mem, x, b) = n /\ x \in {Trie} \cup used /\ b \in 0..1
  BY <1>3 DEF At, n
<1>12. Rewired(mem, m2, used, x, b) /\ Child(m2, x, b) = new
  BY <1>10, <1>11, MovedIs
<1>13. x \in used => Below(m2, x, b, new)
  BY <1>0, <1>3, <1>9, <1>10, BelowKey, MovedIs
<1>14. Below(m2, new, d, n)
  <2>1. SameBits(mem, m2, n)
    BY <1>2, <1>10, MovedIs
  <2>. QED
    BY <1>5, <1>6, <1>9, <2>1 DEF Below, SameBits, EntryOf, Match
<1>15. Child(m2, new, d) = n /\ \A c \in 0..1 : c # d => Child(m2, new, c) = NULL
  BY <1>7, <1>9
<1>16. Tree(m2, u2)
  BY <1>0, <1>1, <1>2, <1>6, <1>11, <1>12, <1>13, <1>14, <1>15, AboveTree
<1>17. Two(m2, u2)
  <2>. SUFFICES ASSUME NEW y \in u2, Inner(m2, y)  PROVE  Child(m2, y, 0) # NULL /\ Child(m2, y, 1) # NULL
    BY DEF Two
  <2>1. y \in used
    BY <1>9 DEF EntryOf
  <2>2. Inner(mem, y)
    BY <1>10, <2>1, MovedIs
  <2>3. \A c \in 0..1 : Child(mem, y, c) # NULL
    BY <1>0, <2>1, <2>2 DEF Two
  <2>. QED
    BY <1>0, <1>1, <1>10, <2>1, <2>3 DEF Moved
<1>18. Gone(w) = {} /\ Stored(m2, u2) = Stored(mem, used) \cup {new}
  <2>1. Gone(w) = {}
    BY <1>1 DEF Gone
  <2>2. \A y \in used : Inner(m2, y) = Inner(mem, y)
    BY <1>10, MovedIs
  <2>3. ~Inner(m2, new)
    BY <1>9 DEF EntryOf
  <2>. QED
    BY <1>1, <2>1, <2>2, <2>3, Zenon DEF Stored
<1>19. \A y \in Stored(mem, used) : Kept(mem, m2, y)
  BY <1>10, MovedIs DEF Stored
<1>20. used' = u2 /\ new \in Slot \ used
  BY <1>1
<1>. QED
  BY <1>9, <1>16, <1>17, <1>18, <1>19, <1>20, Zenon DEF Written, m2

\* im_node is a node.
LEMMA JointIs ==
  ASSUME NEW w, w.matchlen \in 0..MaxPrefixLen, mem[w.node].data \in Data, NEW ch \in [0..1 -> {NULL} \cup Slot]
  PROVE  /\ Joint(w, ch) \in Node
         /\ Joint(w, ch).prefixlen = w.matchlen /\ Joint(w, ch).data = mem[w.node].data
         /\ Joint(w, ch).im = TRUE /\ Joint(w, ch).child = ch
  BY DEF Joint, Node

\* trie_update_elem() with an intermediate node.
LEMMA ForkStep ==
  ASSUME TrieInv, NEW key \in ValidKey, NEW w, Found(key, w), NEW v \in Value, NEW new \in Free,
         NEW im \in Free \ {new}, UpdateFork(w, new, im, key, v)
  PROVE  Written(w, new, key, v)
<1>. DEFINE x == w.slot[1]
            b == w.slot[2]
            n == w.node
            l == w.matchlen
            m1 == Assign(mem, w.slot, im)
            m2 == mem'
            u2 == used \cup {new, im}
            bit == extract_bit(key.data, l)
            d == 1 - bit
            r == Fresh(key, v, NoChild)
            ch == [NoChild EXCEPT ![bit] = new, ![d] = n]
            q == Joint(w, ch)
<1>0. Tree(mem, used) /\ Two(mem, used) /\ mem \in Memory /\ used \subseteq Slot /\ NULL \notin Slot /\ Trie \notin Slot
  BY Pointers DEF TrieInv, Tree
<1>1. /\ new \in Slot /\ new \notin used /\ im \in Slot /\ im \notin used /\ im # new
      /\ ~SamePrefix(w) /\ used' = u2 /\ n # NULL /\ l # key.prefixlen
  BY DEF Free, UpdateFork, Forks
<1>2. mem' = [m1 EXCEPT ![new] = r, ![im] = q]
  BY DEF UpdateFork
<1>3. n \in used /\ n \in Slot /\ l = longest_prefix_match(n, key) /\ PLen(mem, n) # l
  BY <1>0, <1>1 DEF Found, Locals, Sound, SamePrefix, PLen
<1>4. At(key, w, x, b)
  BY <1>0, AtIs
<1>. HIDE DEF x, b
<1>5. Linked(mem, m1, x, b, im)
  BY <1>0, <1>1, <1>4, AssignIs DEF At
<1>6. Match(n, key, l) /\ bit = KBit(key, l)
  <2>1. Match(n, key, longest_prefix_match(n, key))
    BY <1>0, <1>3, MatchIs
  <2>. QED
    BY <1>3, <2>1 DEF KBit
<1>. HIDE DEF l, bit
<1>7. l \in Nat /\ l < PLen(mem, n) /\ l < key.prefixlen /\ l \in 0..MaxPrefixLen /\ l \in 0..(MaxPrefixLen - 1)
  <2>1. PLen(mem, n) \in Nat /\ key.prefixlen \in Nat /\ l <= PLen(mem, n) /\ PLen(mem, n) <= MaxPrefixLen /\ MaxPrefixLen \in Nat
        /\ l \in Nat /\ l <= key.prefixlen /\ l \in 0..MaxPrefixLen
    BY <1>0, <1>3, <1>6, NodeIs, KeyIs, Lengths DEF Match
  <2>. QED
    BY <1>1, <1>3, <2>1
<1>8. bit \in 0..1 /\ PBit(mem, n, l) = d /\ d \in 0..1 /\ 1 - d = bit
  <2>1. PBit(mem, n, l) # bit
    BY <1>6, <1>7 DEF Match
  <2>2. PBit(mem, n, l) \in 0..1 /\ bit \in 0..1
    BY <1>0, <1>3, <1>6, <1>7, NodeIs, KeyIs
  <2>. QED
    BY <2>1, <2>2
<1>9. mem[n].data \in Data
  BY <1>0, <1>3 DEF Memory, Node
<1>10. /\ q \in Node /\ q.prefixlen = l /\ q.data = mem[n].data /\ q.im = TRUE /\ q.child = ch
       /\ ch[bit] = new /\ ch[d] = n
  <2>1. ch \in [0..1 -> {NULL} \cup Slot] /\ ch[bit] = new /\ ch[d] = n
    BY <1>1, <1>3, <1>8, NoChildIs
  <2>. HIDE DEF ch
  <2>. QED
    BY <1>7, <1>9, <2>1, JointIs DEF l
<1>. HIDE DEF n, d, q, ch
<1>11. Stores(m1, m2, new, im) /\ m2[new] = r /\ m2[im] = q
  <2>1. m1 \in Memory /\ r \in Node
    BY <1>5, NoChildIs, FreshIs DEF Linked
  <2>. HIDE DEF m1, r
  <2>. QED
    BY <1>1, <1>2, <1>10, <2>1 DEF Memory, Stores
<1>. HIDE DEF m1, m2
<1>12. EntryOf(m2, new, key, v) /\ \A c \in 0..1 : Child(m2, new, c) = NULL
  BY <1>11, FreshIs, NoChildIs
<1>. HIDE DEF r
<1>13. /\ PLen(m2, im) = l /\ (\A j : PBit(m2, im, j) = PBit(mem, n, j)) /\ Inner(m2, im)
       /\ Child(m2, im, bit) = new /\ Child(m2, im, d) = n
  BY <1>10, <1>11, Zenon DEF PLen, PBit, Inner, Child
<1>14. Moved(mem, m2, used, x, b, im)
  BY <1>0, <1>1, <1>5, <1>11, StoresKeep
<1>15. Holds(used, x, b) /\ Child(mem, x, b) = n /\ x \in {Trie} \cup used /\ b \in 0..1
  BY <1>4 DEF At, n
<1>16. Rewired(mem, m2, used, x, b) /\ Child(m2, x, b) = im /\ SameBits(mem, m2, n)
  BY <1>3, <1>14, <1>15, MovedIs
<1>17. ASSUME x \in used  PROVE  Below(m2, x, b, im)
  <2>1. Agrees(mem, x, key) /\ b = KBit(key, PLen(mem, x)) /\ Below(mem, x, b, n) /\ SameBits(mem, m2, x)
    BY <1>0, <1>3, <1>4, <1>14, <1>15, <1>17, MovedIs DEF At, UnderParent, Tree, Nested
  <2>2. PLen(mem, x) \in Nat
    BY <1>0, <1>17, NodeIs
  <2>3. PLen(mem, x) < l
    <3>. SUFFICES ASSUME l <= PLen(mem, x)  PROVE  FALSE
      BY <1>7, <2>2
    <3>1. l \in 0..(PLen(mem, x) - 1) \/ l = PLen(mem, x)
      BY <1>7, <2>2
    <3>2. PBit(mem, n, l) = KBit(key, l)
      BY <2>1, <3>1 DEF Agrees, Below
    <3>. QED
      BY <1>6, <1>7, <3>2 DEF Match
  <2>. QED
    BY <1>13, <2>1, <2>3 DEF Below, SameBits
<1>18. Below(m2, im, d, n)
  BY <1>7, <1>8, <1>13, <1>16 DEF Below, SameBits
<1>19. Below(m2, im, 1 - d, new)
  <2>1. \A j \in 0..(l - 1) : PBit(m2, new, j) = PBit(m2, im, j)
    BY <1>6, <1>12, <1>13 DEF EntryOf, Match
  <2>. QED
    BY <1>6, <1>7, <1>8, <1>12, <1>13, <2>1 DEF Below, EntryOf
<1>20. Child(m2, im, d) = n /\ Child(m2, im, 1 - d) = new
  BY <1>8, <1>13
<1>21. Tree(m2, u2)
  BY <1>0, <1>1, <1>3, <1>8, <1>12, <1>15, <1>16, <1>17, <1>18, <1>19, <1>20, ForkTree
<1>22. Two(m2, u2)
  <2>. SUFFICES ASSUME NEW y \in u2, Inner(m2, y)  PROVE  Child(m2, y, 0) # NULL /\ Child(m2, y, 1) # NULL
    BY DEF Two
  <2>1. CASE y = im
    <3>1. new # NULL /\ n # NULL
      BY <1>0, <1>1, <1>3
    <3>. QED
      BY <1>8, <1>13, <2>1, <3>1
  <2>2. CASE y # im
    <3>1. y \in used
      BY <1>12, <2>2 DEF EntryOf
    <3>2. Inner(mem, y)
      BY <1>14, <3>1, MovedIs
    <3>3. \A c \in 0..1 : Child(mem, y, c) # NULL
      BY <1>0, <3>1, <3>2 DEF Two
    <3>. QED
      BY <1>0, <1>1, <1>14, <3>1, <3>3 DEF Moved
  <2>. QED
    BY <2>1, <2>2
<1>23. Gone(w) = {} /\ Stored(m2, u2) = Stored(mem, used) \cup {new}
  <2>1. Gone(w) = {}
    BY <1>1 DEF Gone
  <2>2. \A y \in used : Inner(m2, y) = Inner(mem, y)
    BY <1>14, MovedIs
  <2>3. ~Inner(m2, new) /\ Inner(m2, im)
    BY <1>12, <1>13 DEF EntryOf
  <2>. QED
    BY <1>1, <2>1, <2>2, <2>3, Zenon DEF Stored
<1>24. \A y \in Stored(mem, used) : Kept(mem, m2, y)
  BY <1>14, MovedIs DEF Stored
<1>25. used' = u2 /\ new \in Slot \ used
  BY <1>1
<1>. QED
  BY <1>12, <1>21, <1>22, <1>23, <1>24, <1>25, Zenon DEF Written, m2

\* The entry that trie_delete_elem() removes.
LEMMA DoomedIs ==
  ASSUME Tree(mem, used), NEW key \in ValidKey, NEW w, Found(key, w), Doomed(w, key)
  PROVE  /\ w.node \in used /\ w.node \in Slot /\ ~Inner(mem, w.node) /\ SamePrefix(w)
         /\ Agrees(mem, w.node, key) /\ PLen(mem, w.node) = key.prefixlen
<1>1. SamePrefix(w) /\ ~Inner(mem, w.node)
  BY DEF Doomed, Present, Eligible, Inner
<1>. QED
  BY <1>1, FoundSame DEF Tree

\* trie_delete_elem() of a node with two children.
LEMMA ToIMStep ==
  ASSUME TrieInv, NEW key \in ValidKey, NEW w, Found(key, w), Doomed(w, key), DeleteToIM(w)
  PROVE  Removed(w)
<1>. DEFINE n == w.node
            m2 == mem'
<1>0. Tree(mem, used) /\ Two(mem, used) /\ mem \in Memory /\ used \subseteq Slot /\ NULL \notin Slot /\ Trie \notin Slot
  BY Pointers DEF TrieInv, Tree
<1>1. n \in used /\ n \in Slot
  BY <1>0, DoomedIs
<1>2. Children(n) = {0, 1} /\ mem' = [mem EXCEPT ![n].im = TRUE] /\ used' = used
  BY DEF DeleteToIM
<1>3. Child(mem, n, 0) # NULL /\ Child(mem, n, 1) # NULL
  BY <1>2 DEF Children, Child
<1>. HIDE DEF n
<1>4. DOMAIN mem = {Trie} \cup Slot /\ mem[n] \in Node /\ \A y \in {Trie} \cup Slot : mem[y] \in Node
  BY <1>0, <1>1 DEF Memory
<1>. DEFINE r == [mem[n] EXCEPT !.im = TRUE]
<1>5. mem' = [mem EXCEPT ![n] = r]
  BY <1>2, <1>4
<1>6. r \in Node /\ r.im = TRUE /\ r.prefixlen = mem[n].prefixlen /\ r.data = mem[n].data /\ r.child = mem[n].child
  BY <1>4 DEF Node
<1>. HIDE DEF r
<1>7. m2 \in Memory /\ m2[n] = r /\ \A y \in {Trie} \cup Slot : y # n => m2[y] = mem[y]
  BY <1>1, <1>4, <1>5, <1>6 DEF Memory
<1>. HIDE DEF m2
<1>8. \A y \in {Trie} \cup Slot : m2[y].prefixlen = mem[y].prefixlen /\ m2[y].data = mem[y].data /\ m2[y].child = mem[y].child
  BY <1>6, <1>7
<1>9. \A y \in {Trie} \cup Slot : SameBits(mem, m2, y) /\ \A c \in 0..1 : Child(m2, y, c) = Child(mem, y, c)
  BY <1>8, Zenon DEF SameBits, PLen, PBit, Child
<1>10. Inner(m2, n) /\ \A y \in used : y # n => m2[y] = mem[y]
  BY <1>0, <1>6, <1>7 DEF Inner
<1>11. Tree(m2, used)
  BY <1>0, <1>7, <1>9, SameTree
<1>12. Two(m2, used)
  <2>. SUFFICES ASSUME NEW y \in used, Inner(m2, y)  PROVE  Child(m2, y, 0) # NULL /\ Child(m2, y, 1) # NULL
    BY DEF Two
  <2>1. y \in Slot
    BY <1>0
  <2>2. CASE y = n
    BY <1>3, <1>9, <2>1, <2>2
  <2>3. CASE y # n
    <3>1. Inner(mem, y)
      BY <1>10, <2>3 DEF Inner
    <3>. QED
      BY <1>0, <1>9, <2>1, <3>1 DEF Two
  <2>. QED
    BY <2>2, <2>3
<1>13. Stored(m2, used) = Stored(mem, used) \ {n}
  <2>1. \A y \in used : y # n => Inner(m2, y) = Inner(mem, y)
    BY <1>10, Zenon DEF Inner
  <2>. QED
    BY <1>10, <2>1, Zenon DEF Stored
<1>14. \A y \in Stored(mem, used) \ {n} : Kept(mem, m2, y)
  <2>. TAKE y \in Stored(mem, used) \ {n}
  <2>1. y \in used /\ y # n
    BY DEF Stored
  <2>2. m2[y] = mem[y]
    BY <1>10, <2>1
  <2>. QED
    BY <2>2, Zenon DEF Kept, SameBits, PLen, PBit, Inner
<1>. QED
  BY <1>2, <1>11, <1>12, <1>13, <1>14, Zenon DEF Removed, m2, n

\* trie_delete_elem() of a node with at most one child.
LEMMA NodeStep ==
  ASSUME TrieInv, NEW key \in ValidKey, NEW w, Found(key, w), Doomed(w, key), DeleteNode(w)
  PROVE  Removed(w)
<1>. DEFINE x == w.slot[1]
            b == w.slot[2]
            n == w.node
            d == IF mem[n].child[0] # NULL THEN 0 ELSE 1
            h == IF mem[n].child[0] # NULL THEN mem[n].child[0] ELSE mem[n].child[1]
            m1 == Assign(mem, w.slot, h)
            m2 == mem'
            u2 == used \ {n}
<1>0. Tree(mem, used) /\ Two(mem, used) /\ mem \in Memory /\ used \subseteq Slot /\ NULL \notin Slot /\ Trie \notin Slot
  BY Pointers DEF TrieInv, Tree
<1>1. n \in used /\ n \in Slot /\ ~Inner(mem, n)
  BY <1>0, DoomedIs
<1>2. Children(n) # {0, 1} /\ ~LastBelowIM(w) /\ mem' = [m1 EXCEPT ![n] = Blank] /\ used' = u2
  BY DEF DeleteNode
<1>3. At(key, w, x, b)
  BY <1>0, AtIs
<1>. HIDE DEF x, b
<1>4. h \in {NULL} \cup Slot /\ h = Child(mem, n, d) /\ d \in 0..1 /\ Child(mem, n, 1 - d) = NULL
      /\ (h = NULL => Children(n) = {})
  <2>1. \A c \in 0..1 : mem[n].child[c] \in {NULL} \cup Slot
    BY <1>0, <1>1, NodeIs DEF Child
  <2>2. mem[n].child[0] = NULL \/ mem[n].child[1] = NULL
    BY <1>2 DEF Children
  <2>3. h = NULL => mem[n].child[0] = NULL /\ mem[n].child[1] = NULL
    OBVIOUS
  <2>. QED
    BY <2>1, <2>2, <2>3 DEF Child, Children
<1>. HIDE DEF n, d, h
<1>5. Linked(mem, m1, x, b, h)
  BY <1>0, <1>3, <1>4, AssignIs DEF At
<1>6. Stores(m1, m2, n, n)
  <2>1. m1 \in Memory /\ Blank \in Node
    BY <1>5, BlankIs DEF Linked
  <2>. HIDE DEF m1
  <2>. QED
    BY <1>1, <1>2, <2>1 DEF Memory, Stores
<1>. HIDE DEF m1, m2
<1>7. Moved(mem, m2, u2, x, b, h)
  <2>1. u2 \subseteq Slot /\ n \notin u2
    BY <1>0
  <2>. HIDE DEF u2
  <2>. QED
    BY <1>1, <1>5, <1>6, <2>1, StoresKeep
<1>8. Holds(used, x, b) /\ Child(mem, x, b) = n /\ x \in {Trie} \cup used /\ b \in 0..1
  BY <1>3 DEF At, n
<1>9. x \in {Trie} \cup u2
  BY <1>0, <1>1, <1>8, NotOwn
<1>10. Rewired(mem, m2, u2, x, b) /\ Child(m2, x, b) = h
  <2>. HIDE DEF u2
  <2>. QED
    BY <1>7, <1>8, <1>9, MovedIs
<1>11. Tree(m2, u2)
  BY <1>0, <1>1, <1>4, <1>8, <1>10, SpliceTree
<1>12. Two(m2, u2)
  <2>. SUFFICES ASSUME NEW y \in u2, Inner(m2, y)  PROVE  Child(m2, y, 0) # NULL /\ Child(m2, y, 1) # NULL
    BY DEF Two
  <2>1. Inner(mem, y) /\ y \in used
    BY <1>7, MovedIs
  <2>2. \A c \in 0..1 : Child(mem, y, c) # NULL
    BY <1>0, <2>1 DEF Two
  <2>3. y = x => h # NULL
    <3>. SUFFICES ASSUME y = x, h = NULL  PROVE  FALSE
      OBVIOUS
    <3>1. w.parent = x /\ w.parent \in used
      BY <1>3, <2>1 DEF At, UnderParent
    <3>2. w.parent # NULL
      BY <1>0, <3>1
    <3>3. LastBelowIM(w)
      BY <1>4, <2>1, <3>1, <3>2 DEF LastBelowIM, Inner, n
    <3>. QED
      BY <1>2, <3>3
  <2>. QED
    BY <1>0, <1>7, <2>2, <2>3 DEF Moved
<1>13. Stored(m2, u2) = Stored(mem, used) \ {n}
  <2>1. \A y \in used : y # n => Inner(m2, y) = Inner(mem, y)
    BY <1>7, MovedIs
  <2>. QED
    BY <2>1, Zenon DEF Stored
<1>14. \A y \in Stored(mem, used) \ {n} : Kept(mem, m2, y)
  BY <1>7, MovedIs DEF Stored
<1>15. used' = u2
  BY <1>2
<1>. QED
  BY <1>11, <1>12, <1>13, <1>14, <1>15, Zenon DEF Removed, m2, n

\* trie_delete_elem() of a leaf with its intermediate parent.
LEMMA WithParentStep ==
  ASSUME TrieInv, NEW key \in ValidKey, NEW w, Found(key, w), Doomed(w, key), DeleteWithParent(w)
  PROVE  Removed(w)
<1>. DEFINE p == w.parent
            b == w.slot[2]
            n == w.node
            y == w.trim2[1]
            a == w.trim2[2]
            side == IF n = mem[p].child[0] THEN 1 ELSE 0
            s == mem[p].child[side]
            mid == Assign(mem, w.slot, NULL)
            m1 == Assign(mem, w.trim2, s)
            m2 == mem'
            u1 == used \ {n}
            u2 == used \ {p, n}
<1>0. Tree(mem, used) /\ Two(mem, used) /\ mem \in Memory /\ used \subseteq Slot /\ NULL \notin Slot /\ Trie \notin Slot
  BY Pointers DEF TrieInv, Tree
<1>1. n \in used /\ n \in Slot /\ ~Inner(mem, n)
  BY <1>0, DoomedIs
<1>2. /\ p # NULL /\ Inner(mem, p) /\ Children(n) = {} /\ used' = u2
      /\ mem' = [m1 EXCEPT ![p] = Blank, ![n] = Blank]
  BY DEF DeleteWithParent, LastBelowIM, Inner
<1>3. At(key, w, w.slot[1], b) /\ w \in Local /\ UnderParent(key, w)
  BY <1>0, <1>2, AtIs DEF Found, Locals, Sound
<1>4. /\ p \in used /\ p \in Slot /\ w.slot[1] = p /\ b \in 0..1 /\ Child(mem, p, b) = n /\ w.slot \in Pointer
      /\ w.trim2 \in Pointer /\ Holds(used, y, a) /\ Child(mem, y, a) = p
  BY <1>0, <1>3 DEF At, UnderParent, Local
<1>5. Child(mem, n, 0) = NULL /\ Child(mem, n, 1) = NULL
  BY <1>2 DEF Children, Child
<1>6. y \in {Trie} \cup used /\ a \in 0..1 /\ y # n /\ y # p
  <2>1. y \in {Trie} \cup used /\ a \in 0..1
    BY <1>4 DEF Holds
  <2>2. y # p
    BY <1>0, <1>4, NotOwn
  <2>3. y # n
    BY <1>0, <1>4, <1>5, <2>1
  <2>. QED
    BY <2>1, <2>2, <2>3
<1>. HIDE DEF p, n, b, y, a
<1>7. side = 1 - b /\ side \in 0..1 /\ 1 - side = b /\ s = Child(mem, p, side) /\ s # NULL /\ s \in Slot
  <2>1. b = 1 => n # mem[p].child[0]
    <3>. SUFFICES ASSUME b = 1, n = mem[p].child[0]  PROVE  FALSE
      OBVIOUS
    <3>1. Holds(used, p, 0) /\ Holds(used, p, 1) /\ Child(mem, p, 0) = Child(mem, p, 1) /\ Child(mem, p, 0) # NULL
      BY <1>0, <1>1, <1>4 DEF Holds, Child
    <3>2. 0 \in 0..1 /\ 1 \in 0..1 /\ p \in {Trie} \cup used
      BY <1>4
    <3>3. 0 = 1
      BY <1>0, <3>1, <3>2 DEF Tree, Single
    <3>. QED
      BY <3>3
  <2>2. side = 1 - b /\ side \in 0..1 /\ 1 - side = b
    BY <1>4, <2>1 DEF Child
  <2>. HIDE DEF side
  <2>3. s = Child(mem, p, side)
    BY DEF Child
  <2>4. Child(mem, p, side) # NULL
    BY <1>0, <1>2, <1>4, <2>2 DEF Two
  <2>5. Child(mem, p, side) \in {NULL} \cup Slot
    BY <1>0, <1>4, <2>2, NodeIs
  <2>. QED
    BY <2>2, <2>3, <2>4, <2>5
<1>. HIDE DEF side, s
<1>8. Linked(mem, mid, p, b, NULL)
  BY <1>0, <1>4, AssignIs DEF b
<1>9. Linked(mem, m1, y, a, s)
  BY <1>0, <1>4, <1>7, AssignIs DEF y, a
<1>10. Stores(m1, m2, p, n)
  <2>1. m1 \in Memory /\ Blank \in Node
    BY <1>9, BlankIs DEF Linked
  <2>. HIDE DEF m1
  <2>. QED
    BY <1>1, <1>2, <1>4, <2>1 DEF Memory, Stores
<1>. HIDE DEF m1, m2, mid
<1>11. Moved(mem, m2, u2, y, a, s)
  <2>1. u2 \subseteq Slot /\ n \notin u2 /\ p \notin u2
    BY <1>0
  <2>. HIDE DEF u2
  <2>. QED
    BY <1>1, <1>4, <1>9, <1>10, <2>1, StoresKeep
<1>12. p # n /\ p \in u1 /\ u2 = u1 \ {p}
  BY <1>1, <1>2, <1>4
<1>13. Tree(mid, u1)
  <2>1. Rewired(mem, mid, u1, p, b)
    BY <1>0, <1>8 DEF Linked, Rewired, Kept
  <2>2. Child(mid, p, b) = Child(mem, n, 0) /\ Child(mem, n, 1 - 0) = NULL /\ Holds(used, p, b) /\ 0 \in 0..1
    BY <1>0, <1>4, <1>5, <1>8 DEF Linked, Holds
  <2>. QED
    BY <1>0, <1>1, <1>4, <2>1, <2>2, SpliceTree
<1>14. Tree(m2, u2)
  <2>1. Holds(u1, y, a)
    BY <1>4, <1>6 DEF Holds
  <2>2. Child(mid, y, a) = p /\ Child(mid, p, side) = s /\ Child(mid, p, 1 - side) = NULL
    BY <1>0, <1>4, <1>6, <1>7, <1>8 DEF Linked
  <2>3. \A z \in {Trie} \cup u2 : z \in {Trie} \cup Slot /\ z # p /\ z # n
    BY <1>0, <1>1, <1>4
  <2>4. Rewired(mid, m2, u1 \ {p}, y, a)
    <3>1. m2 \in Memory
      BY <1>11 DEF Moved
    <3>2. ASSUME NEW z \in {Trie} \cup u2, NEW c \in 0..1, ~(z = y /\ c = a)  PROVE  Child(m2, z, c) = Child(mid, z, c)
      BY <1>8, <1>11, <2>3, <3>2 DEF Moved, Linked
    <3>3. ASSUME NEW z \in u2  PROVE  SameBits(mid, m2, z)
      <4>1. SameBits(mem, m2, z) /\ SameBits(mem, mid, z)
        BY <1>8, <1>11, <2>3 DEF Moved, Linked, Kept
      <4>. QED
        BY <4>1 DEF SameBits
    <3>. QED
      BY <1>12, <3>1, <3>2, <3>3 DEF Rewired
  <2>5. Child(m2, y, a) = s
    BY <1>6, <1>11, MovedIs
  <2>. HIDE DEF u1, u2
  <2>6. Tree(m2, u1 \ {p})
    BY <1>7, <1>12, <1>13, <2>1, <2>2, <2>4, <2>5, SpliceTree
  <2>. QED
    BY <1>12, <2>6
<1>15. Two(m2, u2)
  <2>. SUFFICES ASSUME NEW z \in u2, Inner(m2, z)  PROVE  Child(m2, z, 0) # NULL /\ Child(m2, z, 1) # NULL
    BY DEF Two
  <2>1. Inner(mem, z) /\ z \in used
    BY <1>11, MovedIs
  <2>2. \A c \in 0..1 : Child(mem, z, c) # NULL
    BY <1>0, <2>1 DEF Two
  <2>. QED
    BY <1>7, <1>11, <2>2 DEF Moved
<1>16. Stored(m2, u2) = Stored(mem, used) \ {n}
  <2>1. \A z \in used : z # n /\ z # p => Inner(m2, z) = Inner(mem, z)
    BY <1>11, MovedIs
  <2>. QED
    BY <1>2, <2>1, Zenon DEF Stored
<1>17. \A z \in Stored(mem, used) \ {n} : Kept(mem, m2, z)
  <2>1. Stored(mem, used) \ {n} \subseteq u2
    BY <1>2 DEF Stored
  <2>. QED
    BY <1>11, <2>1, MovedIs
<1>18. used' = u2
  BY <1>2
<1>. QED
  BY <1>14, <1>15, <1>16, <1>17, <1>18, Zenon DEF Removed, m2, n
-----------------------------------------------------------------------------
(* The invariant is inductive *)

\* The entries are a finite set.
LEMMA StoredFinite ==
  ASSUME NEW m, NEW u, Tree(m, u)
  PROVE  IsFiniteSet(u) /\ IsFiniteSet(Stored(m, u)) /\ Cardinality(Stored(m, u)) \in Nat
<1>1. IsFiniteSet(u)
  BY Pointers, FS_Subset DEF Tree
<1>2. IsFiniteSet(Stored(m, u))
  BY <1>1, FS_Subset DEF Stored
<1>. QED
  BY <1>1, <1>2, FS_CardinalityType

\* An update that succeeds counts the entry unless it replaces one.
LEMMA WrittenCount ==
  ASSUME TrieInv, NEW key \in ValidKey, NEW w, Found(key, w), NEW new, NEW v, Written(w, new, key, v)
  PROVE  Cardinality(Stored(mem', used')) = nEntries + (IF Present(w) THEN 0 ELSE 1)
<1>. DEFINE S == Stored(mem, used)
            n == w.node
<1>0. Tree(mem, used) /\ used \subseteq Slot /\ nEntries = Cardinality(S) /\ IsFiniteSet(S) /\ Cardinality(S) \in Nat
  BY StoredFinite DEF TrieInv, Tree
<1>1. new \notin S /\ Stored(mem', used') = (S \ Gone(w)) \cup {new}
  BY <1>0 DEF Written, Stored
<1>2. CASE SamePrefix(w)
  <2>1. Gone(w) = {n} /\ n \in used
    BY <1>0, <1>2, FoundSame DEF Gone
  <2>2. IsFiniteSet(S \ {n}) /\ Cardinality(S \ {n}) = IF n \in S THEN Cardinality(S) - 1 ELSE Cardinality(S)
    BY <1>0, FS_RemoveElement
  <2>3. Cardinality((S \ {n}) \cup {new}) = Cardinality(S \ {n}) + 1
    BY <1>1, <2>2, FS_AddElement
  <2>4. Present(w) <=> n \in S
    BY <1>2, <2>1 DEF Present, Eligible, Inner, Stored
  <2>. HIDE DEF S, n
  <2>. QED
    BY <1>0, <1>1, <2>1, <2>2, <2>3, <2>4
<1>3. CASE ~SamePrefix(w)
  <2>1. ~Present(w) /\ Gone(w) = {} /\ S \ {} = S
    BY <1>3 DEF Present, Gone
  <2>2. Cardinality(S \cup {new}) = Cardinality(S) + 1
    BY <1>0, <1>1, FS_AddElement
  <2>. HIDE DEF S
  <2>. QED
    BY <1>0, <1>1, <2>1, <2>2
<1>. QED
  BY <1>2, <1>3

\* A successful update keeps the invariant.
LEMMA WrittenKeeps ==
  ASSUME TrieInv, NEW key \in ValidKey, NEW w, Found(key, w), NEW new, NEW v \in Value, Written(w, new, key, v),
         NEW flags, Verdict(w, flags) = "ok", ret' = "ok", nEntries' = nEntries + (IF Present(w) THEN 0 ELSE 1)
  PROVE  TrieInv'
<1>1. Tree(mem', used') /\ Two(mem', used')
  BY DEF Written
<1>2. Valued(mem', used')
  <2>. SUFFICES ASSUME NEW y \in used', ~Inner(mem', y)  PROVE  mem'[y].value \in Value
    BY DEF Valued
  <2>1. y \in Stored(mem', used')
    BY DEF Stored
  <2>2. CASE y = new
    BY <2>2 DEF Written, EntryOf
  <2>3. CASE y # new
    <3>1. y \in Stored(mem, used) \ Gone(w)
      BY <2>1, <2>3 DEF Written
    <3>2. Kept(mem, mem', y)
      BY <3>1 DEF Written
    <3>3. y \in used /\ ~Inner(mem, y)
      BY <3>1 DEF Stored
    <3>4. mem[y].value \in Value
      BY <3>3 DEF TrieInv, Valued
    <3>. QED
      BY <3>2, <3>4 DEF Kept
  <2>. QED
    BY <2>2, <2>3
<1>3. nEntries' = Cardinality(Stored(mem', used'))
  BY WrittenCount
<1>4. nEntries' <= MaxEntries
  <2>1. nEntries \in Nat /\ nEntries <= MaxEntries /\ MaxEntries \in Nat
    BY StoredFinite, LpmAssumption DEF TrieInv
  <2>2. ~Present(w) => nEntries # MaxEntries
    BY DEF Verdict, CheckAdd
  <2>. QED
    BY <2>1, <2>2
<1>5. ret' \in Results /\ PoolSuffices'
  BY DEF Results, PoolSuffices
<1>. QED
  BY <1>1, <1>2, <1>3, <1>4, <1>5 DEF TrieInv

\* A deletion takes one entry.
LEMMA RemovedCount ==
  ASSUME TrieInv, NEW w, w.node \in used, ~Inner(mem, w.node), Removed(w)
  PROVE  Cardinality(Stored(mem', used')) = nEntries - 1
<1>. DEFINE S == Stored(mem, used)
            n == w.node
<1>0. nEntries = Cardinality(S) /\ IsFiniteSet(S)
  BY StoredFinite DEF TrieInv
<1>1. n \in S /\ Stored(mem', used') = S \ {n}
  BY DEF Removed, Stored
<1>2. Cardinality(S \ {n}) = Cardinality(S) - 1
  BY <1>0, <1>1, FS_RemoveElement
<1>. QED
  BY <1>0, <1>1, <1>2

\* A deletion keeps the invariant.
LEMMA RemovedKeeps ==
  ASSUME TrieInv, NEW w, w.node \in used, ~Inner(mem, w.node), Removed(w), ret' = "ok", nEntries' = nEntries - 1
  PROVE  TrieInv'
<1>1. Tree(mem', used') /\ Two(mem', used')
  BY DEF Removed
<1>2. Valued(mem', used')
  <2>. SUFFICES ASSUME NEW y \in used', ~Inner(mem', y)  PROVE  mem'[y].value \in Value
    BY DEF Valued
  <2>1. y \in Stored(mem', used')
    BY DEF Stored
  <2>2. y \in Stored(mem, used) \ {w.node}
    BY <2>1 DEF Removed
  <2>3. Kept(mem, mem', y)
    BY <2>2 DEF Removed
  <2>4. y \in used /\ ~Inner(mem, y)
    BY <2>2 DEF Stored
  <2>5. mem[y].value \in Value
    BY <2>4 DEF TrieInv, Valued
  <2>. QED
    BY <2>3, <2>5 DEF Kept
<1>3. nEntries' = Cardinality(Stored(mem', used'))
  BY RemovedCount
<1>4. nEntries' <= MaxEntries
  <2>1. nEntries \in Nat /\ nEntries <= MaxEntries /\ MaxEntries \in Nat
    BY StoredFinite, LpmAssumption DEF TrieInv
  <2>. QED
    BY <2>1
<1>5. ret' \in Results /\ PoolSuffices'
  BY DEF Results, PoolSuffices
<1>. QED
  BY <1>1, <1>2, <1>3, <1>4, <1>5 DEF TrieInv

\* A call that fails changes nothing but the result.
LEMMA FailKeeps ==
  ASSUME TrieInv, NEW e, Fail(e), e \in Results, e = "ENOMEM" => 2 * nEntries >= Cardinality(Slot)
  PROVE  TrieInv'
  BY DEF TrieInv, Fail, PoolSuffices

\* With at most one slot free, at least half as many entries as slots are stored.
LEMMA NoMemRoom ==
  ASSUME TrieInv, Free = {} \/ (used # {} /\ Cardinality(Free) = 1)
  PROVE  2 * nEntries >= Cardinality(Slot)
<1>. DEFINE S == Stored(mem, used)
<1>0. Tree(mem, used) /\ Two(mem, used) /\ used \subseteq Slot /\ nEntries = Cardinality(S) /\ IsFiniteSet(Slot)
      /\ Cardinality(S) \in Nat /\ IsFiniteSet(used) /\ IsFiniteSet(Free)
  BY StoredFinite, Pointers, FS_Subset DEF TrieInv, Tree, Free
<1>1. Slot = used \cup Free /\ used \cap Free = {}
  BY <1>0 DEF Free
<1>2. Cardinality(Slot) = Cardinality(used) + Cardinality(Free)
  <2>1. Cardinality(used \cup Free) = Cardinality(used) + Cardinality(Free) - Cardinality(used \cap Free)
    BY <1>0, FS_Union
  <2>2. Cardinality(used \cap Free) = 0
    BY <1>1, FS_EmptySet
  <2>3. Cardinality(used) \in Nat /\ Cardinality(Free) \in Nat
    BY <1>0, FS_CardinalityType
  <2>. QED
    BY <1>1, <2>1, <2>2, <2>3
<1>3. Cardinality(Free) = 0 \/ (used # {} /\ Cardinality(Free) = 1)
  BY FS_EmptySet
<1>4. CASE used = {}
  <2>1. Cardinality(used) = 0
    BY <1>4, FS_EmptySet
  <2>. HIDE DEF S
  <2>. QED
    BY <1>0, <1>2, <1>3, <1>4, <2>1
<1>5. CASE used # {}
  <2>1. Cardinality(used) \in Nat /\ Cardinality(used) + 1 <= 2 * Cardinality(S)
    BY <1>0, <1>5, InnerFew
  <2>. HIDE DEF S
  <2>. QED
    BY <1>0, <1>2, <1>3, <2>1
<1>. QED
  BY <1>4, <1>5

\* trie_update_elem() keeps the invariant, however it ends.
LEMMA UpdateKeeps ==
  ASSUME TrieInv, NEW key \in ValidKey, NEW w, Found(key, w), NEW v \in Value, NEW flags \in Flags,
         Update(w, key, v, flags)
  PROVE  TrieInv'
<1>0. Tree(mem, used)
  BY DEF TrieInv
<1>1. CASE UpdateNoMem
  <2>1. Fail("ENOMEM") /\ 2 * nEntries >= Cardinality(Slot)
    BY <1>1, NoMemRoom DEF UpdateNoMem
  <2>2. "ENOMEM" \in Results
    BY DEF Results
  <2>. QED
    BY <2>1, <2>2, FailKeeps
<1>2. CASE UpdateRefused(w, flags)
  <2>. DEFINE e == Verdict(w, flags)
  <2>1. Fail(e) /\ e # "ok"
    BY <1>2 DEF UpdateRefused
  <2>2. e \in Results /\ e # "ENOMEM"
    BY DEF Verdict, CheckAdd, Results
  <2>. HIDE DEF e
  <2>. QED
    BY <2>1, <2>2, FailKeeps
<1>3. CASE UpdateForkNoMem(w, key)
  <2>1. w.node \in used
    BY <1>3 DEF UpdateForkNoMem, Forks, Found
  <2>2. Fail("ENOMEM") /\ Cardinality(Free) = 1
    BY <1>3 DEF UpdateForkNoMem
  <2>3. 2 * nEntries >= Cardinality(Slot)
    BY <2>1, <2>2, NoMemRoom
  <2>4. "ENOMEM" \in Results
    BY DEF Results
  <2>. QED
    BY <2>2, <2>3, <2>4, FailKeeps
<1>4. ASSUME NEW new \in Free, Verdict(w, flags) = "ok", ret' = "ok",
             \/ UpdateLeaf(w, new, key, v) \/ UpdateReplace(w, new, key, v) \/ UpdateAbove(w, new, key, v)
             \/ \E im_node \in Free \ {new} : UpdateFork(w, new, im_node, key, v)
      PROVE  TrieInv'
  <2>0. Written(w, new, key, v)
    BY <1>4, LeafStep, ReplaceStep, AboveStep, ForkStep
  <2>1. nEntries' = nEntries + (IF Present(w) THEN 0 ELSE 1)
    <3>1. CASE UpdateLeaf(w, new, key, v)
      BY <3>1 DEF UpdateLeaf, Present, SamePrefix
    <3>2. CASE UpdateReplace(w, new, key, v)
      <4>1. SamePrefix(w) /\ nEntries' = nEntries + (IF mem[w.node].im THEN 1 ELSE 0)
        BY <3>2 DEF UpdateReplace, ReplaceCounts
      <4>2. Present(w) <=> ~mem[w.node].im
        BY <4>1 DEF Present, Eligible
      <4>. QED
        BY <4>1, <4>2
    <3>3. CASE UpdateAbove(w, new, key, v)
      BY <3>3 DEF UpdateAbove, Present
    <3>4. CASE \E im_node \in Free \ {new} : UpdateFork(w, new, im_node, key, v)
      BY <3>4 DEF UpdateFork, Forks, Present
    <3>. QED
      BY <1>4, <3>1, <3>2, <3>3, <3>4
  <2>. QED
    BY <1>4, <2>0, <2>1, WrittenKeeps
<1>. QED
  BY <1>1, <1>2, <1>3, <1>4, Zenon DEF Update

\* trie_delete_elem() keeps the invariant, however it ends.
LEMMA DeleteKeeps ==
  ASSUME TrieInv, NEW key \in ValidKey, NEW w, Found(key, w), Delete(w, key)
  PROVE  TrieInv'
<1>0. Tree(mem, used)
  BY DEF TrieInv
<1>1. CASE DeleteMissing(w, key)
  <2>1. Fail("ENOENT")
    BY <1>1 DEF DeleteMissing
  <2>2. "ENOENT" \in Results /\ "ENOENT" # "ENOMEM"
    BY DEF Results
  <2>. QED
    BY <2>1, <2>2, FailKeeps
<1>2. CASE Doomed(w, key) /\ (DeleteToIM(w) \/ DeleteWithParent(w) \/ DeleteNode(w)) /\ nEntries' = nEntries - 1 /\ ret' = "ok"
  <2>1. Removed(w)
    BY <1>2, ToIMStep, WithParentStep, NodeStep
  <2>2. w.node \in used /\ ~Inner(mem, w.node)
    BY <1>0, <1>2, DoomedIs
  <2>. QED
    BY <1>2, <2>1, <2>2, RemovedKeeps
<1>. QED
  BY <1>1, <1>2 DEF Delete

\* lpm_trie_init() establishes the invariant.
LEMMA InvInit == Init => TrieInv
<1>. SUFFICES ASSUME Init  PROVE  TrieInv
  OBVIOUS
<1>1. mem \in Memory /\ mem[Trie] = Blank
  BY BlankIs DEF Init, Memory
<1>2. Child(mem, Trie, 0) = NULL
  BY <1>1 DEF Child, Blank
<1>3. Closed(mem, {}) /\ Owned(mem, {}) /\ Single(mem, {}) /\ Nested(mem, {}) /\ Two(mem, {}) /\ Valued(mem, {}) /\ Stored(mem, {}) = {}
  <2>1. \A x, b : Holds({}, x, b) <=> x = Trie /\ b = 0
    BY DEF Holds
  <2>. QED
    BY <1>2, <2>1 DEF Closed, Owned, Single, Nested, Two, Valued, Stored
<1>4. used = {} /\ nEntries = 0 /\ ret = "ok" /\ Cardinality({}) = 0 /\ 0 <= MaxEntries
  BY FS_EmptySet, LpmAssumption DEF Init
<1>5. Tree(mem, used)
  BY <1>1, <1>3, <1>4 DEF Tree
<1>. QED
  BY <1>3, <1>4, <1>5 DEF TrieInv, Results, PoolSuffices

\* Every call keeps the invariant.
LEMMA InvNext == TrieInv /\ [Next]_vars => TrieInv'
<1>. SUFFICES ASSUME TrieInv, [Next]_vars  PROVE  TrieInv'
  OBVIOUS
<1>1. CASE UNCHANGED vars
  BY <1>1 DEF vars, TrieInv, PoolSuffices
<1>2. CASE Invalid
  <2>1. Fail("EINVAL")
    BY <1>2 DEF Invalid
  <2>2. "EINVAL" \in Results /\ "EINVAL" # "ENOMEM"
    BY DEF Results
  <2>. QED
    BY <2>1, <2>2, FailKeeps
<1>3. ASSUME NEW key \in ValidKey, \/ \E flags \in Flags, v \in Value : Update(Walk(key), key, v, flags)
                                   \/ Delete(Walk(key), key)
      PROVE  TrieInv'
  <2>. DEFINE w == Walk(key)
  <2>1. Found(key, w)
    BY WalkIs DEF TrieInv
  <2>. HIDE DEF w
  <2>2. (\E flags \in Flags, v \in Value : Update(w, key, v, flags)) \/ Delete(w, key)
    BY <1>3 DEF w
  <2>. QED
    BY <2>1, <2>2, UpdateKeeps, DeleteKeeps
<1>. QED
  BY <1>1, <1>2, <1>3, Zenon DEF Next

\* TrieInv is an invariant of the specification.
LEMMA SpecInv == Spec => []TrieInv
  BY InvInit, InvNext, PTL DEF Spec
-----------------------------------------------------------------------------
(* The trie reaches exactly the used nodes *)

Deeper(S) == (UNION {{mem[n].child[b] : b \in 0..1} : n \in S}) \ {NULL}
Levels(f) == [k \in 0..MaxPrefixLen |-> IF k = 0 THEN {Deref(<<Trie, 0>>)} \ {NULL} ELSE Deeper(f[k - 1])]

\* The nodes below a set of nodes.
LEMMA DeeperIs ==
  ASSUME NEW S, NEW c
  PROVE  c \in Deeper(S) <=> c # NULL /\ \E n \in S, b \in 0..1 : c = Child(mem, n, b)
<1>. DEFINE U == {{mem[n].child[b] : b \in 0..1} : n \in S}
<1>1. c \in Deeper(S) <=> c # NULL /\ c \in UNION U
  BY Zenon DEF Deeper
<1>2. ASSUME c \in UNION U  PROVE  \E n \in S, b \in 0..1 : c = Child(mem, n, b)
  <2>1. PICK V \in U : c \in V
    BY <1>2, Zenon
  <2>2. PICK n \in S : V = {mem[n].child[b] : b \in 0..1}
    BY <2>1
  <2>3. PICK b \in 0..1 : c = mem[n].child[b]
    BY <2>1, <2>2, Zenon
  <2>. QED
    BY <2>3 DEF Child
<1>3. ASSUME NEW n \in S, NEW b \in 0..1, c = Child(mem, n, b)  PROVE  c \in UNION U
  <2>1. c \in {mem[n].child[a] : a \in 0..1} /\ {mem[n].child[a] : a \in 0..1} \in U
    BY <1>3 DEF Child
  <2>. QED
    BY <2>1, Zenon
<1>. QED
  BY <1>1, <1>2, <1>3, Zenon

\* Level is a fixed point of Levels.
LEMMA LevelChosen == Level = CHOOSE f : f = Levels(f)
  BY DEF Level, Levels, Deeper

\* The levels, one by one.
LEMMA LevelIs ==
  ASSUME mem \in Memory
  PROVE  Level[0] = {Child(mem, Trie, 0)} \ {NULL} /\ \A k \in 1..MaxPrefixLen : Level[k] = Deeper(Level[k - 1])
<1>. DEFINE e == MaxPrefixLen
            W == SUBSET Slot
            a == {Deref(<<Trie, 0>>)} \ {NULL}
            F == [S \in W |-> Deeper(S)]
<1>1. e \in Nat
  BY Lengths
<1>2. a \in W
  <2>1. Child(mem, Trie, 0) \in {NULL} \cup Slot
    BY NodeIs
  <2>. QED
    BY <2>1 DEF Child, Deref
<1>3. F \in [W -> W]
  <2>. SUFFICES ASSUME NEW S \in W, NEW c \in Deeper(S)  PROVE  c \in Slot
    OBVIOUS
  <2>1. PICK n \in S, b \in 0..1 : c = Child(mem, n, b) /\ c # NULL
    BY DeeperIs
  <2>2. Child(mem, n, b) \in {NULL} \cup Slot
    BY NodeIs
  <2>. QED
    BY <2>1, <2>2
<1>4. PICK g \in [0..e -> W] : g[0] = a /\ \A k \in 1..e : g[k] = F[g[k - 1]]
  <2>. HIDE DEF e, W, F, a
  <2>. QED
    BY <1>1, <1>2, <1>3, LoopHas, SMTT(30)
<1>5. \A k \in 1..e : k - 1 \in 0..e /\ g[k - 1] \in W
  BY <1>1
<1>6. \A k \in 1..e : g[k] = Deeper(g[k - 1])
  <2>. HIDE DEF W, e, a
  <2>. QED
    BY <1>4, <1>5
<1>. HIDE DEF W, F
<1>7. g = Levels(g)
  <2>1. g = [k \in 0..e |-> g[k]]
    OBVIOUS
  <2>2. \A k \in 0..e : g[k] = IF k = 0 THEN a ELSE Deeper(g[k - 1])
    <3>. TAKE k \in 0..e
    <3>1. k = 0 \/ k \in 1..e
      BY <1>1
    <3>2. 0 \notin 1..e
      BY <1>1
    <3>. HIDE DEF e, a
    <3>. QED
      BY <1>4, <1>6, <3>1, <3>2, Zenon
  <2>. QED
    BY <2>1, <2>2, Zenon DEF Levels
<1>8. Level = Levels(Level)
  BY <1>7, LevelChosen, Zenon
<1>9. \A k \in 0..e : Level[k] = IF k = 0 THEN a ELSE Deeper(Level[k - 1])
  BY <1>8, Zenon DEF Levels
<1>10. 0 \in 0..e /\ \A k \in 1..e : k \in 0..e /\ k # 0
  BY <1>1
<1>11. a = {Child(mem, Trie, 0)} \ {NULL}
  BY DEF Child, Deref
<1>. HIDE DEF a, e
<1>12. Level[0] = a /\ \A k \in 1..e : Level[k] = Deeper(Level[k - 1])
  BY <1>9, <1>10, Zenon
<1>. QED
  BY <1>11, <1>12, Zenon DEF e

\* What the root reaches is used.
LEMMA LevelUsed ==
  ASSUME Tree(mem, used), NEW k \in 0..MaxPrefixLen
  PROVE  Level[k] \subseteq used
<1>. DEFINE T == {x \in 0..MaxPrefixLen : ~(Level[x] \subseteq used)}
<1>0. mem \in Memory /\ MaxPrefixLen \in Nat
  BY Lengths DEF Tree
<1>. SUFFICES ASSUME T # {}  PROVE  FALSE
  OBVIOUS
<1>1. PICK y \in T : \A z \in T : y <= z
  <2>1. T \subseteq Nat
    BY <1>0
  <2>. HIDE DEF T
  <2>. QED
    BY <2>1, LeastNatural
<1>2. y \in 0..MaxPrefixLen /\ y \in Nat /\ ~(Level[y] \subseteq used)
  BY <1>0
<1>3. CASE y = 0
  <2>1. Child(mem, Trie, 0) \in used \cup {NULL}
    BY DEF Tree, Closed, Holds
  <2>. QED
    BY <1>0, <1>2, <1>3, <2>1, LevelIs
<1>4. CASE y # 0
  <2>1. y \in 1..MaxPrefixLen /\ y - 1 \in 0..MaxPrefixLen /\ ~(y <= y - 1)
    BY <1>0, <1>2, <1>4
  <2>2. y - 1 \notin T
    <3>. HIDE DEF T
    <3>. QED
      BY <1>1, <2>1
  <2>3. Level[y - 1] \subseteq used
    BY <2>1, <2>2
  <2>. DEFINE L == Level[y - 1]
  <2>4. Level[y] = Deeper(L)
    BY <1>0, <2>1, LevelIs
  <2>. HIDE DEF L
  <2>5. ASSUME NEW c \in Deeper(L)  PROVE  c \in used
    <3>1. PICK n \in L, b \in 0..1 : c = Child(mem, n, b) /\ c # NULL
      BY DeeperIs
    <3>2. n \in used /\ Holds(used, n, b)
      BY <2>3 DEF L, Holds
    <3>3. Child(mem, n, b) \in used \cup {NULL}
      BY <3>2 DEF Tree, Closed
    <3>. QED
      BY <3>1, <3>3
  <2>. QED
    BY <1>2, <2>4, <2>5
<1>. QED
  BY <1>3, <1>4

\* A used node is reached: its parent has a shorter prefix, so a shortest one that is not
\* would have a parent that is.
LEMMA UsedLevel ==
  ASSUME Tree(mem, used), NEW n \in used
  PROVE  \E k \in 0..PLen(mem, n) : n \in Level[k]
<1>. DEFINE Seen(x) == \E k \in 0..PLen(mem, x) : x \in Level[k]
            T == {PLen(mem, x) : x \in {y \in used : ~Seen(y)}}
<1>. SUFFICES ASSUME T # {}  PROVE  FALSE
  OBVIOUS
<1>0. mem \in Memory /\ used \subseteq Slot /\ (\A x \in used : PLen(mem, x) \in 0..MaxPrefixLen) /\ MaxPrefixLen \in Nat
  BY NodeIs, Lengths DEF Tree
<1>1. PICK l \in T : \A z \in T : l <= z
  <2>1. T \subseteq Nat
    BY <1>0
  <2>. HIDE DEF T
  <2>. QED
    BY <2>1, LeastNatural
<1>2. PICK x \in used : ~Seen(x) /\ l = PLen(mem, x)
  BY <1>1
<1>3. PICK p \in {Trie} \cup used, b \in 0..1 : Holds(used, p, b) /\ Child(mem, p, b) = x
  BY DEF Tree, Owned
<1>4. x \in Slot /\ x # NULL /\ Trie \notin used /\ PLen(mem, x) \in Nat /\ PLen(mem, x) <= MaxPrefixLen
  BY <1>0, Pointers
<1>5. CASE p = Trie
  <2>1. b = 0
    BY <1>3, <1>4, <1>5 DEF Holds
  <2>2. x \in Level[0]
    BY <1>0, <1>3, <1>4, <1>5, <2>1, LevelIs
  <2>3. 0 \in 0..PLen(mem, x)
    BY <1>4
  <2>. QED
    BY <1>2, <2>2, <2>3
<1>6. CASE p # Trie
  <2>1. p \in used
    BY <1>6
  <2>2. PLen(mem, p) < PLen(mem, x) /\ PLen(mem, p) \in Nat
    BY <1>0, <1>3, <1>4, <2>1 DEF Tree, Nested, Below
  <2>3. Seen(p)
    <3>. SUFFICES ASSUME ~Seen(p)  PROVE  FALSE
      OBVIOUS
    <3>1. PLen(mem, p) \in T
      BY <2>1
    <3>2. l <= PLen(mem, p)
      <4>. HIDE DEF T
      <4>. QED
        BY <1>1, <3>1
    <3>. QED
      BY <1>2, <1>4, <2>2, <3>2
  <2>4. PICK j \in 0..PLen(mem, p) : p \in Level[j]
    BY <2>3
  <2>5. j + 1 \in 1..MaxPrefixLen /\ j + 1 \in 0..PLen(mem, x) /\ (j + 1) - 1 = j
    BY <1>0, <1>4, <2>2
  <2>6. Level[j + 1] = Deeper(Level[j])
    BY <1>0, <2>5, LevelIs
  <2>7. x \in Deeper(Level[j])
    BY <1>3, <1>4, <2>4, DeeperIs
  <2>. QED
    BY <1>2, <2>5, <2>6, <2>7
<1>. QED
  BY <1>5, <1>6

\* The root reaches exactly the used nodes.
LEMMA ReachableIsUsed ==
  ASSUME Tree(mem, used)
  PROVE  Reachable = used /\ EntryNodes = Stored(mem, used)
<1>1. \A n \in used : PLen(mem, n) \in Nat /\ PLen(mem, n) <= MaxPrefixLen
  BY NodeIs DEF Tree
<1>2. used \subseteq Reachable
  BY <1>1, UsedLevel, Lengths DEF Reachable
<1>3. Reachable \subseteq used
  BY LevelUsed DEF Reachable
<1>. QED
  BY <1>2, <1>3 DEF EntryNodes, Stored, Inner
-----------------------------------------------------------------------------
(* Prefixes *)

\* The prefix of a node is its bits.
LEMMA PrefixIs ==
  ASSUME NEW m, NEW n
  PROVE  PrefixOf(m[n]) = [j \in 0..(PLen(m, n) - 1) |-> PBit(m, n, j)]
  BY DEF PrefixOf, PLen, PBit, extract_bit

\* The prefix of a key is its bits.
LEMMA KeyPrefixIs ==
  ASSUME NEW key
  PROVE  PrefixOf(key) = [j \in 0..(key.prefixlen - 1) |-> KBit(key, j)]
  BY DEF PrefixOf, KBit, extract_bit

\* Two intervals from zero are equal, or one within the other, as their ends are.
LEMMA Intervals ==
  ASSUME NEW a \in Nat, NEW b \in Nat
  PROVE  (0..(a - 1) \subseteq 0..(b - 1)) <=> a <= b
<1>1. ASSUME a <= b, NEW j \in 0..(a - 1)  PROVE  j \in 0..(b - 1)
  BY <1>1
<1>2. ASSUME 0..(a - 1) \subseteq 0..(b - 1), ~(a <= b)  PROVE  FALSE
  <2>1. a - 1 \in 0..(a - 1) /\ a - 1 \notin 0..(b - 1)
    BY <1>2
  <2>. QED
    BY <1>2, <2>1
<1>. QED
  BY <1>1, <1>2

\* A node's prefix covers a key's exactly when the node agrees with the key.
LEMMA CoversIs ==
  ASSUME mem \in Memory, NEW n \in Slot, NEW key \in ValidKey
  PROVE  Covers(PrefixOf(mem[n]), PrefixOf(key)) <=> Agrees(mem, n, key)
<1>. DEFINE p == PLen(mem, n)
            k == key.prefixlen
            P == PrefixOf(mem[n])
            Q == PrefixOf(key)
<1>1. p \in Nat /\ k \in Nat
  BY NodeIs, KeyIs
<1>2. P = [j \in 0..(p - 1) |-> PBit(mem, n, j)] /\ Q = [j \in 0..(k - 1) |-> KBit(key, j)]
  BY PrefixIs, KeyPrefixIs
<1>. HIDE DEF p, k, P, Q
<1>3. DOMAIN P = 0..(p - 1) /\ DOMAIN Q = 0..(k - 1)
  BY <1>2
<1>4. (DOMAIN P \subseteq DOMAIN Q) <=> p <= k
  BY <1>1, <1>3, Intervals
<1>5. ASSUME p <= k, NEW j \in 0..(p - 1)  PROVE  P[j] = PBit(mem, n, j) /\ Q[j] = KBit(key, j)
  <2>1. j \in 0..(k - 1)
    BY <1>1, <1>5
  <2>. QED
    BY <1>2, <1>5, <2>1
<1>6. Covers(P, Q) <=> (p <= k /\ \A j \in 0..(p - 1) : P[j] = Q[j])
  BY <1>3, <1>4 DEF Covers
<1>7. Covers(P, Q) <=> (p <= k /\ \A j \in 0..(p - 1) : PBit(mem, n, j) = KBit(key, j))
  BY <1>5, <1>6
<1>. QED
  BY <1>7 DEF Agrees, P, Q, p, k

\* Node and key have the same prefix when they agree and are equally long.
LEMMA PrefixSame ==
  ASSUME mem \in Memory, NEW n \in Slot, NEW key \in ValidKey
  PROVE  PrefixOf(mem[n]) = PrefixOf(key) <=> (Agrees(mem, n, key) /\ PLen(mem, n) = key.prefixlen)
<1>. DEFINE p == PLen(mem, n)
            k == key.prefixlen
            P == PrefixOf(mem[n])
            Q == PrefixOf(key)
<1>1. p \in Nat /\ k \in Nat
  BY NodeIs, KeyIs
<1>2. P = [j \in 0..(p - 1) |-> PBit(mem, n, j)] /\ Q = [j \in 0..(k - 1) |-> KBit(key, j)]
  BY PrefixIs, KeyPrefixIs
<1>3. Covers(P, Q) <=> Agrees(mem, n, key)
  BY CoversIs
<1>. HIDE DEF p, k, P, Q
<1>4. ASSUME P = Q  PROVE  Covers(P, Q) /\ p = k
  <2>1. 0..(p - 1) = 0..(k - 1)
    BY <1>2, <1>4
  <2>2. p <= k /\ k <= p
    BY <1>1, <2>1, Intervals
  <2>. QED
    BY <1>1, <1>4, <2>2 DEF Covers
<1>5. ASSUME Agrees(mem, n, key), p = k  PROVE  P = Q
  <2>1. \A j \in 0..(p - 1) : PBit(mem, n, j) = KBit(key, j)
    BY <1>5 DEF Agrees, p
  <2>. QED
    BY <1>2, <1>5, <2>1
<1>. QED
  BY <1>3, <1>4, <1>5 DEF P, Q, p, k
-----------------------------------------------------------------------------
(* Soundness *)

\* The shape that TrieShape states.
LEMMA ShapeHolds ==
  ASSUME Tree(mem, used)
  PROVE  TrieShape
<1>. SUFFICES ASSUME NEW n \in used, NEW b \in Children(n)
              PROVE  LET c == mem[mem[n].child[b]]
                     IN  /\ c.prefixlen > mem[n].prefixlen
                         /\ Covers(PrefixOf(mem[n]), PrefixOf(c))
                         /\ PrefixOf(c)[mem[n].prefixlen] = b
  BY ReachableIsUsed DEF TrieShape
<1>. DEFINE z == Child(mem, n, b)
            p == PLen(mem, n)
            q == PLen(mem, z)
            P == PrefixOf(mem[n])
            Q == PrefixOf(mem[z])
<1>0. b \in 0..1 /\ z # NULL /\ Holds(used, n, b)
  BY DEF Children, Child, Holds
<1>1. z \in used /\ Below(mem, n, b, z) /\ z \in Slot /\ n \in Slot /\ mem \in Memory
  BY <1>0 DEF Tree, Closed, Nested
<1>2. p \in Nat /\ q \in Nat /\ p < q /\ p \in 0..(q - 1) /\ p <= q
  <2>1. p \in Nat /\ q \in Nat /\ p < q
    BY <1>1, NodeIs DEF Below
  <2>. QED
    BY <2>1
<1>3. P = [j \in 0..(p - 1) |-> PBit(mem, n, j)] /\ Q = [j \in 0..(q - 1) |-> PBit(mem, z, j)]
  BY PrefixIs
<1>4. (\A j \in 0..(p - 1) : PBit(mem, z, j) = PBit(mem, n, j)) /\ PBit(mem, z, p) = b
  BY <1>1 DEF Below
<1>. HIDE DEF p, q, P, Q, z
<1>5. 0..(p - 1) \subseteq 0..(q - 1)
  BY <1>2, Intervals
<1>6. Covers(P, Q) /\ Q[p] = b
  BY <1>2, <1>3, <1>4, <1>5 DEF Covers
<1>7. z = mem[n].child[b] /\ mem[z].prefixlen = q /\ mem[n].prefixlen = p
  BY DEF z, p, q, PLen, Child
<1>8. q > p
  BY <1>2
<1>. QED
  BY <1>6, <1>7, <1>8 DEF P, Q

\* The walk finds the key's entry exactly when it is stored.
LEMMA WalkFinds ==
  ASSUME Tree(mem, used)
  PROVE  WalkFindsEntry
<1>. SUFFICES ASSUME NEW key \in ValidKey
              PROVE  Present(Walk(key)) <=> \E n \in Stored(mem, used) : PrefixOf(mem[n]) = PrefixOf(key)
  BY ReachableIsUsed DEF WalkFindsEntry
<1>. DEFINE w == Walk(key)
<1>0. Found(key, w) /\ mem \in Memory /\ used \subseteq Slot
  BY WalkIs DEF Tree
<1>. HIDE DEF w
<1>1. ASSUME Present(w)  PROVE  \E n \in Stored(mem, used) : PrefixOf(mem[n]) = PrefixOf(key)
  <2>. DEFINE n == w.node
  <2>1. n \in used /\ n \in Slot /\ Agrees(mem, n, key) /\ PLen(mem, n) = key.prefixlen /\ ~Inner(mem, n)
    BY <1>0, <1>1, FoundSame DEF Present, Eligible, Inner
  <2>. HIDE DEF n
  <2>. QED
    BY <1>0, <2>1, PrefixSame DEF Stored
<1>2. ASSUME NEW n \in Stored(mem, used), PrefixOf(mem[n]) = PrefixOf(key)  PROVE  Present(w)
  <2>1. n \in used /\ n \in Slot /\ ~Inner(mem, n)
    BY <1>0 DEF Stored
  <2>2. Agrees(mem, n, key) /\ PLen(mem, n) = key.prefixlen
    BY <1>0, <1>2, <2>1, PrefixSame
  <2>3. w.node = n
    BY <1>0, <2>1, <2>2 DEF Found
  <2>4. SamePrefix(w)
    BY <1>0, <2>1, <2>2, <2>3, FoundSame
  <2>. QED
    BY <2>1, <2>3, <2>4 DEF Present, Eligible, Inner
<1>. QED
  BY <1>1, <1>2 DEF w

\* The invariant implies all parts of TrieSound.
LEMMA InvSound == TrieInv => TrieSound
<1>. SUFFICES ASSUME TrieInv  PROVE  TrieSound
  OBVIOUS
<1>0. Tree(mem, used) /\ Two(mem, used) /\ mem \in Memory /\ used \subseteq Slot
  BY DEF TrieInv, Tree
<1>1. TypeOK
  <2>1. nEntries \in Nat /\ nEntries <= MaxEntries /\ MaxEntries \in Nat
    BY <1>0, StoredFinite, LpmAssumption DEF TrieInv
  <2>2. nEntries \in 0..MaxEntries
    BY <2>1
  <2>. QED
    BY <1>0, <2>2 DEF TypeOK, TrieInv, Memory, Node
<1>2. PoolExact
  BY <1>0, ReachableIsUsed DEF PoolExact
<1>3. CountExact
  <2>1. nEntries = Cardinality(EntryNodes)
    BY <1>0, ReachableIsUsed DEF TrieInv
  <2>2. ASSUME NEW n \in used, mem[n].im  PROVE  Children(n) = {0, 1}
    <3>1. mem[n].child[0] # NULL /\ mem[n].child[1] # NULL
      BY <1>0, <2>2 DEF Two, Inner, Child
    <3>. QED
      BY <3>1 DEF Children
  <2>. QED
    BY <1>0, <2>1, <2>2, ReachableIsUsed DEF CountExact
<1>4. TrieShape /\ WalkFindsEntry /\ PoolSuffices
  BY <1>0, ShapeHolds, WalkFinds DEF TrieInv
<1>. QED
  BY <1>1, <1>2, <1>3, <1>4 DEF TrieSound

\* After every sequence of updates and deletes of lpm_trie.c, the ones that fail included:
\* the slots in use are the nodes the root reaches, n_entries counts the entries, every
\* intermediate node has two children, every child extends its parent on its side, the walk
\* of trie_update_elem() and trie_delete_elem() finds an entry exactly when it is stored, and
\* the pool runs out only when the entries fill half of it.
THEOREM TrieIsSound == Spec => []TrieSound
  BY SpecInv, InvSound, PTL
-----------------------------------------------------------------------------
(* The loop of lookup *)

LookFirst == [node |-> Deref(<<Trie, 0>>), found |-> NULL]
LookTurn(key, w) ==
  LET m == longest_prefix_match(w.node, key)
  IN  IF w.node = NULL THEN w
      ELSE IF m = MaxPrefixLen THEN [node |-> NULL, found |-> w.node]
      ELSE IF m < mem[w.node].prefixlen THEN [node |-> NULL, found |-> w.found]
      ELSE [node |-> mem[w.node].child[extract_bit(key.data, mem[w.node].prefixlen)],
            found |-> IF Eligible(w.node) THEN w.node ELSE w.found]
Looks(key, f) == [k \in 0..(MaxPrefixLen + 1) |-> IF k = 0 THEN LookFirst ELSE LookTurn(key, f[k - 1])]

\* Lookup(key) is the last turn of a loop over the node to visit and the entry found.
LEMMA LookupIsLoop ==
  ASSUME NEW key \in ValidKey
  PROVE  Lookup(key) = (CHOOSE f : f = Looks(key, f))[MaxPrefixLen + 1].found
<1>1. ~(key.prefixlen > MaxPrefixLen)
  BY KeyIs, Lengths
<1>2. Lookup(key) = IF key.prefixlen > MaxPrefixLen THEN NULL ELSE (CHOOSE f : f = Looks(key, f))[MaxPrefixLen + 1].found
  BY DEF Lookup, Looks, LookFirst, LookTurn
<1>. QED
  BY <1>1, <1>2, Zenon

\* In every turn the entry found covers the key, and the node to visit is longer.
Looking(key, w) ==
  /\ w \in [node : {NULL} \cup Slot, found : {NULL} \cup Slot]
  /\ w.node \in used \cup {NULL}
  /\ w.found # NULL => w.found \in Stored(mem, used) /\ Agrees(mem, w.found, key)
  /\ w.found # NULL /\ w.node # NULL => PLen(mem, w.found) < PLen(mem, w.node)
LookStates(key) == {w \in [node : {NULL} \cup Slot, found : {NULL} \cup Slot] : Looking(key, w)}

\* What a turn does at a node: it stops at one that differs from the key, and otherwise
\* takes it if it is an entry and goes down.
LEMMA LookTurnIs ==
  ASSUME TrieInv, NEW key \in ValidKey, NEW w, Looking(key, w), w.node # NULL
  PROVE  /\ Looking(key, LookTurn(key, w))
         /\ LookTurn(key, w).found = w.node \/ LookTurn(key, w).found = w.found
         /\ Agrees(mem, w.node, key) =>
              /\ ~Inner(mem, w.node) => LookTurn(key, w).found = w.node
              /\ PLen(mem, w.node) < key.prefixlen =>
                   LookTurn(key, w).node = Child(mem, w.node, KBit(key, PLen(mem, w.node)))
<1>. DEFINE n == w.node
            m == longest_prefix_match(n, key)
            t == LookTurn(key, w)
            b == KBit(key, PLen(mem, n))
<1>0. Tree(mem, used) /\ Two(mem, used) /\ mem \in Memory /\ used \subseteq Slot /\ NULL \notin Slot
  BY Pointers DEF TrieInv, Tree
<1>1. n \in used /\ n \in Slot /\ n # NULL /\ w.found \in {NULL} \cup Slot
  BY <1>0 DEF Looking
<1>2. Match(n, key, m)
  <2>. HIDE DEF n
  <2>. QED
    BY <1>0, <1>1, MatchIs
<1>3. Agrees(mem, n, key) => m = PLen(mem, n)
  <2>. HIDE DEF n
  <2>. QED
    BY <1>0, <1>1, AgreesMatch
<1>4. t = IF m = MaxPrefixLen THEN [node |-> NULL, found |-> n]
          ELSE IF m < PLen(mem, n) THEN [node |-> NULL, found |-> w.found]
          ELSE [node |-> Child(mem, n, b), found |-> IF Inner(mem, n) THEN w.found ELSE n]
  BY <1>1 DEF LookTurn, PLen, Child, KBit, Eligible, Inner
<1>5. /\ m \in Nat /\ PLen(mem, n) \in Nat /\ PLen(mem, n) <= MaxPrefixLen /\ MaxPrefixLen \in Nat
      /\ key.prefixlen \in Nat /\ key.prefixlen <= MaxPrefixLen /\ m <= PLen(mem, n) /\ m <= key.prefixlen
  BY <1>0, <1>1, <1>2, NodeIs, KeyIs, Lengths DEF Match
<1>. DEFINE f == w.found
<1>6. f # NULL => f \in Stored(mem, used) /\ Agrees(mem, f, key) /\ PLen(mem, f) < PLen(mem, n)
  BY <1>1 DEF Looking
<1>. HIDE DEF n, m, t, f
<1>7. CASE m = MaxPrefixLen
  <2>1. t = [node |-> NULL, found |-> n]
    BY <1>4, <1>7
  <2>2. t.node = NULL /\ t.found = n /\ t \in [node : {NULL} \cup Slot, found : {NULL} \cup Slot]
    BY <1>1, <2>1
  <2>3. m = PLen(mem, n) /\ PLen(mem, n) = MaxPrefixLen
    BY <1>5, <1>7
  <2>4. Agrees(mem, n, key) /\ ~(PLen(mem, n) < key.prefixlen)
    BY <1>2, <1>5, <2>3 DEF Match, Agrees
  <2>5. ~Inner(mem, n)
    <3>. SUFFICES ASSUME Inner(mem, n)  PROVE  FALSE
      OBVIOUS
    <3>. DEFINE c == Child(mem, n, 0)
    <3>1. c # NULL /\ Holds(used, n, 0)
      BY <1>0, <1>1 DEF Two, Holds
    <3>2. c \in used /\ PLen(mem, n) < PLen(mem, c)
      BY <1>0, <1>1, <3>1 DEF Tree, Closed, Nested, Below
    <3>3. PLen(mem, c) \in Nat /\ PLen(mem, c) <= MaxPrefixLen
      BY <1>0, <3>2, NodeIs
    <3>. HIDE DEF c
    <3>. QED
      BY <1>5, <2>3, <3>2, <3>3
  <2>6. Looking(key, t)
    BY <1>1, <2>2, <2>4, <2>5 DEF Looking, Stored
  <2>. QED
    BY <2>2, <2>4, <2>6 DEF n, t
<1>8. CASE m # MaxPrefixLen /\ m < PLen(mem, n)
  <2>1. t = [node |-> NULL, found |-> f]
    BY <1>4, <1>8 DEF f
  <2>2. t.node = NULL /\ t.found = f /\ t \in [node : {NULL} \cup Slot, found : {NULL} \cup Slot]
    BY <1>1, <2>1 DEF f
  <2>3. ~Agrees(mem, n, key)
    BY <1>3, <1>5, <1>8
  <2>4. Looking(key, t)
    BY <1>6, <2>2 DEF Looking
  <2>. QED
    BY <2>2, <2>3, <2>4 DEF n, t, f
<1>9. CASE m # MaxPrefixLen /\ ~(m < PLen(mem, n))
  <2>1. t = [node |-> Child(mem, n, b), found |-> IF Inner(mem, n) THEN f ELSE n]
    BY <1>4, <1>9 DEF f
  <2>2. m = PLen(mem, n) /\ PLen(mem, n) \in 0..(MaxPrefixLen - 1)
    BY <1>5, <1>9
  <2>3. b \in 0..1 /\ Agrees(mem, n, key)
    BY <1>2, <1>5, <2>2, KeyIs DEF Match, Agrees
  <2>. HIDE DEF b
  <2>4. Child(mem, n, b) \in used \cup {NULL} /\ (Child(mem, n, b) # NULL => PLen(mem, n) < PLen(mem, Child(mem, n, b)))
    BY <1>0, <1>1, <2>3 DEF Tree, Closed, Nested, Below, Holds
  <2>. DEFINE c == Child(mem, n, b)
              g == IF Inner(mem, n) THEN f ELSE n
  <2>5. c \in {NULL} \cup Slot /\ g \in {NULL} \cup Slot
    BY <1>0, <1>1, <2>4 DEF f
  <2>. HIDE DEF c, g
  <2>6. t.node = c /\ t.found = g /\ t \in [node : {NULL} \cup Slot, found : {NULL} \cup Slot]
    BY <2>1, <2>5 DEF c, g
  <2>7. g # NULL => g \in Stored(mem, used) /\ Agrees(mem, g, key)
    BY <1>1, <1>6, <2>3 DEF g, Stored
  <2>8. ASSUME g # NULL, c # NULL  PROVE  PLen(mem, g) < PLen(mem, c)
    <3>1. PLen(mem, n) < PLen(mem, c) /\ c \in Slot
      BY <1>0, <2>4, <2>8 DEF c
    <3>2. g = n \/ (PLen(mem, g) < PLen(mem, n) /\ g \in Slot)
      BY <1>0, <1>6, <2>8 DEF g, Stored
    <3>3. PLen(mem, c) \in Nat /\ (g \in Slot => PLen(mem, g) \in Nat)
      BY <1>0, <3>1, NodeIs
    <3>. QED
      BY <1>5, <3>1, <3>2, <3>3
  <2>9. Looking(key, t)
    <3>1. c \in used \cup {NULL}
      BY <2>4 DEF c
    <3>. QED
      BY <2>6, <2>7, <2>8, <3>1 DEF Looking
  <2>10. (g = n \/ g = f) /\ (~Inner(mem, n) => g = n)
    BY DEF g
  <2>. QED
    BY <2>6, <2>9, <2>10 DEF n, t, f, c, b
<1>. QED
  BY <1>7, <1>8, <1>9

\* A turn of a lookup keeps the invariant of the loop.
LEMMA LookTurnKeeps ==
  ASSUME TrieInv, NEW key \in ValidKey, NEW w \in LookStates(key)
  PROVE  LookTurn(key, w) \in LookStates(key)
<1>1. Looking(key, w)
  BY DEF LookStates
<1>2. CASE w.node = NULL
  BY <1>2 DEF LookTurn
<1>3. CASE w.node # NULL
  <2>1. Looking(key, LookTurn(key, w))
    BY <1>1, <1>3, LookTurnIs
  <2>. QED
    BY <2>1, Zenon DEF LookStates, Looking
<1>. QED
  BY <1>2, <1>3

\* A lookup begins at the root with nothing found.
LEMMA LookFirstIs ==
  ASSUME TrieInv, NEW key \in ValidKey
  PROVE  LookFirst \in LookStates(key) /\ LookFirst.node = Child(mem, Trie, 0)
<1>. DEFINE n == Child(mem, Trie, 0)
<1>1. n \in used \cup {NULL} /\ n \in {NULL} \cup Slot
  BY DEF TrieInv, Tree, Closed, Holds
<1>2. LookFirst = [node |-> n, found |-> NULL]
  BY DEF LookFirst, Deref, Child
<1>. HIDE DEF n
<1>3. LookFirst.node = n /\ LookFirst.found = NULL /\ LookFirst \in [node : {NULL} \cup Slot, found : {NULL} \cup Slot]
  BY <1>1, <1>2
<1>. QED
  BY <1>1, <1>3 DEF LookStates, Looking, n

\* The turns of a lookup.
LookRun(key, g) ==
  /\ \A k \in 0..(MaxPrefixLen + 1) : g[k] \in LookStates(key)
  /\ g[0] = LookFirst /\ \A k \in 1..(MaxPrefixLen + 1) : g[k] = LookTurn(key, g[k - 1])

\* The loop has a run, whose last turn is what Lookup(key) returns.
LEMMA LookupRuns ==
  ASSUME TrieInv, NEW key \in ValidKey
  PROVE  \E g : LookRun(key, g) /\ Lookup(key) = g[MaxPrefixLen + 1].found
<1>. DEFINE W == LookStates(key)
            e == MaxPrefixLen + 1
            F == [w \in W |-> LookTurn(key, w)]
            a == LookFirst
            h == CHOOSE f : f = Looks(key, f)
<1>1. e \in Nat
  BY Lengths
<1>2. a \in W /\ F \in [W -> W]
  BY LookFirstIs, LookTurnKeeps
<1>3. PICK g \in [0..e -> W] : g[0] = a /\ \A k \in 1..e : g[k] = F[g[k - 1]]
  <2>. HIDE DEF e, W, F, a
  <2>. QED
    BY <1>1, <1>2, LoopHas, SMTT(30)
<1>4. \A k \in 1..e : k - 1 \in 0..e /\ g[k - 1] \in W
  BY <1>1
<1>5. \A k \in 1..e : g[k] = LookTurn(key, g[k - 1])
  <2>. HIDE DEF W, e, a
  <2>. QED
    BY <1>3, <1>4
<1>. HIDE DEF W, F
<1>6. g = Looks(key, g)
  <2>1. g = [k \in 0..e |-> g[k]]
    OBVIOUS
  <2>2. \A k \in 0..e : g[k] = IF k = 0 THEN a ELSE LookTurn(key, g[k - 1])
    <3>. TAKE k \in 0..e
    <3>1. k = 0 \/ k \in 1..e
      BY <1>1
    <3>2. 0 \notin 1..e
      BY <1>1
    <3>. HIDE DEF e, a
    <3>. QED
      BY <1>3, <1>5, <3>1, <3>2, Zenon
  <2>. QED
    BY <2>1, <2>2, Zenon DEF Looks
<1>7. h = Looks(key, h)
  BY <1>6, Zenon
<1>. HIDE DEF h
<1>8. \A k \in 0..e : h[k] = IF k = 0 THEN a ELSE LookTurn(key, h[k - 1])
  BY <1>7, Zenon DEF Looks
<1>9. 0 \in 0..e /\ \A k \in 1..e : k \in 0..e /\ k # 0
  BY <1>1
<1>. HIDE DEF a, e
<1>10. h[0] = a /\ \A k \in 1..e : h[k] = LookTurn(key, h[k - 1])
  BY <1>8, <1>9, Zenon
<1>11. \A k \in 0..e : h[k] \in W
  <2>. DEFINE T == {k \in 0..e : h[k] \notin W}
  <2>. SUFFICES ASSUME T # {}  PROVE  FALSE
    OBVIOUS
  <2>1. PICK k \in T : \A y \in T : k <= y
    <3>1. T \subseteq Nat
      BY <1>1
    <3>. HIDE DEF T
    <3>. QED
      BY <3>1, LeastNatural
  <2>2. k \in 0..e /\ k \in Nat /\ h[k] \notin W
    BY <1>1
  <2>3. k # 0
    BY <1>2, <1>10, <2>2
  <2>4. k \in 1..e /\ k - 1 \in 0..e /\ ~(k <= k - 1)
    BY <1>1, <2>2, <2>3
  <2>5. k - 1 \notin T
    <3>. HIDE DEF T
    <3>. QED
      BY <2>1, <2>4
  <2>6. h[k - 1] \in W
    BY <2>4, <2>5
  <2>7. h[k] = LookTurn(key, h[k - 1])
    BY <1>10, <2>4
  <2>. QED
    BY <2>2, <2>6, <2>7, LookTurnKeeps DEF W
<1>12. LookRun(key, h)
  BY <1>10, <1>11 DEF LookRun, W, e, a
<1>. QED
  BY <1>12, LookupIsLoop DEF h, e

\* Every node that agrees with the key is visited.
LEMMA AllLooked ==
  ASSUME TrieInv, NEW key \in ValidKey, NEW g, LookRun(key, g), NEW n \in used, Agrees(mem, n, key)
  PROVE  \E j \in 0..PLen(mem, n) : g[j].node = n
<1>. DEFINE Seen(x) == \E j \in 0..PLen(mem, x) : g[j].node = x
            T == {PLen(mem, x) : x \in {y \in used : Agrees(mem, y, key) /\ ~Seen(y)}}
<1>. SUFFICES ASSUME T # {}  PROVE  FALSE
  OBVIOUS
<1>0. Tree(mem, used) /\ mem \in Memory /\ used \subseteq Slot /\ \A x \in used : PLen(mem, x) \in 0..MaxPrefixLen
  BY NodeIs DEF TrieInv, Tree
<1>1. PICK l \in T : \A z \in T : l <= z
  <2>1. T \subseteq Nat
    BY <1>0, Lengths
  <2>. HIDE DEF T
  <2>. QED
    BY <2>1, LeastNatural
<1>2. PICK x \in used : Agrees(mem, x, key) /\ ~Seen(x) /\ l = PLen(mem, x)
  BY <1>1
<1>3. PICK p \in {Trie} \cup used, b \in 0..1 : Holds(used, p, b) /\ Child(mem, p, b) = x
  BY <1>0 DEF Tree, Owned
<1>4. x \in Slot /\ x # NULL /\ Trie \notin used /\ PLen(mem, x) \in Nat /\ MaxPrefixLen \in Nat
  BY <1>0, Pointers, Lengths
<1>5. CASE p = Trie
  <2>1. b = 0
    BY <1>3, <1>4, <1>5 DEF Holds
  <2>2. g[0].node = Child(mem, Trie, 0)
    BY LookFirstIs DEF LookRun
  <2>3. 0 \in 0..PLen(mem, x)
    BY <1>4
  <2>. QED
    BY <1>2, <1>3, <1>5, <2>1, <2>2, <2>3
<1>6. CASE p # Trie
  <2>1. p \in used /\ p \in Slot
    BY <1>0, <1>6
  <2>2. Below(mem, p, b, x)
    BY <1>0, <1>3, <1>4, <2>1 DEF Tree, Nested
  <2>3. Agrees(mem, p, key) /\ KBit(key, PLen(mem, p)) = b /\ PLen(mem, p) < PLen(mem, x) /\ PLen(mem, p) < key.prefixlen
    BY <1>0, <1>2, <2>1, <2>2, <1>4, UpAgrees
  <2>4. PLen(mem, p) \in Nat /\ PLen(mem, x) <= MaxPrefixLen
    BY <1>0, <1>4, <2>1
  <2>5. Seen(p)
    <3>. SUFFICES ASSUME ~Seen(p)  PROVE  FALSE
      OBVIOUS
    <3>1. PLen(mem, p) \in T
      BY <2>1, <2>3
    <3>2. l <= PLen(mem, p)
      <4>. HIDE DEF T
      <4>. QED
        BY <1>1, <3>1
    <3>. QED
      BY <1>2, <1>4, <2>3, <2>4, <3>2
  <2>6. PICK j \in 0..PLen(mem, p) : g[j].node = p
    BY <2>5
  <2>7. j \in 0..(MaxPrefixLen + 1) /\ j + 1 \in 1..(MaxPrefixLen + 1) /\ j + 1 \in 0..PLen(mem, x) /\ (j + 1) - 1 = j
    BY <1>4, <2>3, <2>4
  <2>8. g[j] \in LookStates(key) /\ g[j + 1] = LookTurn(key, g[j])
    BY <2>7 DEF LookRun
  <2>9. Looking(key, g[j]) /\ g[j].node # NULL
    BY <2>1, <2>6, <2>8, Pointers DEF LookStates
  <2>10. LookTurn(key, g[j]).node = Child(mem, p, KBit(key, PLen(mem, p)))
    BY <2>3, <2>6, <2>9, LookTurnIs
  <2>12. g[j + 1].node = x
    BY <1>3, <2>3, <2>8, <2>10
  <2>. QED
    BY <1>2, <2>7, <2>12
<1>. QED
  BY <1>5, <1>6

\* From the turn after an entry's on, the entry found is at least as long.
LEMMA LookKeepsLonger ==
  ASSUME TrieInv, NEW key \in ValidKey, NEW g, LookRun(key, g), NEW n \in Stored(mem, used), Agrees(mem, n, key)
  PROVE  g[MaxPrefixLen + 1].found # NULL /\ PLen(mem, n) <= PLen(mem, g[MaxPrefixLen + 1].found)
<1>. DEFINE e == MaxPrefixLen + 1
            Good(k) == g[k].found # NULL /\ PLen(mem, n) <= PLen(mem, g[k].found)
<1>0. n \in used /\ n \in Slot /\ ~Inner(mem, n) /\ mem \in Memory /\ used \subseteq Slot /\ n # NULL
  BY Pointers DEF Stored, TrieInv, Tree
<1>1. PLen(mem, n) \in Nat /\ PLen(mem, n) <= MaxPrefixLen /\ MaxPrefixLen \in Nat /\ e \in Nat
  BY <1>0, NodeIs, Lengths
<1>2. PICK j \in 0..PLen(mem, n) : g[j].node = n
  BY <1>0, AllLooked
<1>3. j \in 0..e /\ j + 1 \in 1..e /\ j + 1 \in 0..e /\ (j + 1) - 1 = j
  BY <1>1
<1>4. \A k \in 0..e : Looking(key, g[k])
  BY DEF LookRun, LookStates
<1>5. g[j + 1].found = n
  <2>1. g[j + 1] = LookTurn(key, g[j])
    BY <1>3 DEF LookRun
  <2>. QED
    BY <1>0, <1>2, <1>3, <1>4, <2>1, LookTurnIs
<1>. DEFINE T == {k \in 0..e : k >= j + 1 /\ ~Good(k)}
<1>. SUFFICES ASSUME T # {}  PROVE  FALSE
  <2>1. e \in 0..e /\ e >= j + 1
    BY <1>1
  <2>. QED
    BY <2>1
<1>6. PICK k \in T : \A y \in T : k <= y
  <2>1. T \subseteq Nat
    BY <1>1
  <2>. HIDE DEF T
  <2>. QED
    BY <2>1, LeastNatural
<1>7. k \in 0..e /\ k \in Nat /\ k >= j + 1 /\ ~Good(k)
  BY <1>1
<1>8. k # j + 1
  <2>1. PLen(mem, n) <= PLen(mem, n)
    BY <1>1
  <2>. QED
    BY <1>0, <1>5, <1>7, <2>1
<1>9. k \in 1..e /\ k - 1 \in 0..e /\ k - 1 >= j + 1 /\ ~(k <= k - 1)
  BY <1>1, <1>3, <1>7, <1>8
<1>10. k - 1 \notin T
  <2>. HIDE DEF T
  <2>. QED
    BY <1>6, <1>9
<1>. DEFINE w == g[k - 1]
<1>11. w.found # NULL /\ PLen(mem, n) <= PLen(mem, w.found) /\ Looking(key, w) /\ g[k] = LookTurn(key, w)
  BY <1>4, <1>9, <1>10 DEF LookRun
<1>. HIDE DEF w
<1>12. CASE w.node = NULL
  <2>1. g[k] = w
    BY <1>11, <1>12 DEF LookTurn
  <2>. QED
    BY <1>7, <1>11, <2>1
<1>13. CASE w.node # NULL
  <2>1. g[k].found = w.node \/ g[k].found = w.found
    BY <1>11, <1>13, LookTurnIs
  <2>2. PLen(mem, w.found) < PLen(mem, w.node) /\ w.node \in Slot /\ w.found \in Slot
    BY <1>0, <1>11, <1>13 DEF Looking, Stored
  <2>3. PLen(mem, w.found) \in Nat /\ PLen(mem, w.node) \in Nat
    BY <1>0, <2>2, NodeIs
  <2>4. PLen(mem, n) <= PLen(mem, w.node)
    BY <1>1, <1>11, <2>2, <2>3
  <2>. QED
    BY <1>7, <1>11, <1>13, <2>1, <2>4
<1>. QED
  BY <1>12, <1>13

\* The invariant implies that lookups return the longest stored prefix.
LEMMA InvLongest == TrieInv => LookupIsLongest
<1>. SUFFICES ASSUME TrieInv, NEW key \in ValidKey
              PROVE  LET hits == {n \in EntryNodes : Covers(PrefixOf(mem[n]), PrefixOf(key))}
                     IN  IF hits = {} THEN Lookup(key) = NULL
                         ELSE /\ Lookup(key) \in hits
                              /\ \A n \in hits : mem[n].prefixlen <= mem[Lookup(key)].prefixlen
  BY DEF LookupIsLongest
<1>. DEFINE hits == {n \in EntryNodes : Covers(PrefixOf(mem[n]), PrefixOf(key))}
            found == Lookup(key)
<1>0. Tree(mem, used) /\ mem \in Memory /\ used \subseteq Slot /\ MaxPrefixLen + 1 \in 0..(MaxPrefixLen + 1)
  BY Lengths DEF TrieInv, Tree
<1>1. \A n : n \in hits <=> n \in Stored(mem, used) /\ Agrees(mem, n, key)
  <2>1. EntryNodes = Stored(mem, used)
    BY <1>0, ReachableIsUsed
  <2>2. \A n \in Stored(mem, used) : Covers(PrefixOf(mem[n]), PrefixOf(key)) <=> Agrees(mem, n, key)
    BY <1>0, CoversIs DEF Stored
  <2>. QED
    BY <2>1, <2>2
<1>2. PICK g : LookRun(key, g) /\ found = g[MaxPrefixLen + 1].found
  BY LookupRuns
<1>3. found # NULL => found \in hits
  BY <1>0, <1>1, <1>2 DEF LookRun, LookStates, Looking
<1>4. \A n \in hits : found # NULL /\ PLen(mem, n) <= PLen(mem, found)
  BY <1>1, <1>2, LookKeepsLonger
<1>. HIDE DEF hits, found
<1>5. IF hits = {} THEN found = NULL ELSE found \in hits /\ \A n \in hits : mem[n].prefixlen <= mem[found].prefixlen
  BY <1>3, <1>4 DEF PLen
<1>. QED
  BY <1>5 DEF hits, found

\* trie_lookup_elem() returns the entry of the longest stored prefix of the key, and NULL if
\* there is none, for every key and whatever the bits beyond the prefixes are.
THEOREM LookupFindsLongest == Spec => []LookupIsLongest
  BY SpecInv, InvLongest, PTL
-----------------------------------------------------------------------------
(* The trie implements the map *)

Pfx(m, n) == PrefixOf(m[n])

\* The abstract map counts with the same Cardinality.
LEMMA MapCardinality == \A S : Map!Cardinality(S) = Cardinality(S)
  BY DEF Map!Cardinality, Cardinality

\* A node seen as the key that has its prefix.
LEMMA NodeKey ==
  ASSUME mem \in Memory, NEW n \in Slot
  PROVE  \E key \in ValidKey : PrefixOf(key) = Pfx(mem, n)
<1>. DEFINE key == [prefixlen |-> PLen(mem, n), data |-> mem[n].data]
<1>1. mem[n].data \in Data /\ PLen(mem, n) \in 0..(MaxPrefixLen + 1) /\ PLen(mem, n) <= MaxPrefixLen
  BY NodeIs, Lengths DEF Memory, Node
<1>2. key \in ValidKey
  BY <1>1 DEF ValidKey, Key
<1>3. PrefixOf(key) = [j \in 0..(PLen(mem, n) - 1) |-> PBit(mem, n, j)]
  BY DEF PrefixOf, PBit, extract_bit
<1>4. PrefixOf(key) = Pfx(mem, n)
  BY <1>3, PrefixIs DEF Pfx
<1>. QED
  BY <1>2, <1>4

\* The map that the nodes of the trie are.
MapView ==
  /\ Entries = [p \in Prefixes |-> Entries[p]]
  /\ \A n, k \in used : Pfx(mem, n) = Pfx(mem, k) => n = k
  /\ \A n \in Stored(mem, used) : Pfx(mem, n) \in Prefixes /\ Entries[Pfx(mem, n)] = mem[n].value
  /\ \A p \in Prefixes : Entries[p] # None => \E n \in Stored(mem, used) : Pfx(mem, n) = p
  /\ \A n \in Stored(mem, used) : mem[n].value \in Value /\ mem[n].value # None

\* The invariant implies that view.
LEMMA InvView == TrieInv => MapView
<1>. SUFFICES ASSUME TrieInv  PROVE  MapView
  OBVIOUS
<1>. DEFINE S == Stored(mem, used)
            V(p) == IF \E n \in S : Pfx(mem, n) = p THEN mem[CHOOSE n \in S : Pfx(mem, n) = p].value ELSE None
<1>0. Tree(mem, used) /\ mem \in Memory /\ used \subseteq Slot /\ S \subseteq used
  BY DEF TrieInv, Tree, Stored
<1>1. Entries = [p \in Prefixes |-> V(p)]
  <2>1. EntryNodes = S
    BY <1>0, ReachableIsUsed
  <2>. HIDE DEF S
  <2>. QED
    BY <2>1, Zenon DEF Entries, Pfx
<1>2. ASSUME NEW n \in used, NEW k \in used, Pfx(mem, n) = Pfx(mem, k)  PROVE  n = k
  <2>0. n \in Slot /\ k \in Slot
    BY <1>0
  <2>1. PICK key \in ValidKey : PrefixOf(key) = Pfx(mem, n)
    BY <1>0, <2>0, NodeKey
  <2>2. PrefixOf(mem[n]) = PrefixOf(key) /\ PrefixOf(mem[k]) = PrefixOf(key)
    BY <1>2, <2>1 DEF Pfx
  <2>3. Agrees(mem, n, key) /\ PLen(mem, n) = key.prefixlen /\ Agrees(mem, k, key) /\ PLen(mem, k) = key.prefixlen
    BY <1>0, <2>0, <2>2, PrefixSame
  <2>4. Found(key, Walk(key))
    BY <1>0, WalkIs
  <2>. QED
    BY <2>3, <2>4, Zenon DEF Found
<1>3. ASSUME NEW n \in S  PROVE  Pfx(mem, n) \in Prefixes /\ V(Pfx(mem, n)) = mem[n].value
  <2>1. n \in used /\ n \in Slot
    BY <1>0
  <2>2. Pfx(mem, n) \in Prefixes
    BY <1>0, <2>1, NodeKey DEF Prefixes
  <2>. DEFINE c == CHOOSE k \in S : Pfx(mem, k) = Pfx(mem, n)
  <2>3. c \in S /\ Pfx(mem, c) = Pfx(mem, n)
    <3>. HIDE DEF S
    <3>. QED
      BY Zenon
  <2>4. V(Pfx(mem, n)) = mem[c].value
    <3>. HIDE DEF S
    <3>. QED
      BY Zenon
  <2>. HIDE DEF c
  <2>5. c = n
    BY <1>0, <1>2, <2>1, <2>3
  <2>. QED
    BY <2>2, <2>4, <2>5
<1>4. ASSUME NEW n \in S  PROVE  mem[n].value \in Value /\ mem[n].value # None
  BY LpmAssumption DEF TrieInv, Valued, Stored
<1>5. \A p \in Prefixes : V(p) # None => \E n \in S : Pfx(mem, n) = p
  OBVIOUS
<1>. HIDE DEF S, V
<1>6. Entries = [p \in Prefixes |-> Entries[p]] /\ \A p \in Prefixes : Entries[p] = V(p)
  BY <1>1
<1>. QED
  BY <1>2, <1>3, <1>4, <1>5, <1>6 DEF MapView, S

\* The stored prefixes are those of the entries, and n_entries counts them.
LEMMA MapStored ==
  ASSUME TrieInv, MapView
  PROVE  /\ \A p : p \in Map!Stored <=> \E n \in Stored(mem, used) : Pfx(mem, n) = p
         /\ Map!Full <=> nEntries = MaxEntries
         /\ Map!Stored \subseteq Prefixes
<1>. DEFINE S == Stored(mem, used)
            P == Map!Stored
            f == [n \in S |-> Pfx(mem, n)]
<1>1. P = {p \in Prefixes : Entries[p] # None}
  BY DEF Map!Stored
<1>2. \A p : p \in P <=> \E n \in S : Pfx(mem, n) = p
  <2>1. ASSUME NEW n \in S  PROVE  Pfx(mem, n) \in P
    <3>1. Pfx(mem, n) \in Prefixes /\ Entries[Pfx(mem, n)] # None
      BY DEF MapView
    <3>. QED
      BY <1>1, <3>1
  <2>2. ASSUME NEW p \in P  PROVE  \E n \in S : Pfx(mem, n) = p
    BY <1>1 DEF MapView
  <2>. QED
    BY <2>1, <2>2
<1>3. IsFiniteSet(S) /\ nEntries = Cardinality(S)
  BY StoredFinite DEF TrieInv
<1>4. \A n, k \in S : Pfx(mem, n) = Pfx(mem, k) => n = k
  BY DEF MapView, Stored
<1>. HIDE DEF S, P
<1>5. f \in Bijection(S, P)
  <2>1. f \in [S -> P]
    BY <1>2
  <2>2. IsInjective(f)
    BY <1>4 DEF IsInjective
  <2>3. \A p \in P : \E n \in S : f[n] = p
    BY <1>2
  <2>. QED
    BY <2>1, <2>2, <2>3 DEF Bijection, Injection, Surjection, IsInjective
<1>6. Cardinality(P) = nEntries
  BY <1>3, <1>5, FS_Bijection DEF ExistsBijection
<1>7. Map!Full <=> Cardinality(P) = MaxEntries
  BY MapCardinality DEF Map!Full, P
<1>. QED
  BY <1>1, <1>2, <1>6, <1>7 DEF S, P

\* The prefix of a node that keeps its bits stays.
LEMMA KeptPrefix ==
  ASSUME NEW m, NEW m2, NEW n, Kept(m, m2, n)
  PROVE  Pfx(m2, n) = Pfx(m, n) /\ m2[n].value = m[n].value
<1>1. PLen(m2, n) = PLen(m, n) /\ (\A j : PBit(m2, n, j) = PBit(m, n, j)) /\ m2[n].value = m[n].value
  BY DEF Kept, SameBits
<1>2. Pfx(m2, n) = [j \in 0..(PLen(m2, n) - 1) |-> PBit(m2, n, j)] /\ Pfx(m, n) = [j \in 0..(PLen(m, n) - 1) |-> PBit(m, n, j)]
  BY PrefixIs DEF Pfx
<1>. QED
  BY <1>1, <1>2

\* Present says that the key's prefix is stored.
LEMMA PresentStored ==
  ASSUME TrieInv, MapView, NEW key \in ValidKey, NEW w, Found(key, w)
  PROVE  /\ Present(w) <=> PrefixOf(key) \in Map!Stored
         /\ PrefixOf(key) \in Prefixes
         /\ SamePrefix(w) <=> (w.node \in used /\ Pfx(mem, w.node) = PrefixOf(key))
<1>0. Tree(mem, used) /\ mem \in Memory /\ used \subseteq Slot
  BY DEF TrieInv, Tree
<1>1. PrefixOf(key) \in Prefixes
  BY DEF Prefixes
<1>2. \A n \in used : Pfx(mem, n) = PrefixOf(key) <=> (Agrees(mem, n, key) /\ PLen(mem, n) = key.prefixlen)
  BY <1>0, PrefixSame DEF Pfx
<1>3. SamePrefix(w) <=> (w.node \in used /\ Pfx(mem, w.node) = PrefixOf(key))
  BY <1>0, <1>2, FoundSame
<1>4. ASSUME Present(w)  PROVE  PrefixOf(key) \in Map!Stored
  <2>1. w.node \in Stored(mem, used) /\ Pfx(mem, w.node) = PrefixOf(key)
    BY <1>3, <1>4 DEF Present, Eligible, Stored, Inner
  <2>. QED
    BY <2>1, MapStored
<1>5. ASSUME PrefixOf(key) \in Map!Stored  PROVE  Present(w)
  <2>1. PICK n \in Stored(mem, used) : Pfx(mem, n) = PrefixOf(key)
    BY <1>5, MapStored
  <2>2. n \in used /\ ~mem[n].im
    BY DEF Stored, Inner
  <2>3. w.node = n
    BY <1>2, <2>1, <2>2 DEF Found
  <2>. QED
    BY <1>3, <2>1, <2>2, <2>3 DEF Present, Eligible
<1>. QED
  BY <1>1, <1>3, <1>4, <1>5

\* The map after a successful update and after a deletion.
LEMMA WrittenPuts ==
  ASSUME TrieInv, MapView, MapView', NEW key \in ValidKey, NEW w, Found(key, w), NEW new, NEW v \in Value, Written(w, new, key, v)
  PROVE  Entries' = [Entries EXCEPT ![PrefixOf(key)] = v]
<1>. DEFINE p == PrefixOf(key)
            S == Stored(mem, used)
            S2 == Stored(mem', used')
            E == Entries
            E2 == Entries'
<1>0. /\ E = [q \in Prefixes |-> E[q]] /\ E2 = [q \in Prefixes |-> E2[q]]
      /\ \A n \in S : Pfx(mem, n) \in Prefixes /\ E[Pfx(mem, n)] = mem[n].value /\ mem[n].value # None
      /\ \A n \in S2 : Pfx(mem', n) \in Prefixes /\ E2[Pfx(mem', n)] = mem'[n].value
      /\ \A q \in Prefixes : E[q] # None => \E n \in S : Pfx(mem, n) = q
      /\ \A q \in Prefixes : E2[q] # None => \E n \in S2 : Pfx(mem', n) = q
  <2>1. Prefixes' = Prefixes
    BY DEF Prefixes
  <2>. QED
    BY <2>1, Zenon DEF MapView, Pfx
<1>1. S2 = (S \ Gone(w)) \cup {new} /\ \A y \in S \ Gone(w) : Pfx(mem', y) = Pfx(mem, y) /\ mem'[y].value = mem[y].value
  BY KeptPrefix DEF Written
<1>2. new \in S2 /\ Pfx(mem', new) = p /\ mem'[new].value = v /\ p \in Prefixes
  <2>1. EntryOf(mem', new, key, v)
    BY DEF Written
  <2>2. Pfx(mem', new) = [j \in 0..(PLen(mem', new) - 1) |-> PBit(mem', new, j)] /\ p = [j \in 0..(key.prefixlen - 1) |-> KBit(key, j)]
    BY PrefixIs, KeyPrefixIs DEF Pfx
  <2>3. Pfx(mem', new) = p
    BY <2>1, <2>2 DEF EntryOf
  <2>. QED
    BY <1>1, <2>1, <2>3 DEF EntryOf, Prefixes
<1>3. \A y \in S : Pfx(mem, y) # p => y \notin Gone(w)
  BY PresentStored DEF Gone
<1>. HIDE DEF p, S, S2, E, E2
<1>4. ASSUME NEW q \in Prefixes  PROVE  E2[q] = IF q = p THEN v ELSE E[q]
  <2>1. CASE q = p
    BY <1>0, <1>2, <2>1
  <2>2. CASE q # p /\ E[q] # None
    <3>1. PICK n \in S : Pfx(mem, n) = q
      BY <1>0, <2>2
    <3>2. n \in S2 /\ Pfx(mem', n) = q /\ mem'[n].value = mem[n].value
      BY <1>1, <1>3, <2>2, <3>1
    <3>. QED
      BY <1>0, <2>2, <3>1, <3>2
  <2>3. CASE q # p /\ E[q] = None
    <3>. SUFFICES ASSUME E2[q] # None  PROVE  FALSE
      BY <2>3
    <3>1. PICK n \in S2 : Pfx(mem', n) = q
      BY <1>0
    <3>2. n \in S \ Gone(w)
      BY <1>1, <1>2, <2>3, <3>1
    <3>3. Pfx(mem, n) = q /\ E[q] # None
      BY <1>0, <1>1, <3>1, <3>2
    <3>. QED
      BY <2>3, <3>3
  <2>. QED
    BY <2>1, <2>2, <2>3
<1>5. E2 = [E EXCEPT ![p] = v]
  BY <1>0, <1>2, <1>4
<1>. QED
  BY <1>5 DEF E, E2, p

LEMMA RemovedTakes ==
  ASSUME TrieInv, MapView, MapView', NEW w, w.node \in used, ~Inner(mem, w.node), Removed(w)
  PROVE  Entries' = [Entries EXCEPT ![Pfx(mem, w.node)] = None]
<1>. DEFINE z == w.node
            p == Pfx(mem, z)
            S == Stored(mem, used)
            S2 == Stored(mem', used')
            E == Entries
            E2 == Entries'
<1>0. /\ E = [q \in Prefixes |-> E[q]] /\ E2 = [q \in Prefixes |-> E2[q]]
      /\ \A n \in S : Pfx(mem, n) \in Prefixes /\ E[Pfx(mem, n)] = mem[n].value /\ mem[n].value # None
      /\ \A n \in S2 : Pfx(mem', n) \in Prefixes /\ E2[Pfx(mem', n)] = mem'[n].value
      /\ \A q \in Prefixes : E[q] # None => \E n \in S : Pfx(mem, n) = q
      /\ \A q \in Prefixes : E2[q] # None => \E n \in S2 : Pfx(mem', n) = q
  <2>1. Prefixes' = Prefixes
    BY DEF Prefixes
  <2>. QED
    BY <2>1, Zenon DEF MapView, Pfx
<1>1. S2 = S \ {z} /\ \A y \in S \ {z} : Pfx(mem', y) = Pfx(mem, y) /\ mem'[y].value = mem[y].value
  BY KeptPrefix DEF Removed
<1>2. z \in S /\ p \in Prefixes /\ \A y \in S : Pfx(mem, y) = p => y = z
  <2>1. z \in S
    BY DEF Stored
  <2>. QED
    BY <2>1 DEF MapView, Stored
<1>. HIDE DEF p, S, S2, E, E2, z
<1>4. ASSUME NEW q \in Prefixes  PROVE  E2[q] = IF q = p THEN None ELSE E[q]
  <2>1. CASE E2[q] # None
    <3>1. PICK n \in S2 : Pfx(mem', n) = q
      BY <1>0, <2>1
    <3>2. n \in S /\ n # z /\ Pfx(mem, n) = q /\ mem'[n].value = mem[n].value
      BY <1>1, <3>1
    <3>3. q # p
      BY <1>2, <3>2
    <3>. QED
      BY <1>0, <3>1, <3>2, <3>3
  <2>2. CASE E2[q] = None /\ q # p
    <3>. SUFFICES ASSUME E[q] # None  PROVE  FALSE
      BY <2>2
    <3>1. PICK n \in S : Pfx(mem, n) = q
      BY <1>0
    <3>2. n # z
      BY <2>2, <3>1 DEF p
    <3>3. n \in S2 /\ Pfx(mem', n) = q /\ mem'[n].value = mem[n].value /\ mem[n].value # None
      BY <1>0, <1>1, <3>1, <3>2
    <3>. QED
      BY <1>0, <2>2, <3>3
  <2>3. CASE E2[q] = None /\ q = p
    BY <2>3
  <2>. QED
    BY <2>1, <2>2, <2>3
<1>5. E2 = [E EXCEPT ![p] = None]
  BY <1>0, <1>2, <1>4
<1>. QED
  BY <1>5 DEF E, E2, p, z

\* A call that leaves the trie alone leaves the map alone.
LEMMA EntriesStay ==
  ASSUME mem' = mem, used' = used
  PROVE  Entries' = Entries
  BY DEF Entries, EntryNodes, Reachable, Level, Deref, Prefixes

\* trie_update_elem() is a step of the map.
LEMMA UpdateMaps ==
  ASSUME TrieInv, MapView, MapView', NEW key \in ValidKey, NEW w, Found(key, w), NEW v \in Value, NEW flags \in Flags,
         Update(w, key, v, flags)
  PROVE  Map!Next
<1>. DEFINE p == PrefixOf(key)
            P == Map!Stored
<1>0. (Present(w) <=> p \in P) /\ p \in Prefixes /\ (Map!Full <=> nEntries = MaxEntries)
  BY PresentStored, MapStored
<1>1. CASE UpdateNoMem \/ UpdateForkNoMem(w, key)
  <2>1. ret' = "ENOMEM" /\ mem' = mem /\ used' = used
    BY <1>1 DEF UpdateNoMem, UpdateForkNoMem, Fail
  <2>2. Entries' = Entries
    BY <2>1, EntriesStay
  <2>. QED
    BY <2>1, <2>2, Zenon DEF Map!Next, Map!Refuse
<1>2. CASE UpdateRefused(w, flags)
  <2>1. ret' = Verdict(w, flags) /\ Verdict(w, flags) # "ok" /\ mem' = mem /\ used' = used
    BY <1>2 DEF UpdateRefused, Fail
  <2>2. Entries' = Entries
    BY <2>1, EntriesStay
  <2>3. \/ ret' = "EEXIST" /\ Present(w)
        \/ ret' = "ENOENT" /\ ~Present(w)
        \/ ret' = "ENOSPC" /\ nEntries = MaxEntries
    BY <2>1 DEF Verdict, CheckAdd
  <2>. HIDE DEF p, P
  <2>4. \/ ret' = "EEXIST" /\ P # {}
        \/ ret' = "ENOENT" /\ P # Prefixes
        \/ ret' = "ENOSPC" /\ Map!Full
    BY <1>0, <2>3, Zenon
  <2>. QED
    BY <2>2, <2>4, Zenon DEF Map!Next, Map!Refuse, P
<1>3. ASSUME NEW new \in Free, Verdict(w, flags) = "ok", ret' = "ok",
             \/ UpdateLeaf(w, new, key, v) \/ UpdateReplace(w, new, key, v) \/ UpdateAbove(w, new, key, v)
             \/ \E im_node \in Free \ {new} : UpdateFork(w, new, im_node, key, v)
      PROVE  Map!Next
  <2>0. Written(w, new, key, v)
    BY <1>3, LeafStep, ReplaceStep, AboveStep, ForkStep
  <2>1. Entries' = [Entries EXCEPT ![p] = v]
    BY <2>0, WrittenPuts
  <2>2. ~Present(w) => nEntries # MaxEntries
    BY <1>3 DEF Verdict, CheckAdd
  <2>. HIDE DEF p, P
  <2>3. p \in IF Map!Full THEN P ELSE Prefixes
    BY <1>0, <2>2
  <2>4. Map!Put
    BY <1>3, <2>1, <2>3, Zenon DEF Map!Put, P
  <2>. QED
    BY <2>4 DEF Map!Next
<1>. QED
  BY <1>1, <1>2, <1>3, Zenon DEF Update

\* trie_delete_elem() is a step of the map.
LEMMA DeleteMaps ==
  ASSUME TrieInv, MapView, MapView', NEW key \in ValidKey, NEW w, Found(key, w), Delete(w, key)
  PROVE  Map!Next
<1>. DEFINE p == PrefixOf(key)
            P == Map!Stored
<1>0. /\ (Present(w) <=> p \in P) /\ p \in Prefixes /\ Tree(mem, used)
      /\ (SamePrefix(w) <=> (w.node \in used /\ Pfx(mem, w.node) = p))
  BY PresentStored DEF TrieInv
<1>1. CASE DeleteMissing(w, key)
  <2>1. ret' = "ENOENT" /\ mem' = mem /\ used' = used /\ ~Doomed(w, key)
    BY <1>1 DEF DeleteMissing, Fail
  <2>2. Entries' = Entries
    BY <2>1, EntriesStay
  <2>3. ~Present(w)
    <3>1. Present(w) => SamePrefix(w)
      BY DEF Present
    <3>2. SamePrefix(w) => mem[w.node].prefixlen = key.prefixlen
      BY <1>0, FoundSame DEF PLen
    <3>. QED
      BY <2>1, <3>1, <3>2 DEF Doomed
  <2>. HIDE DEF p, P
  <2>4. P # Prefixes
    BY <1>0, <2>3
  <2>. QED
    BY <2>1, <2>2, <2>4, Zenon DEF Map!Next, Map!Refuse, P
<1>2. CASE Doomed(w, key) /\ (DeleteToIM(w) \/ DeleteWithParent(w) \/ DeleteNode(w)) /\ nEntries' = nEntries - 1 /\ ret' = "ok"
  <2>1. Removed(w)
    BY <1>2, ToIMStep, WithParentStep, NodeStep
  <2>2. w.node \in used /\ ~Inner(mem, w.node) /\ Pfx(mem, w.node) = p /\ Present(w)
    BY <1>0, <1>2, DoomedIs DEF Doomed
  <2>3. Entries' = [Entries EXCEPT ![p] = None]
    BY <2>1, <2>2, RemovedTakes
  <2>. HIDE DEF p, P
  <2>4. Map!Remove
    BY <1>0, <1>2, <2>2, <2>3, Zenon DEF Map!Remove, P
  <2>. QED
    BY <2>4 DEF Map!Next
<1>. QED
  BY <1>1, <1>2 DEF Delete

\* The empty trie is the empty map.
LEMMA MapInit == Init => Map!Init
<1>. SUFFICES ASSUME Init  PROVE  Map!Init
  OBVIOUS
<1>1. TrieInv /\ MapView
  BY InvInit, InvView
<1>2. used = {} /\ ret = "ok"
  BY DEF Init
<1>3. Stored(mem, used) = {}
  BY <1>2 DEF Stored
<1>4. \A p \in Prefixes : Entries[p] = None
  BY <1>1, <1>3 DEF MapView
<1>5. Entries = [p \in Prefixes |-> Entries[p]]
  BY <1>1 DEF MapView
<1>6. Entries = [p \in Prefixes |-> None]
  BY <1>4, <1>5
<1>. QED
  BY <1>2, <1>6 DEF Map!Init

\* Every step of the trie is a step of the map or leaves it alone.
LEMMA MapNext == TrieInv /\ MapView /\ MapView' /\ [Next]_vars => [Map!Next]_<<Entries, ret>>
<1>. SUFFICES ASSUME TrieInv, MapView, MapView', [Next]_vars  PROVE  [Map!Next]_<<Entries, ret>>
  OBVIOUS
<1>1. CASE UNCHANGED vars
  <2>1. mem' = mem /\ used' = used /\ ret' = ret
    BY <1>1 DEF vars
  <2>2. Entries' = Entries
    BY <2>1, EntriesStay
  <2>. QED
    BY <2>1, <2>2
<1>2. CASE Invalid
  <2>1. mem' = mem /\ used' = used /\ ret' = "EINVAL"
    BY <1>2 DEF Invalid, Fail
  <2>2. Entries' = Entries
    BY <2>1, EntriesStay
  <2>3. Map!Next
    BY <2>1, <2>2, Zenon DEF Map!Next, Map!Refuse
  <2>. QED
    BY <2>3
<1>3. ASSUME NEW key \in ValidKey, \/ \E flags \in Flags, v \in Value : Update(Walk(key), key, v, flags)
                                   \/ Delete(Walk(key), key)
      PROVE  Map!Next
  <2>. DEFINE w == Walk(key)
  <2>1. Found(key, w)
    BY WalkIs DEF TrieInv
  <2>. HIDE DEF w
  <2>2. (\E flags \in Flags, v \in Value : Update(w, key, v, flags)) \/ Delete(w, key)
    BY <1>3 DEF w
  <2>. QED
    BY <2>1, <2>2, UpdateMaps, DeleteMaps
<1>. QED
  BY <1>1, <1>2, <1>3, Zenon DEF Next

\* lpm_trie.c implements a bounded map of prefixes: a successful trie_update_elem() changes the
\* value of the key's prefix and no other, a successful trie_delete_elem() takes it away, and
\* a call that fails changes nothing and has the reason its error code names.
THEOREM TrieIsMap == Spec => ImplementsMap
  BY SpecInv, InvView, MapInit, MapNext, PTL DEF Spec, ImplementsMap, Map!Spec
=============================================================================
