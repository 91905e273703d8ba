---------------------------- MODULE MprogProofs ----------------------------
(***************************************************************************)
(* For every number of slots, programs, links, readers and revisions: the  *)
(* bundle's count, references and revision agree with the list, a walk     *)
(* without a lock is faithful to it, and the double-buffered entries       *)
(* implement one list that changes by single edits.                        *)
(***************************************************************************)
EXTENDS Mprog, FiniteSetTheorems, SequenceTheorems, TLAPS

-----------------------------------------------------------------------------
(* Packed entries *)

\* The first n slots hold programs, each another one, and the rest is NULL.
Packed(items, n) ==
  /\ n \in 0 .. mprog_max
  /\ \A i \in Slot : items[i] # NULL <=> i < n
  /\ \A i, j \in 0 .. n - 1 : items[i] = items[j] => i = j

Items == [Slot -> Prog \cup {NULL}]
Links == [Slot -> Link \cup {NULL}]

\* Program p is attached without a link.
Owned(items, links, p) == \E i \in Slot : items[i] = p /\ links[i] = NULL

LEMMA SlotFacts ==
  /\ mprog_max \in Nat \ {0}
  /\ Slot = 0 .. mprog_max
  /\ \A n \in 0 .. mprog_max : 0 .. n - 1 \subseteq Slot
  BY MprogAssumption DEF Slot, mprog_max

\* bpf_mprog_foreach_prog() on a packed entry visits its first n slots.
LEMMA PackedWalk ==
  ASSUME NEW items \in Items, NEW n, Packed(items, n)
  PROVE  /\ Filled(items) = 0 .. n - 1
         /\ Progs(items) = [i \in 1 .. n |-> items[i - 1]]
         /\ Progs(items) \in Seq(Prog)
         /\ Len(Progs(items)) = n
         /\ ToSet(Progs(items)) = {items[i] : i \in 0 .. n - 1}
         /\ IsInjective(Progs(items))
<1>1. n \in 0 .. mprog_max /\ n \in Nat
  BY SlotFacts DEF Packed
<1>2. Filled(items) = 0 .. n - 1
  <2>1. ASSUME NEW i \in Slot, \A j \in 0 .. i : items[j] # NULL
        PROVE  i \in 0 .. n - 1
    BY <2>1, <1>1, SlotFacts DEF Packed
  <2>2. ASSUME NEW i \in 0 .. n - 1
        PROVE  i \in Slot /\ \A j \in 0 .. i : items[j] # NULL
    BY <1>1, SlotFacts DEF Packed
  <2>. QED
    BY <2>1, <2>2 DEF Filled
<1>3. Cardinality(0 .. n - 1) = n
  <2>1. Cardinality(0 .. n - 1) = IF 0 > n - 1 THEN 0 ELSE n - 1 - 0 + 1
    BY <1>1, FS_Interval
  <2>. QED
    BY <2>1, <1>1
<1>4. Progs(items) = [i \in 1 .. n |-> items[i - 1]]
  BY <1>2, <1>3 DEF Progs
<1>5. \A i \in 1 .. n : items[i - 1] \in Prog
  BY <1>1, SlotFacts DEF Packed, Items
<1>6. Progs(items) \in Seq(Prog) /\ Len(Progs(items)) = n
  BY <1>1, <1>4, <1>5
<1>7. ToSet(Progs(items)) = {items[i] : i \in 0 .. n - 1}
  <2>1. ToSet(Progs(items)) = {items[i - 1] : i \in 1 .. n}
    BY <1>4 DEF ToSet
  <2>2. \A i \in 1 .. n : i - 1 \in 0 .. n - 1
    BY <1>1
  <2>3. \A i \in 0 .. n - 1 : i + 1 \in 1 .. n /\ (i + 1) - 1 = i
    BY <1>1
  <2>. QED
    BY <2>1, <2>2, <2>3
<1>8. IsInjective(Progs(items))
  BY <1>1, <1>4 DEF IsInjective, Packed
<1>. QED
  BY <1>2, <1>4, <1>6, <1>7, <1>8

\* At most one slot of a packed entry holds a given program.
LEMMA OwnedCount ==
  ASSUME NEW items \in Items, NEW links \in Links, NEW n, Packed(items, n), NEW p \in Prog
  PROVE  Cardinality({i \in Filled(items) : items[i] = p /\ links[i] = NULL})
           = IF Owned(items, links, p) THEN 1 ELSE 0
<1>. DEFINE S == {i \in Filled(items) : items[i] = p /\ links[i] = NULL}
<1>1. Filled(items) = 0 .. n - 1 /\ n \in 0 .. mprog_max
  BY PackedWalk DEF Packed
<1>2. p # NULL
  BY MprogAssumption
<1>3. CASE Owned(items, links, p)
  <2>1. PICK i \in Slot : items[i] = p /\ links[i] = NULL
    BY <1>3 DEF Owned
  <2>2. i \in 0 .. n - 1
    BY <2>1, <1>1, <1>2, SlotFacts DEF Packed
  <2>3. S = {i}
    BY <2>1, <2>2, <1>1 DEF Packed
  <2>. QED
    BY <2>3, <1>3, FS_Singleton
<1>4. CASE ~ Owned(items, links, p)
  <2>1. S = {}
    BY <1>4, <1>1, SlotFacts DEF Owned
  <2>. QED
    BY <2>1, <1>4, FS_EmptySet
<1>. QED
  BY <1>3, <1>4
-----------------------------------------------------------------------------
(* Edits of sequences *)

LEMMA InsertAtItems ==
  ASSUME NEW S, NEW s \in Seq(S), NEW k \in 1 .. Len(s) + 1, NEW e \in S
  PROVE  /\ InsertAt(s, k, e) \in Seq(S)
         /\ Len(InsertAt(s, k, e)) = Len(s) + 1
         /\ \A j \in 1 .. k - 1 : InsertAt(s, k, e)[j] = s[j]
         /\ InsertAt(s, k, e)[k] = e
         /\ \A j \in k + 1 .. Len(s) + 1 : InsertAt(s, k, e)[j] = s[j - 1]
<1>. DEFINE a == SubSeq(s, 1, k - 1)
            b == SubSeq(s, k, Len(s))
<1>0. Len(s) \in Nat /\ k \in Int /\ k >= 1 /\ k <= Len(s) + 1
  BY LenProperties
<1>1. \A i \in 1 .. Len(s) : s[i] \in S
  BY ElementOfSeq
<1>2. /\ a \in Seq(S) /\ Len(a) = k - 1 /\ \A i \in 1 .. k - 1 : a[i] = s[i]
  <2>1. \A i \in 1 .. k - 1 : s[i] \in S
    BY <1>0, <1>1
  <2>2. /\ a \in Seq(S) /\ Len(a) = IF 1 <= k - 1 THEN k - 1 - 1 + 1 ELSE 0
        /\ \A i \in 1 .. k - 1 - 1 + 1 : a[i] = s[1 + i - 1]
    BY <2>1, <1>0, SubSeqProperties
  <2>. QED
    BY <2>2, <1>0
<1>3. /\ b \in Seq(S) /\ Len(b) = Len(s) - k + 1
      /\ \A i \in 1 .. Len(s) - k + 1 : b[i] = s[k + i - 1]
  <2>1. \A i \in k .. Len(s) : s[i] \in S
    BY <1>0, <1>1
  <2>2. /\ b \in Seq(S) /\ Len(b) = IF k <= Len(s) THEN Len(s) - k + 1 ELSE 0
        /\ \A i \in 1 .. Len(s) - k + 1 : b[i] = s[k + i - 1]
    BY <2>1, <1>0, SubSeqProperties
  <2>. QED
    BY <2>2, <1>0
<1>4. InsertAt(s, k, e) = (a \o <<e>>) \o b
  BY DEF InsertAt
<1>5. <<e>> \in Seq(S) /\ Len(<<e>>) = 1 /\ <<e>>[1] = e
  OBVIOUS
<1>. HIDE DEF a, b
<1>. DEFINE c == a \o <<e>>
<1>6. /\ c \in Seq(S) /\ Len(c) = k
      /\ \A j \in 1 .. k : c[j] = IF j < k THEN s[j] ELSE e
  <2>1. /\ c \in Seq(S) /\ Len(c) = Len(a) + Len(<<e>>)
        /\ \A j \in 1 .. Len(a) + Len(<<e>>) :
             c[j] = IF j <= Len(a) THEN a[j] ELSE <<e>>[j - Len(a)]
    BY <1>2, <1>5, ConcatProperties
  <2>. HIDE DEF c
  <2>. QED
    BY <2>1, <1>0, <1>2, <1>5
<1>. HIDE DEF c
<1>7. /\ c \o b \in Seq(S)
      /\ Len(c \o b) = Len(c) + Len(b)
      /\ \A j \in 1 .. Len(c) + Len(b) : (c \o b)[j] = IF j <= Len(c) THEN c[j] ELSE b[j - Len(c)]
  BY <1>3, <1>6, ConcatProperties
<1>8. InsertAt(s, k, e) = c \o b
  BY <1>4 DEF c
<1>. QED
  BY <1>0, <1>3, <1>6, <1>7, <1>8

\* u is s with e put in at position k.
With(u, s, k, e) ==
  /\ Len(u) = Len(s) + 1
  /\ \A j \in 1 .. k - 1 : u[j] = s[j]
  /\ u[k] = e
  /\ \A j \in k + 1 .. Len(s) + 1 : u[j] = s[j - 1]

LEMMA InsertedSeq ==
  ASSUME NEW S, NEW s \in Seq(S), NEW u \in Seq(S), NEW k \in 1 .. Len(s) + 1, NEW e \in S
  PROVE  With(u, s, k, e) => u = InsertAt(s, k, e)
<1>1. Len(s) \in Nat
  BY LenProperties
<1>2. InsertAt(s, k, e) \in Seq(S) /\ Len(InsertAt(s, k, e)) = Len(s) + 1
  BY InsertAtItems
<1>3. \A j \in 1 .. k - 1 : InsertAt(s, k, e)[j] = s[j]
  BY InsertAtItems
<1>4. InsertAt(s, k, e)[k] = e
  BY InsertAtItems
<1>5. \A j \in k + 1 .. Len(s) + 1 : InsertAt(s, k, e)[j] = s[j - 1]
  BY InsertAtItems
<1>. SUFFICES ASSUME Len(u) = Len(s) + 1,
                     \A j \in 1 .. k - 1 : u[j] = s[j],
                     u[k] = e,
                     \A j \in k + 1 .. Len(s) + 1 : u[j] = s[j - 1]
              PROVE  u = InsertAt(s, k, e)
  BY DEF With
<1>6. ASSUME NEW j \in 1 .. Len(u) PROVE u[j] = InsertAt(s, k, e)[j]
  <2>1. CASE j < k
    BY <2>1, <1>1, <1>3
  <2>2. CASE j = k
    BY <2>2, <1>4
  <2>3. CASE j > k
    BY <2>3, <1>1, <1>5
  <2>. QED
    BY <2>1, <2>2, <2>3, <1>1
<1>. QED
  BY <1>2, <1>6, SeqEqual

LEMMA RemoveAtItems ==
  ASSUME NEW S, NEW s \in Seq(S), NEW k \in 1 .. Len(s)
  PROVE  /\ RemoveAt(s, k) \in Seq(S)
         /\ Len(RemoveAt(s, k)) = Len(s) - 1
         /\ \A j \in 1 .. Len(s) - 1 : RemoveAt(s, k)[j] = IF j < k THEN s[j] ELSE s[j + 1]
<1>. DEFINE a == SubSeq(s, 1, k - 1)
            b == SubSeq(s, k + 1, Len(s))
<1>0. Len(s) \in Nat /\ k \in Int /\ k >= 1 /\ k <= Len(s)
  BY LenProperties
<1>1. \A i \in 1 .. Len(s) : s[i] \in S
  BY ElementOfSeq
<1>2. /\ a \in Seq(S) /\ Len(a) = k - 1 /\ \A i \in 1 .. k - 1 : a[i] = s[i]
  <2>1. \A i \in 1 .. k - 1 : s[i] \in S
    BY <1>0, <1>1
  <2>2. /\ a \in Seq(S) /\ Len(a) = IF 1 <= k - 1 THEN k - 1 - 1 + 1 ELSE 0
        /\ \A i \in 1 .. k - 1 - 1 + 1 : a[i] = s[1 + i - 1]
    BY <2>1, <1>0, SubSeqProperties
  <2>. QED
    BY <2>2, <1>0
<1>3. /\ b \in Seq(S) /\ Len(b) = Len(s) - k
      /\ \A i \in 1 .. Len(s) - k : b[i] = s[k + i]
  <2>1. \A i \in k + 1 .. Len(s) : s[i] \in S
    BY <1>0, <1>1
  <2>2. /\ b \in Seq(S) /\ Len(b) = IF k + 1 <= Len(s) THEN Len(s) - (k + 1) + 1 ELSE 0
        /\ \A i \in 1 .. Len(s) - (k + 1) + 1 : b[i] = s[k + 1 + i - 1]
    BY <2>1, <1>0, SubSeqProperties
  <2>. QED
    BY <2>2, <1>0
<1>4. RemoveAt(s, k) = a \o b
  BY DEF RemoveAt
<1>. HIDE DEF a, b
<1>5. /\ a \o b \in Seq(S)
      /\ Len(a \o b) = Len(a) + Len(b)
      /\ \A j \in 1 .. Len(a) + Len(b) : (a \o b)[j] = IF j <= Len(a) THEN a[j] ELSE b[j - Len(a)]
  BY <1>2, <1>3, ConcatProperties
<1>. QED
  BY <1>0, <1>2, <1>3, <1>4, <1>5
-----------------------------------------------------------------------------
(* The helpers' edits *)

\* Slot idx of items has been opened for p.
Opened(edited, items, idx, p) ==
  /\ \A i \in Slot : i < idx => edited[i] = items[i]
  /\ edited[idx] = p
  /\ \A i \in Slot : i > idx => edited[i] = items[i - 1]

\* What the reader sees of an insertion.
LEMMA InsertedList ==
  ASSUME NEW items \in Items, NEW edited \in Items, NEW n, Packed(items, n),
         Packed(edited, n + 1), NEW p \in Prog, NEW idx \in 0 .. n,
         NEW s, s = Progs(items), NEW u, u = Progs(edited), NEW k, k = idx + 1
  PROVE  Opened(edited, items, idx, p) => u = InsertAt(s, k, p)
<1>0. n \in Nat /\ n + 1 <= mprog_max
  BY SlotFacts DEF Packed
<1>1. s \in Seq(Prog) /\ Len(s) = n /\ \A j \in 1 .. n : s[j] = items[j - 1]
  BY PackedWalk
<1>2. u \in Seq(Prog) /\ Len(u) = n + 1 /\ \A j \in 1 .. n + 1 : u[j] = edited[j - 1]
  BY PackedWalk
<1>3. k \in 1 .. Len(s) + 1 /\ \A j \in 1 .. n + 1 : j - 1 \in Slot
  BY <1>0, <1>1, SlotFacts
<1>4. With(u, s, k, p) => u = InsertAt(s, k, p)
  BY <1>1, <1>2, <1>3, InsertedSeq
<1>a. SUFFICES ASSUME /\ \A i \in Slot : i < idx => edited[i] = items[i]
                      /\ edited[idx] = p
                      /\ \A i \in Slot : i > idx => edited[i] = items[i - 1]
               PROVE  u = InsertAt(s, k, p)
  BY DEF Opened
<1>5. ASSUME NEW j \in 1 .. k - 1 PROVE u[j] = s[j]
  <2>1. j \in 1 .. n + 1 /\ j \in 1 .. n /\ j - 1 < idx
    BY <1>0, <1>1
  <2>2. u[j] = edited[j - 1] /\ s[j] = items[j - 1] /\ j - 1 \in Slot
    BY <2>1, <1>1, <1>2, <1>3
  <2>. QED
    BY <2>1, <2>2, <1>a
<1>6. u[k] = p
  BY <1>0, <1>1, <1>2, <1>a
<1>7. ASSUME NEW j \in k + 1 .. Len(s) + 1 PROVE u[j] = s[j - 1]
  <2>1. j \in 1 .. n + 1 /\ j - 1 \in 1 .. n /\ j - 1 > idx
    BY <1>0, <1>1
  <2>2. u[j] = edited[j - 1] /\ s[j - 1] = items[(j - 1) - 1] /\ j - 1 \in Slot
    BY <2>1, <1>1, <1>2, <1>3
  <2>. QED
    BY <2>1, <2>2, <1>a
<1>. QED
  BY <1>1, <1>2, <1>4, <1>5, <1>6, <1>7 DEF With

\* bpf_mprog_insert() on an array with n items.
Inserted(items, n, idx, x) ==
  [(IF idx = n THEN items ELSE Grow(items, idx)) EXCEPT ![idx] = x]

\* The entry stays packed and only p joins it.
LEMMA InsertPacked ==
  ASSUME NEW items \in Items, NEW links \in Links, NEW n, Packed(items, n), n # mprog_max,
         NEW p \in Prog, p \notin ToSet(Progs(items)), NEW l \in Link \cup {NULL},
         NEW idx \in 0 .. n,
         NEW edited, edited = Inserted(items, n, idx, p),
         NEW linked, linked = Inserted(links, n, idx, l)
  PROVE  /\ edited \in Items /\ linked \in Links
         /\ Packed(edited, n + 1)
         /\ Progs(edited) = InsertAt(Progs(items), idx + 1, p)
         /\ \A q \in Prog : Owned(edited, linked, q)
              <=> IF q = p THEN l = NULL ELSE Owned(items, links, q)
<1>0. n \in 0 .. mprog_max /\ n \in Nat /\ n + 1 \in 0 .. mprog_max /\ idx \in Slot
  BY SlotFacts DEF Packed
<1>1. \A i \in Slot : i > idx => i - 1 \in Slot
  BY <1>0, SlotFacts
<1>2. /\ (IF idx = n THEN items ELSE Grow(items, idx)) \in Items
      /\ (IF idx = n THEN links ELSE Grow(links, idx)) \in Links
  BY <1>0, <1>1 DEF Grow, Items, Links
<1>3. edited \in Items /\ linked \in Links
  BY <1>0, <1>2 DEF Items, Links, Inserted
<1>4. \A i \in Slot : edited[i] = IF i < idx THEN items[i]
                                  ELSE IF i = idx THEN p ELSE items[i - 1]
  <2>1. \A i \in Slot : i >= n => items[i] = NULL
    BY <1>0, SlotFacts DEF Packed
  <2>2. CASE idx = n
    <3>1. \A i \in Slot : i > idx => items[i] = NULL /\ items[i - 1] = NULL
      BY <2>1, <2>2, <1>0, <1>1, SlotFacts
    <3>. QED
      BY <3>1, <2>2, <1>0, SlotFacts DEF Items, Inserted
  <2>3. CASE idx # n
    BY <2>3, <1>0, SlotFacts DEF Grow, Items, Inserted
  <2>. QED
    BY <2>2, <2>3
<1>5. \A i \in Slot : i <= n => linked[i] = IF i < idx THEN links[i]
                                           ELSE IF i = idx THEN l ELSE links[i - 1]
  BY <1>0, <1>2, SlotFacts DEF Grow, Links, Inserted
<1>6. \A i \in 0 .. n - 1 : items[i] # p
  BY PackedWalk
<1>7. Packed(edited, n + 1)
  <2>1. \A i \in Slot : edited[i] # NULL <=> i < n + 1
    <3>. SUFFICES ASSUME NEW i \in Slot PROVE edited[i] # NULL <=> i < n + 1
      OBVIOUS
    <3>1. CASE i < idx
      BY <3>1, <1>4, <1>0, SlotFacts DEF Packed
    <3>2. CASE i = idx
      BY <3>2, <1>4, <1>0, SlotFacts, MprogAssumption
    <3>3. CASE i > idx
      BY <3>3, <1>4, <1>0, <1>1, SlotFacts DEF Packed
    <3>. QED
      BY <3>1, <3>2, <3>3, <1>0, SlotFacts
  <2>2. \A i, j \in 0 .. n : edited[i] = edited[j] => i = j
    <3>. SUFFICES ASSUME NEW i \in 0 .. n, NEW j \in 0 .. n, edited[i] = edited[j] PROVE i = j
      OBVIOUS
    <3>1. i \in Slot /\ j \in Slot
      BY <1>0, SlotFacts
    <3>2. \A a \in 0 .. n - 1, b \in 0 .. n - 1 : items[a] = items[b] => a = b
      BY DEF Packed
    <3>. QED
      BY <3>1, <3>2, <1>4, <1>6, <1>0
  <2>. QED
    BY <2>1, <2>2, <1>0 DEF Packed
<1>8. Progs(edited) = InsertAt(Progs(items), idx + 1, p)
  <2>1. Opened(edited, items, idx, p)
    BY <1>0, <1>4, SlotFacts DEF Opened
  <2>2. ASSUME NEW s, s = Progs(items), NEW u, u = Progs(edited), NEW k, k = idx + 1
        PROVE  u = InsertAt(s, k, p)
    BY <2>1, <2>2, <1>3, <1>7, InsertedList
  <2>. QED
    BY <2>2
<1>9. ASSUME NEW q \in Prog
      PROVE  Owned(edited, linked, q) <=> IF q = p THEN l = NULL ELSE Owned(items, links, q)
  <2>0. q # NULL
    BY MprogAssumption
  <2>1. CASE q = p
    <3>1. \A i \in Slot : edited[i] = p <=> i = idx
      BY <1>7, <1>4, <1>0, <2>0, <2>1, SlotFacts DEF Packed
    <3>. QED
      BY <3>1, <2>1, <1>5, <1>0 DEF Owned
  <2>2. CASE q # p
    <3>1. ASSUME NEW i \in Slot, edited[i] = q, linked[i] = NULL PROVE Owned(items, links, q)
      <4>1. i <= n /\ i # idx
        BY <3>1, <2>0, <2>2, <1>7, <1>4, <1>0, SlotFacts DEF Packed
      <4>. QED
        BY <4>1, <3>1, <1>4, <1>5, <1>1, <1>0, SlotFacts DEF Owned
    <3>2. ASSUME NEW i \in Slot, items[i] = q, links[i] = NULL PROVE Owned(edited, linked, q)
      <4>1. i < n
        BY <3>2, <2>0 DEF Packed
      <4>2. CASE i < idx
        BY <4>1, <4>2, <3>2, <1>4, <1>5, <1>0, SlotFacts DEF Owned
      <4>3. CASE i >= idx
        <5>1. i + 1 \in Slot /\ i + 1 > idx /\ i + 1 <= n /\ (i + 1) - 1 = i
          BY <4>1, <4>3, <1>0, SlotFacts
        <5>2. edited[i + 1] = items[i] /\ linked[i + 1] = links[i]
          BY <5>1, <1>4, <1>5, <1>0
        <5>. QED
          BY <5>1, <5>2, <3>2 DEF Owned
      <4>. QED
        BY <4>2, <4>3, <1>0, SlotFacts
    <3>. QED
      BY <3>1, <3>2, <2>2 DEF Owned
  <2>. QED
    BY <2>1, <2>2
<1>. QED
  BY <1>3, <1>7, <1>8, <1>9

\* bpf_mprog_delete(): the entry stays packed and only slot idx leaves it.
LEMMA DeletePacked ==
  ASSUME NEW items \in Items, NEW links \in Links, NEW n, Packed(items, n),
         NEW idx \in 0 .. n - 1,
         NEW edited, edited = Shrink(items, idx),
         NEW linked, linked = Shrink(links, idx)
  PROVE  /\ edited \in Items /\ linked \in Links
         /\ Packed(edited, n - 1)
         /\ Progs(edited) = RemoveAt(Progs(items), idx + 1)
         /\ \A q \in Prog : Owned(edited, linked, q) <=> q # items[idx] /\ Owned(items, links, q)
<1>0. n \in 0 .. mprog_max /\ n \in Nat /\ n # 0 /\ n - 1 \in 0 .. mprog_max /\ idx \in Slot
  BY SlotFacts DEF Packed
<1>1. \A i \in Slot : i # mprog_max => i + 1 \in Slot
  BY SlotFacts
<1>2. edited \in Items /\ linked \in Links
  BY <1>1 DEF Shrink, Items, Links
<1>3. \A i \in Slot : edited[i] = IF i < idx THEN items[i]
                                  ELSE IF i = mprog_max THEN NULL ELSE items[i + 1]
  BY <1>0, SlotFacts DEF Shrink, Packed
<1>4. \A i \in Slot : linked[i] = IF i < idx /\ i # mprog_max THEN links[i]
                                  ELSE IF i = mprog_max THEN NULL ELSE links[i + 1]
  BY <1>0, SlotFacts DEF Shrink
<1>5. Packed(edited, n - 1)
  <2>1. \A i \in Slot : edited[i] # NULL <=> i < n - 1
    BY <1>0, <1>1, <1>3, SlotFacts DEF Packed
  <2>2. \A i, j \in 0 .. (n - 1) - 1 : edited[i] = edited[j] => i = j
    <3>. SUFFICES ASSUME NEW i \in 0 .. n - 2, NEW j \in 0 .. n - 2, edited[i] = edited[j]
                  PROVE  i = j
      BY <1>0
    <3>1. i \in Slot /\ j \in Slot /\ i # mprog_max /\ j # mprog_max
      BY <1>0, SlotFacts
    <3>2. \A a \in 0 .. n - 1, b \in 0 .. n - 1 : items[a] = items[b] => a = b
      BY DEF Packed
    <3>. QED
      BY <3>1, <3>2, <1>3, <1>0
  <2>. QED
    BY <2>1, <2>2, <1>0 DEF Packed
<1>6. Progs(edited) = RemoveAt(Progs(items), idx + 1)
  <2>1. /\ Progs(items) = [i \in 1 .. n |-> items[i - 1]] /\ Progs(items) \in Seq(Prog)
        /\ Len(Progs(items)) = n
    BY PackedWalk
  <2>2. Progs(edited) = [i \in 1 .. n - 1 |-> edited[i - 1]] /\ Len(Progs(edited)) = n - 1
        /\ Progs(edited) \in Seq(Prog)
    BY <1>2, <1>5, PackedWalk
  <2>3. /\ RemoveAt(Progs(items), idx + 1) \in Seq(Prog)
        /\ Len(RemoveAt(Progs(items), idx + 1)) = n - 1
        /\ \A j \in 1 .. n - 1 :
             RemoveAt(Progs(items), idx + 1)[j] =
               IF j < idx + 1 THEN Progs(items)[j] ELSE Progs(items)[j + 1]
    <3>1. idx + 1 \in 1 .. n
      BY <1>0
    <3>. QED
      BY <3>1, <2>1, RemoveAtItems
  <2>4. \A j \in 1 .. n - 1 : j - 1 \in Slot /\ j - 1 # mprog_max
    BY <1>0, SlotFacts
  <2>5. \A j \in 1 .. n - 1 : RemoveAt(Progs(items), idx + 1)[j] = Progs(edited)[j]
    <3>. SUFFICES ASSUME NEW j \in 1 .. n - 1
                  PROVE  RemoveAt(Progs(items), idx + 1)[j] = Progs(edited)[j]
      OBVIOUS
    <3>1. RemoveAt(Progs(items), idx + 1)[j] =
            IF j < idx + 1 THEN Progs(items)[j] ELSE Progs(items)[j + 1]
      BY <2>3
    <3>2. j \in Nat /\ j \in 1 .. n /\ j + 1 \in 1 .. n /\ (j + 1) - 1 = (j - 1) + 1
      BY <1>0
    <3>3. Progs(items)[j] = items[j - 1] /\ Progs(items)[j + 1] = items[(j - 1) + 1]
      BY <2>1, <3>2
    <3>4. Progs(edited)[j] = edited[j - 1]
      BY <2>2
    <3>5. edited[j - 1] = IF j - 1 < idx THEN items[j - 1] ELSE items[(j - 1) + 1]
      BY <1>3, <2>4
    <3>6. j < idx + 1 <=> j - 1 < idx
      BY <1>0, <3>2
    <3>. QED
      BY <3>1, <3>3, <3>4, <3>5, <3>6
  <2>. QED
    BY <2>2, <2>3, <2>5, SeqEqual
<1>7. ASSUME NEW q \in Prog
      PROVE  Owned(edited, linked, q) <=> q # items[idx] /\ Owned(items, links, q)
  <2>0. q # NULL
    BY MprogAssumption
  <2>1. ASSUME NEW i \in Slot, edited[i] = q, linked[i] = NULL
        PROVE  q # items[idx] /\ Owned(items, links, q)
    <3>1. i < n - 1 /\ i # mprog_max
      BY <2>1, <2>0, <1>5, <1>0, SlotFacts DEF Packed
    <3>2. CASE i < idx
      BY <3>1, <3>2, <2>1, <1>3, <1>4, <1>0, SlotFacts DEF Owned, Packed
    <3>3. CASE i >= idx
      BY <3>1, <3>3, <2>1, <1>1, <1>3, <1>4, <1>0, SlotFacts, SMTT(60) DEF Owned, Packed
    <3>. QED
      BY <3>2, <3>3, <1>0, SlotFacts
  <2>2. ASSUME NEW i \in Slot, items[i] = q, links[i] = NULL, q # items[idx]
        PROVE  Owned(edited, linked, q)
    <3>1. i < n /\ i # idx
      BY <2>2, <2>0 DEF Packed
    <3>2. CASE i < idx
      BY <3>1, <3>2, <2>2, <1>3, <1>4, <1>0, SlotFacts DEF Owned
    <3>3. CASE i > idx
      <4>1. i - 1 \in Slot /\ i - 1 >= idx /\ i - 1 # mprog_max /\ (i - 1) + 1 = i
        BY <3>1, <3>3, <1>0, SlotFacts
      <4>. QED
        BY <4>1, <2>2, <1>3, <1>4, <1>0, SlotFacts DEF Owned
    <3>. QED
      BY <3>1, <3>2, <3>3, <1>0, SlotFacts
  <2>. QED
    BY <2>1, <2>2 DEF Owned
<1>. QED
  BY <1>2, <1>5, <1>6, <1>7
-----------------------------------------------------------------------------
(* The inductive invariant *)

Walks ==
  [at : Slot \cup {-1}, entry : Entry, seen : Seq(Prog), stay : SUBSET Prog, was : SUBSET Prog]

Types ==
  /\ fp \in [Entry -> Items] /\ cp \in Links
  /\ ref \in Prog \cup {NULL}
  /\ revision \in 1 .. MaxRevision
  /\ active \in Entry /\ new \in Entry
  /\ pc \in {"idle", "publish", "sync", "commit", "release", "down"}
  /\ clearing \in BOOLEAN
  /\ refs \in [Prog -> Nat]
  /\ rd \in [Reader -> Walks]

\* What the phases of an update leave for the next one.
Phases ==
  /\ pc \in {"publish", "sync", "release"} => new = Peer(active)
  /\ pc \in {"publish", "sync", "commit"} => revision < MaxRevision
  /\ clearing = TRUE => pc \in {"publish", "sync", "release", "down"} /\ ref = NULL /\ count = 0
  /\ pc \in {"release", "down"} => clearing = TRUE
  /\ pc = "idle" => ref = NULL

\* Both entries are packed at all times, and count belongs to the current one.
Shape ==
  /\ \A e \in Entry : \E n \in 0 .. mprog_max : Packed(fp[e], n)
  /\ Packed(fp[Current], count)

\* The entry whose programs the references are for.
Owner == IF clearing = TRUE /\ pc = "publish" THEN active
         ELSE IF clearing = TRUE /\ pc \in {"sync", "release"} THEN new
         ELSE Current

Ownership ==
  \A p \in Prog : refs[p] = (IF Owned(fp[Owner], cp, p) THEN 1 ELSE 0) + (IF ref = p THEN 1 ELSE 0)

Queried ==
  /\ query.revision \in 1 .. revision
  /\ pc = "idle" /\ query.revision = revision => query.list = Visible

\* Where a walk stands in its entry, and where in what it has seen the programs
\* are that stay attached.
WalkOK(w) ==
  /\ pc # "sync" => w.entry = active
  /\ Len(w.seen) = w.at
  /\ \A i \in Slot : i < w.at => fp[w.entry][i] # NULL
  /\ \A i \in Slot : fp[w.entry][i] # NULL => fp[w.entry][i] \in w.was
  /\ \A j \in 1 .. w.at : w.seen[j] \in w.was
  /\ \A p \in w.stay : \E i \in Slot :
       fp[w.entry][i] = p /\ \A j \in 1 .. w.at : w.seen[j] = p <=> j = i + 1

Walking == \A r \in Reader : rd[r].at # -1 => WalkOK(rd[r])

\* An edit of the list, as ProgList has it.
Edit(old, list) ==
  \/ list = << >>
  \/ /\ Len(old) < mprog_max
     /\ \E p \in Prog \ ToSet(old), i \in 1 .. Len(old) + 1 : list = InsertAt(old, i, p)
  \/ \E i \in DOMAIN old : list = RemoveAt(old, i)

\* What is about to be published is one edit away from what is visible.
Edited == pc = "publish" => Edit(Visible, Progs(fp[new]))

IInv == Types /\ Phases /\ Shape /\ Ownership /\ Queried /\ Walking /\ Edited
-----------------------------------------------------------------------------
(* Steps *)

LEMMA PeerFacts == \A e \in Entry : Peer(e) \in Entry /\ Peer(e) # e /\ Peer(Peer(e)) = e
  BY DEF Entry, Peer

\* The readers across an edit of the entries: a walk goes on if its own entry
\* keeps its NULLs and changes only where a program is exchanged for one that is
\* now visible.
LEMMA WatchKeeps ==
  ASSUME Types, Walking, Watch, NEW V, V = ToSet(Progs(fp'[active'])), V \subseteq Prog,
         \A r \in Reader : rd[r].at # -1 =>
           /\ pc' # "sync" => rd[r].entry = active'
           /\ \A i \in Slot :
                /\ fp'[rd[r].entry][i] = NULL <=> fp[rd[r].entry][i] = NULL
                /\ fp'[rd[r].entry][i] = fp[rd[r].entry][i] \/ fp'[rd[r].entry][i] \in V
                /\ fp[rd[r].entry][i] \in V => fp'[rd[r].entry][i] = fp[rd[r].entry][i]
  PROVE  rd' \in [Reader -> Walks] /\ Walking'
<1>0. rd \in [Reader -> Walks]
  BY DEF Types
<1>1. rd' = [r \in Reader |-> IF rd[r].at = -1 THEN rd[r]
                              ELSE [rd[r] EXCEPT !.stay = @ \cap V, !.was = @ \cup V]]
  BY DEF Watch
<1>2. ASSUME NEW r \in Reader
      PROVE  /\ rd'[r] \in Walks
             /\ rd'[r].at = rd[r].at
             /\ rd[r].at # -1 => /\ rd'[r].entry = rd[r].entry /\ rd'[r].seen = rd[r].seen
                                 /\ rd'[r].stay = rd[r].stay \cap V
                                 /\ rd'[r].was = rd[r].was \cup V
  <2>1. rd[r] \in Walks
    BY <1>0
  <2>. QED
    BY <2>1, <1>1 DEF Walks
<1>3. rd' \in [Reader -> Walks]
  BY <1>1, <1>2
<1>4. ASSUME NEW r \in Reader, rd'[r].at # -1 PROVE WalkOK(rd[r])'
  <2>1. rd[r].at # -1 /\ WalkOK(rd[r])
    BY <1>2, <1>4 DEF Walking
  <2>2. pc' # "sync" => rd'[r].entry = active'
    BY <2>1, <1>2
  <2>3. Len(rd'[r].seen) = rd'[r].at
    BY <2>1, <1>2 DEF WalkOK
  <2>4. \A i \in Slot : i < rd'[r].at => fp'[rd'[r].entry][i] # NULL
    BY <2>1, <1>2 DEF WalkOK
  <2>5. \A i \in Slot : fp'[rd'[r].entry][i] # NULL => fp'[rd'[r].entry][i] \in rd'[r].was
    BY <2>1, <1>2 DEF WalkOK
  <2>6. \A j \in 1 .. rd'[r].at : rd'[r].seen[j] \in rd'[r].was
    BY <2>1, <1>2 DEF WalkOK
  <2>7. ASSUME NEW p \in rd'[r].stay
        PROVE  \E i \in Slot : /\ fp'[rd'[r].entry][i] = p
                               /\ \A j \in 1 .. rd'[r].at : rd'[r].seen[j] = p <=> j = i + 1
    <3>1. p \in rd[r].stay /\ p \in V
      BY <2>1, <1>2, <2>7
    <3>2. PICK i \in Slot : /\ fp[rd[r].entry][i] = p
                            /\ \A j \in 1 .. rd[r].at : rd[r].seen[j] = p <=> j = i + 1
      BY <3>1, <2>1 DEF WalkOK
    <3>. QED
      BY <3>1, <3>2, <2>1, <1>2
  <2>. QED
    BY <2>2, <2>3, <2>4, <2>5, <2>6, <2>7 DEF WalkOK
<1>. QED
  BY <1>3, <1>4 DEF Walking

\* The programs a walk of an entry can run.
LEMMA VisibleProgs ==
  ASSUME NEW items \in Items, NEW n, Packed(items, n)
  PROVE  /\ ToSet(Progs(items)) \subseteq Prog
         /\ \A i \in Slot : items[i] # NULL => items[i] \in ToSet(Progs(items))
         /\ \A p \in ToSet(Progs(items)) : \E i \in Slot : i < n /\ items[i] = p
<1>1. n \in 0 .. mprog_max
  BY DEF Packed
<1>2. ToSet(Progs(items)) = {items[i] : i \in 0 .. n - 1}
  BY PackedWalk
<1>3. \A i \in 0 .. n - 1 : i \in Slot /\ items[i] # NULL /\ items[i] \in Prog
  BY <1>1, SlotFacts DEF Packed, Items
<1>4. \A i \in Slot : items[i] # NULL => i \in 0 .. n - 1
  BY <1>1, SlotFacts DEF Packed
<1>. QED
  BY <1>1, <1>2, <1>3, <1>4

\* An edit made in the entry that is not active: readers are not disturbed.
LEMMA PeerEditKeeps ==
  ASSUME IInv, Watch, pc = "idle", active' = active, NEW items, fp' = [fp EXCEPT ![Peer(active)] = items],
         pc' = "publish"
  PROVE  rd' \in [Reader -> Walks] /\ Walking' /\ Visible' = Visible
<1>1. fp \in [Entry -> Items] /\ active \in Entry /\ Walking /\ Types
  BY DEF IInv, Types
<1>2. fp'[active] = fp[active]
  BY <1>1, PeerFacts
<1>3. PICK n \in 0 .. mprog_max : Packed(fp[active], n)
  BY <1>1 DEF IInv, Shape
<1>4. ToSet(Progs(fp'[active'])) \subseteq Prog
  BY <1>1, <1>2, <1>3, VisibleProgs
<1>5. \A r \in Reader : rd[r].at # -1 => rd[r].entry = active
  BY <1>1 DEF Walking, WalkOK
<1>6. \A r \in Reader : rd[r].at # -1 => fp'[rd[r].entry] = fp[rd[r].entry]
  BY <1>2, <1>5
<1>7. rd' \in [Reader -> Walks] /\ Walking'
  BY <1>1, <1>4, <1>5, <1>6, WatchKeeps
<1>. QED
  BY <1>2, <1>7 DEF Visible

\* Where an update starts.
LEMMA UpdateStarts ==
  ASSUME IInv, MayUpdate
  PROVE  /\ pc = "idle" /\ revision < MaxRevision /\ ref = NULL /\ clearing = FALSE
         /\ Current = active /\ Owner = active
         /\ active \in Entry /\ fp[active] \in Items /\ cp \in Links
         /\ Packed(fp[active], count)
         /\ Peer(active) \in Entry /\ Peer(active) # active
<1>1. pc = "idle" /\ revision < MaxRevision
  BY DEF MayUpdate
<1>2. ref = NULL /\ clearing # TRUE
  BY <1>1 DEF IInv, Phases
<1>3. clearing = FALSE
  BY <1>2, Zenon DEF IInv, Types
<1>4. Current = active /\ Owner = active
  BY <1>1 DEF Current, Owner
<1>5. active \in Entry /\ fp[active] \in Items /\ cp \in Links /\ Packed(fp[active], count)
  BY <1>4 DEF IInv, Types, Shape
<1>. QED
  BY <1>1, <1>2, <1>3, <1>4, <1>5, PeerFacts

LEMMA InsertStep ==
  ASSUME IInv, NEW p \in Prog, NEW l \in Link \cup {NULL}, NEW idx \in Slot, Insert(p, l, idx)
  PROVE  IInv'
<1>1. MayUpdate /\ ~ Exists(active, p) /\ count # mprog_max /\ idx \in 0 .. count
  BY DEF Insert
<1>2. /\ pc = "idle" /\ revision < MaxRevision /\ ref = NULL /\ clearing = FALSE
      /\ Current = active /\ Owner = active
      /\ active \in Entry /\ fp[active] \in Items /\ cp \in Links
      /\ Packed(fp[active], count)
      /\ Peer(active) \in Entry /\ Peer(active) # active
  BY <1>1, UpdateStarts
<1>3. /\ count' = count + 1 /\ pc' = "publish" /\ new' = Peer(active)
      /\ refs' = (IF l = NULL THEN [refs EXCEPT ![p] = @ + 1] ELSE refs)
      /\ ref' = ref /\ revision' = revision /\ active' = active /\ clearing' = clearing
      /\ query' = query /\ Watch
  BY DEF Insert, InsertAtSlot, EditPeer
<1>. DEFINE edited == Inserted(fp[active], count, idx, p)
            linked == Inserted(cp, count, idx, l)
<1>4. fp' = [fp EXCEPT ![Peer(active)] = edited] /\ cp' = linked
  BY DEF Insert, InsertAtSlot, EditPeer, PutLink, Inserted
<1>5. p \notin ToSet(Progs(fp[active]))
  BY <1>1 DEF Exists
<1>6. /\ edited \in Items /\ linked \in Links /\ Packed(edited, count + 1)
      /\ Progs(edited) = InsertAt(Progs(fp[active]), idx + 1, p)
      /\ \A q \in Prog : Owned(edited, linked, q)
           <=> IF q = p THEN l = NULL ELSE Owned(fp[active], cp, q)
  BY <1>1, <1>2, <1>5, InsertPacked
<1>. HIDE DEF edited, linked
<1>7. fp \in [Entry -> Items]
  BY DEF IInv, Types
<1>8. /\ fp' \in [Entry -> Items] /\ fp'[Peer(active)] = edited /\ fp'[active] = fp[active]
      /\ \A e \in Entry : e # Peer(active) => fp'[e] = fp[e]
  BY <1>2, <1>4, <1>6, <1>7
<1>9. rd' \in [Reader -> Walks] /\ Walking' /\ Visible' = Visible
  BY <1>2, <1>3, <1>4, PeerEditKeeps
<1>10. Current' = Peer(active) /\ Owner' = Peer(active)
  BY <1>2, <1>3 DEF Current, Owner
<1>11. refs' \in [Prog -> Nat] /\ Ownership'
  <2>1. refs \in [Prog -> Nat] /\ \A q \in Prog : refs[q] = (IF Owned(fp[active], cp, q) THEN 1 ELSE 0)
    BY <1>2, MprogAssumption DEF IInv, Types, Ownership
  <2>2. ~ Owned(fp[active], cp, p)
    BY <1>2, <1>5, VisibleProgs, MprogAssumption DEF Owned
  <2>3. refs' \in [Prog -> Nat]
    BY <2>1, <1>3
  <2>4. \A q \in Prog : ref' # q
    BY <1>2, <1>3, MprogAssumption
  <2>5. \A q \in Prog : refs'[q] = (IF Owned(edited, linked, q) THEN 1 ELSE 0)
    BY <2>1, <2>2, <1>3, <1>6
  <2>. QED
    BY <2>3, <2>4, <2>5, <1>4, <1>8, <1>10 DEF Ownership
<1>12. Types'
  BY <1>2, <1>3, <1>4, <1>6, <1>8, <1>9, <1>11 DEF Types, IInv
<1>13. Phases'
  BY <1>2, <1>3 DEF Phases
<1>14. Shape'
  <2>1. \A e \in Entry : \E n \in 0 .. mprog_max : Packed(fp'[e], n)
    <3>1. count + 1 \in 0 .. mprog_max
      BY <1>6 DEF Packed
    <3>. QED
      BY <3>1, <1>6, <1>8 DEF IInv, Shape
  <2>. QED
    BY <2>1, <1>3, <1>6, <1>8, <1>10 DEF Shape
<1>15. Queried'
  BY <1>2, <1>3 DEF Queried, IInv
<1>16. Edited'
  <2>1. Len(Visible) = count /\ Visible = Progs(fp[active]) /\ count \in 0 .. mprog_max
    BY <1>2, PackedWalk DEF Visible, Packed
  <2>2. idx + 1 \in 1 .. Len(Visible) + 1 /\ Len(Visible) < mprog_max
    BY <2>1, <1>1, SlotFacts
  <2>3. Progs(fp'[new']) = InsertAt(Visible, idx + 1, p) /\ p \in Prog \ ToSet(Visible)
    BY <2>1, <1>3, <1>5, <1>6, <1>8
  <2>4. Edit(Visible, Progs(fp'[new']))
    BY <2>2, <2>3 DEF Edit
  <2>. QED
    BY <2>4, <1>9 DEF Edited
<1>. QED
  BY <1>9, <1>11, <1>12, <1>13, <1>14, <1>15, <1>16 DEF IInv

LEMMA DeleteStep ==
  ASSUME IInv, NEW idx \in Slot, Delete(idx)
  PROVE  IInv'
<1>1. MayUpdate /\ idx \in Filled(fp[active])
  BY DEF Delete
<1>2. /\ pc = "idle" /\ revision < MaxRevision /\ ref = NULL /\ clearing = FALSE
      /\ Current = active /\ Owner = active
      /\ active \in Entry /\ fp[active] \in Items /\ cp \in Links
      /\ Packed(fp[active], count)
      /\ Peer(active) \in Entry /\ Peer(active) # active
  BY <1>1, UpdateStarts
<1>3. idx \in 0 .. count - 1 /\ fp[active][idx] \in Prog /\ count \in 0 .. mprog_max
  <2>1. Filled(fp[active]) = 0 .. count - 1
    BY <1>2, PackedWalk
  <2>2. count \in 0 .. mprog_max /\ idx \in 0 .. count - 1
    BY <2>1, <1>1, <1>2 DEF Packed
  <2>. QED
    BY <2>2, <1>2, SlotFacts DEF Packed, Items
<1>4. /\ count' = count - 1 /\ pc' = "publish" /\ new' = Peer(active) /\ refs' = refs
      /\ ref' = (IF cp[idx] = NULL THEN fp[active][idx] ELSE ref)
      /\ revision' = revision /\ active' = active /\ clearing' = clearing
      /\ query' = query /\ Watch
      /\ fp' = [fp EXCEPT ![Peer(active)] = Shrink(fp[active], idx)] /\ cp' = Shrink(cp, idx)
  BY DEF Delete, EditPeer, MarkForRelease
<1>. DEFINE edited == Shrink(fp[active], idx)
            linked == Shrink(cp, idx)
<1>6. /\ edited \in Items /\ linked \in Links /\ Packed(edited, count - 1)
      /\ Progs(edited) = RemoveAt(Progs(fp[active]), idx + 1)
      /\ \A q \in Prog : Owned(edited, linked, q) <=> q # fp[active][idx] /\ Owned(fp[active], cp, q)
  BY <1>2, <1>3, DeletePacked
<1>. HIDE DEF edited, linked
<1>7. fp \in [Entry -> Items]
  BY DEF IInv, Types
<1>8. /\ fp' \in [Entry -> Items] /\ fp'[Peer(active)] = edited /\ fp'[active] = fp[active]
      /\ cp' = linked
      /\ \A e \in Entry : e # Peer(active) => fp'[e] = fp[e]
  BY <1>2, <1>4, <1>6, <1>7 DEF edited, linked
<1>9. rd' \in [Reader -> Walks] /\ Walking' /\ Visible' = Visible
  BY <1>2, <1>4, PeerEditKeeps
<1>10. Current' = Peer(active) /\ Owner' = Peer(active)
  BY <1>2, <1>4 DEF Current, Owner
<1>11. refs' \in [Prog -> Nat] /\ Ownership'
  <2>1. refs \in [Prog -> Nat] /\ \A q \in Prog : refs[q] = (IF Owned(fp[active], cp, q) THEN 1 ELSE 0)
    BY <1>2, MprogAssumption DEF IInv, Types, Ownership
  <2>2. Owned(fp[active], cp, fp[active][idx]) <=> cp[idx] = NULL
    <3>1. \A i \in Slot : fp[active][i] = fp[active][idx] => i = idx
      BY <1>2, <1>3, SlotFacts, MprogAssumption DEF Packed, Items
    <3>. QED
      BY <3>1 DEF Owned
  <2>3. \A q \in Prog : ref' = q <=> q = fp[active][idx] /\ cp[idx] = NULL
    BY <1>2, <1>3, <1>4, MprogAssumption
  <2>4. ASSUME NEW q \in Prog
        PROVE  refs'[q] = (IF Owned(edited, linked, q) THEN 1 ELSE 0) + (IF ref' = q THEN 1 ELSE 0)
    <3>1. CASE q = fp[active][idx]
      <4>1. ~ Owned(edited, linked, q)
        BY <3>1, <1>6
      <4>. QED
        BY <4>1, <3>1, <2>1, <2>2, <2>3, <1>4
    <3>2. CASE q # fp[active][idx]
      <4>1. Owned(edited, linked, q) <=> Owned(fp[active], cp, q)
        BY <3>2, <1>6
      <4>. QED
        BY <4>1, <3>2, <2>1, <2>3, <1>4
    <3>. QED
      BY <3>1, <3>2
  <2>. QED
    BY <2>1, <2>4, <1>4, <1>8, <1>10 DEF Ownership
<1>12. Types'
  BY <1>2, <1>3, <1>4, <1>6, <1>8, <1>9, <1>11 DEF Types, IInv
<1>13. Phases'
  BY <1>2, <1>4 DEF Phases
<1>14. Shape'
  <2>1. \A e \in Entry : \E n \in 0 .. mprog_max : Packed(fp'[e], n)
    <3>1. count - 1 \in 0 .. mprog_max
      BY <1>6 DEF Packed
    <3>. QED
      BY <3>1, <1>6, <1>8 DEF IInv, Shape
  <2>. QED
    BY <2>1, <1>4, <1>6, <1>8, <1>10 DEF Shape
<1>15. Queried'
  BY <1>2, <1>4 DEF Queried, IInv
<1>16. Edited'
  <2>1. /\ Len(Visible) = count /\ Visible = Progs(fp[active]) /\ DOMAIN Visible = 1 .. count
    BY <1>2, PackedWalk DEF Visible
  <2>2. idx + 1 \in DOMAIN Visible
    BY <2>1, <1>3
  <2>3. Progs(fp'[new']) = RemoveAt(Visible, idx + 1)
    BY <2>1, <1>4, <1>6, <1>8
  <2>4. Edit(Visible, Progs(fp'[new']))
    BY <2>2, <2>3 DEF Edit
  <2>. QED
    BY <2>4, <1>9 DEF Edited
<1>. QED
  BY <1>9, <1>11, <1>12, <1>13, <1>14, <1>15, <1>16 DEF IInv

LEMMA ReplaceStep ==
  ASSUME IInv, NEW p \in Prog, NEW idx \in Slot, Replace(p, idx)
  PROVE  IInv'
<1>1. MayUpdate /\ ~ Exists(active, p) /\ idx \in Filled(fp[active])
  BY DEF Replace
<1>2. /\ pc = "idle" /\ revision < MaxRevision /\ ref = NULL /\ clearing = FALSE
      /\ Current = active /\ Owner = active
      /\ active \in Entry /\ fp[active] \in Items /\ cp \in Links
      /\ Packed(fp[active], count)
      /\ Peer(active) \in Entry /\ Peer(active) # active
  BY <1>1, UpdateStarts
<1>. DEFINE old == fp[active][idx]
            edited == [fp[active] EXCEPT ![idx] = p]
<1>3. /\ fp' = [fp EXCEPT ![active] = edited] /\ new' = active /\ pc' = "commit"
      /\ refs' = (IF cp[idx] = NULL THEN [refs EXCEPT ![p] = @ + 1, ![old] = @ - 1] ELSE refs)
      /\ cp' = cp /\ ref' = ref /\ revision' = revision /\ count' = count
      /\ active' = active /\ clearing' = clearing /\ query' = query /\ Watch
  BY DEF Replace
<1>4. idx \in 0 .. count - 1 /\ old \in Prog /\ count \in 0 .. mprog_max
  <2>1. Filled(fp[active]) = 0 .. count - 1
    BY <1>2, PackedWalk
  <2>2. count \in 0 .. mprog_max /\ idx \in 0 .. count - 1
    BY <2>1, <1>1, <1>2 DEF Packed
  <2>. QED
    BY <2>2, <1>2, SlotFacts DEF Packed, Items
<1>5. /\ \A i \in Slot : fp[active][i] # p
      /\ \A i \in Slot : fp[active][i] = old => i = idx
      /\ old # p
  <2>1. p \notin ToSet(Progs(fp[active])) /\ p # NULL
    BY <1>1, MprogAssumption DEF Exists
  <2>2. \A i \in Slot : fp[active][i] # p
    BY <2>1, <1>2, VisibleProgs
  <2>3. \A i \in Slot : fp[active][i] = old => i = idx
    BY <1>2, <1>4, SlotFacts, MprogAssumption DEF Packed
  <2>. QED
    BY <2>2, <2>3
<1>6. /\ edited \in Items
      /\ edited[idx] = p /\ \A i \in Slot : i # idx => edited[i] = fp[active][i]
  BY <1>2 DEF Items
<1>. HIDE DEF edited
<1>7. Packed(edited, count)
  <2>1. \A i \in Slot : edited[i] # NULL <=> i < count
    BY <1>2, <1>4, <1>6, MprogAssumption DEF Packed
  <2>2. \A i, j \in 0 .. count - 1 : edited[i] = edited[j] => i = j
    <3>. SUFFICES ASSUME NEW i \in 0 .. count - 1, NEW j \in 0 .. count - 1, edited[i] = edited[j]
                  PROVE  i = j
      OBVIOUS
    <3>1. i \in Slot /\ j \in Slot
      BY <1>4, SlotFacts
    <3>. QED
      BY <3>1, <1>2, <1>5, <1>6 DEF Packed
  <2>. QED
    BY <2>1, <2>2, <1>4 DEF Packed
<1>8. /\ fp' \in [Entry -> Items] /\ fp'[active] = edited
      /\ \A e \in Entry : e # active => fp'[e] = fp[e]
  BY <1>2, <1>3, <1>6 DEF IInv, Types
<1>9. rd' \in [Reader -> Walks] /\ Walking'
  <2>. DEFINE V == ToSet(Progs(fp'[active']))
  <2>1. V = ToSet(Progs(edited))
    BY <1>3, <1>8
  <2>2. /\ V \subseteq Prog /\ p \in V
        /\ \A q \in V : \E i \in Slot : edited[i] = q
    <3>1. edited[idx] # NULL
      BY <1>6, MprogAssumption
    <3>. QED
      BY <3>1, <2>1, <1>6, <1>7, VisibleProgs
  <2>. HIDE DEF V
  <2>3. old \notin V
    BY <2>2, <1>5, <1>6
  <2>4. ASSUME NEW i \in Slot
        PROVE  /\ fp'[active][i] = NULL <=> fp[active][i] = NULL
               /\ fp'[active][i] = fp[active][i] \/ fp'[active][i] \in V
               /\ fp[active][i] \in V => fp'[active][i] = fp[active][i]
    <3>1. CASE i = idx
      BY <3>1, <2>2, <2>3, <1>4, <1>6, <1>8, MprogAssumption
    <3>2. CASE i # idx
      BY <3>2, <1>6, <1>8
    <3>. QED
      BY <3>1, <3>2
  <2>5. \A r \in Reader : rd[r].at # -1 => rd[r].entry = active
    BY <1>2 DEF IInv, Walking, WalkOK
  <2>6. \A r \in Reader : rd[r].at # -1 =>
          /\ pc' # "sync" => rd[r].entry = active'
          /\ \A i \in Slot :
               /\ fp'[rd[r].entry][i] = NULL <=> fp[rd[r].entry][i] = NULL
               /\ fp'[rd[r].entry][i] = fp[rd[r].entry][i] \/ fp'[rd[r].entry][i] \in V
               /\ fp[rd[r].entry][i] \in V => fp'[rd[r].entry][i] = fp[rd[r].entry][i]
    BY <2>4, <2>5, <1>3
  <2>7. V = ToSet(Progs(fp'[active'])) /\ Types /\ Walking /\ Watch
    BY <1>3 DEF V, IInv
  <2>. QED
    BY <2>2, <2>6, <2>7, WatchKeeps
<1>10. Current' = active /\ Owner' = active
  BY <1>2, <1>3 DEF Current, Owner
<1>11. refs' \in [Prog -> Nat] /\ Ownership'
  <2>1. refs \in [Prog -> Nat] /\ \A q \in Prog : refs[q] = (IF Owned(fp[active], cp, q) THEN 1 ELSE 0)
    BY <1>2, MprogAssumption DEF IInv, Types, Ownership
  <2>2. /\ ~ Owned(fp[active], cp, p)
        /\ Owned(fp[active], cp, old) <=> cp[idx] = NULL
    BY <1>5 DEF Owned
  <2>3. /\ Owned(edited, cp, p) <=> cp[idx] = NULL
        /\ ~ Owned(edited, cp, old)
        /\ \A q \in Prog : q # p /\ q # old => (Owned(edited, cp, q) <=> Owned(fp[active], cp, q))
    BY <1>5, <1>6 DEF Owned
  <2>4. \A q \in Prog : ref' # q
    BY <1>2, <1>3, MprogAssumption
  <2>5. CASE cp[idx] = NULL
    <3>1. /\ refs' \in [Prog -> Int] /\ refs'[p] = refs[p] + 1 /\ refs'[old] = refs[old] - 1
          /\ \A q \in Prog : q # p /\ q # old => refs'[q] = refs[q]
      BY <2>1, <2>5, <1>3, <1>4, <1>5
    <3>2. \A q \in Prog : refs'[q] = (IF Owned(edited, cp, q) THEN 1 ELSE 0)
      BY <3>1, <2>1, <2>2, <2>3, <2>5, <1>4, <1>5
    <3>3. refs' \in [Prog -> Nat]
      BY <3>1, <3>2
    <3>. QED
      BY <3>2, <3>3, <2>4, <1>3, <1>8, <1>10 DEF Ownership
  <2>6. CASE cp[idx] # NULL
    <3>1. refs' = refs
      BY <2>6, <1>3
    <3>2. \A q \in Prog : refs'[q] = (IF Owned(edited, cp, q) THEN 1 ELSE 0)
      BY <3>1, <2>1, <2>2, <2>3, <2>6, <1>4
    <3>. QED
      BY <3>1, <3>2, <2>1, <2>4, <1>3, <1>8, <1>10 DEF Ownership
  <2>. QED
    BY <2>5, <2>6
<1>12. Types'
  BY <1>2, <1>3, <1>8, <1>9, <1>11 DEF Types, IInv
<1>13. Phases'
  BY <1>2, <1>3 DEF Phases
<1>14. Shape'
  <2>1. \A e \in Entry : \E n \in 0 .. mprog_max : Packed(fp'[e], n)
    BY <1>4, <1>7, <1>8 DEF IInv, Shape
  <2>. QED
    BY <2>1, <1>3, <1>7, <1>8, <1>10 DEF Shape
<1>15. Queried' /\ Edited'
  BY <1>2, <1>3 DEF Queried, Edited, IInv
<1>. QED
  BY <1>9, <1>11, <1>12, <1>13, <1>14, <1>15 DEF IInv

LEMMA ClearStep ==
  ASSUME IInv, ClearAll
  PROVE  IInv'
<1>1. MayUpdate
  BY DEF ClearAll
<1>2. /\ pc = "idle" /\ revision < MaxRevision /\ ref = NULL /\ clearing = FALSE
      /\ Current = active /\ Owner = active
      /\ active \in Entry /\ fp[active] \in Items /\ cp \in Links
      /\ Packed(fp[active], count)
      /\ Peer(active) \in Entry /\ Peer(active) # active
  BY <1>1, UpdateStarts
<1>. DEFINE edited == [i \in Slot |-> NULL]
<1>3. /\ fp' = [fp EXCEPT ![Peer(active)] = edited] /\ new' = Peer(active) /\ pc' = "publish"
      /\ count' = 0 /\ clearing' = TRUE
      /\ cp' = cp /\ ref' = ref /\ revision' = revision /\ active' = active /\ refs' = refs
      /\ query' = query /\ Watch
  BY DEF ClearAll, EditPeer
<1>4. edited \in Items /\ Packed(edited, 0)
  BY SlotFacts DEF Packed, Items
<1>. HIDE DEF edited
<1>5. /\ fp' \in [Entry -> Items] /\ fp'[Peer(active)] = edited /\ fp'[active] = fp[active]
      /\ \A e \in Entry : e # Peer(active) => fp'[e] = fp[e]
  BY <1>2, <1>3, <1>4 DEF IInv, Types
<1>6. rd' \in [Reader -> Walks] /\ Walking' /\ Visible' = Visible
  BY <1>2, <1>3, PeerEditKeeps
<1>7. Current' = Peer(active) /\ Owner' = active
  BY <1>2, <1>3 DEF Current, Owner
<1>8. Ownership'
  BY <1>2, <1>3, <1>5, <1>7 DEF Ownership, IInv
<1>9. Types'
  BY <1>2, <1>3, <1>5, <1>6 DEF Types, IInv
<1>10. Phases'
  BY <1>2, <1>3 DEF Phases
<1>11. Shape'
  <2>1. \A e \in Entry : \E n \in 0 .. mprog_max : Packed(fp'[e], n)
    BY <1>4, <1>5, SlotFacts DEF IInv, Shape
  <2>. QED
    BY <2>1, <1>3, <1>4, <1>5, <1>7 DEF Shape
<1>12. Queried'
  BY <1>2, <1>3 DEF Queried, IInv
<1>13. Edited'
  <2>1. Progs(fp'[new']) \in Seq(Prog) /\ Len(Progs(fp'[new'])) = 0
    BY <1>3, <1>4, <1>5, PackedWalk
  <2>2. Progs(fp'[new']) = << >>
    BY <2>1, EmptySeq
  <2>. QED
    BY <2>2 DEF Edited, Edit
<1>. QED
  BY <1>6, <1>8, <1>9, <1>10, <1>11, <1>12, <1>13 DEF IInv

LEMMA PublishStep ==
  ASSUME IInv, Publish
  PROVE  IInv'
<1>1. /\ pc = "publish" /\ active' = new /\ new' = active /\ pc' = "sync"
      /\ fp' = fp /\ cp' = cp /\ ref' = ref /\ revision' = revision /\ count' = count
      /\ clearing' = clearing /\ refs' = refs /\ query' = query /\ Watch
  BY DEF Publish, bundle
<1>2. /\ active \in Entry /\ new = Peer(active) /\ new \in Entry /\ fp \in [Entry -> Items]
      /\ active = Peer(new) /\ revision < MaxRevision
  BY <1>1, PeerFacts DEF IInv, Types, Phases
<1>3. rd' \in [Reader -> Walks] /\ Walking'
  <2>1. PICK n \in 0 .. mprog_max : Packed(fp[new], n)
    BY <1>2 DEF IInv, Shape
  <2>2. ToSet(Progs(fp'[active'])) \subseteq Prog
    BY <2>1, <1>1, <1>2, VisibleProgs
  <2>. QED
    BY <2>2, <1>1, WatchKeeps DEF IInv
<1>4. Current = new /\ Current' = new
  BY <1>1 DEF Current
<1>5. Owner' = Owner
  BY <1>1 DEF Owner, Current
<1>6. Types'
  BY <1>1, <1>3 DEF IInv, Types
<1>7. Phases'
  BY <1>1, <1>2 DEF IInv, Phases
<1>8. Shape'
  BY <1>1, <1>4 DEF IInv, Shape
<1>9. Ownership'
  BY <1>1, <1>5 DEF IInv, Ownership
<1>10. Queried' /\ Edited'
  BY <1>1 DEF IInv, Queried, Edited
<1>. QED
  BY <1>3, <1>6, <1>7, <1>8, <1>9, <1>10 DEF IInv

LEMMA SyncStep ==
  ASSUME IInv, Sync
  PROVE  IInv'
<1>1. /\ pc = "sync" /\ pc' = (IF clearing THEN "release" ELSE "commit")
      /\ \A r \in Reader : rd[r].at = -1 \/ rd[r].entry # new
      /\ fp' = fp /\ cp' = cp /\ ref' = ref /\ revision' = revision /\ count' = count
      /\ active' = active /\ new' = new /\ clearing' = clearing /\ refs' = refs
      /\ query' = query /\ rd' = rd
  BY DEF Sync, bundle
<1>2. /\ active \in Entry /\ new = Peer(active) /\ clearing \in BOOLEAN /\ rd \in [Reader -> Walks]
      /\ revision < MaxRevision
  BY <1>1 DEF IInv, Types, Phases
<1>3. (clearing = TRUE /\ pc' = "release") \/ (clearing = FALSE /\ pc' = "commit")
  <2>1. clearing = TRUE \/ clearing = FALSE
    BY <1>2, Zenon
  <2>2. clearing = TRUE => pc' = "release"
    BY <1>1, Zenon
  <2>3. clearing = FALSE => pc' = "commit"
    BY <1>1, Zenon
  <2>. QED
    BY <2>1, <2>2, <2>3
<1>4. Walking'
  <2>. SUFFICES ASSUME NEW r \in Reader, rd[r].at # -1 PROVE WalkOK(rd[r])'
    BY <1>1 DEF Walking
  <2>1. rd[r].entry = active
    BY <1>1, <1>2 DEF Walks, Entry, Peer
  <2>2. WalkOK(rd[r])
    BY DEF IInv, Walking
  <2>. QED
    BY <2>1, <2>2, <1>1 DEF WalkOK
<1>5. Current' = Current /\ Owner' = Owner /\ Visible' = Visible
  BY <1>1, <1>3 DEF Current, Owner, Visible
<1>6. Types'
  BY <1>1, <1>3 DEF IInv, Types
<1>7. Phases'
  BY <1>1, <1>2, <1>3 DEF IInv, Phases
<1>8. Shape'
  BY <1>1, <1>5 DEF IInv, Shape
<1>9. Ownership'
  BY <1>1, <1>5 DEF IInv, Ownership
<1>10. Queried' /\ Edited'
  BY <1>1, <1>3 DEF IInv, Queried, Edited
<1>. QED
  BY <1>4, <1>6, <1>7, <1>8, <1>9, <1>10 DEF IInv

\* A step that moves no program: the walks and the list are as they were.
LEMMA QuietWalks ==
  ASSUME IInv, pc # "sync", fp' = fp, active' = active, rd' = rd
  PROVE  Walking' /\ Visible' = Visible
<1>1. ASSUME NEW r \in Reader, rd[r].at # -1 PROVE WalkOK(rd[r])'
  BY <1>1 DEF IInv, Walking, WalkOK
<1>. QED
  BY <1>1 DEF Walking, Visible

LEMMA CommitStep ==
  ASSUME IInv, Commit
  PROVE  IInv'
<1>1. /\ pc = "commit" /\ pc' = "idle" /\ revision' = revision + 1 /\ ref' = NULL
      /\ refs' = (IF ref = NULL THEN refs ELSE [refs EXCEPT ![ref] = @ - 1])
      /\ fp' = fp /\ cp' = cp /\ count' = count /\ active' = active /\ new' = new
      /\ clearing' = clearing /\ query' = query /\ rd' = rd
  BY DEF Commit, CompleteRelease
<1>2. revision < MaxRevision /\ revision \in 1 .. MaxRevision /\ clearing # TRUE
  BY <1>1 DEF IInv, Types, Phases
<1>3. Walking' /\ Visible' = Visible
  BY <1>1, QuietWalks
<1>4. Current' = active /\ Current = active /\ Owner' = active /\ Owner = active
  BY <1>1, <1>2 DEF Current, Owner
<1>5. refs' \in [Prog -> Nat] /\ Ownership'
  <2>1. /\ refs \in [Prog -> Nat] /\ ref \in Prog \cup {NULL}
        /\ \A q \in Prog : refs[q] = (IF Owned(fp[active], cp, q) THEN 1 ELSE 0)
                                     + (IF ref = q THEN 1 ELSE 0)
    BY <1>4 DEF IInv, Types, Ownership
  <2>2. \A q \in Prog : ref' # q
    BY <1>1, MprogAssumption
  <2>3. CASE ref = NULL
    BY <2>1, <2>2, <2>3, <1>1, <1>4 DEF Ownership
  <2>4. CASE ref \in Prog
    <3>1. ref # NULL
      BY <2>4, MprogAssumption
    <3>2. /\ refs' \in [Prog -> Int] /\ refs'[ref] = refs[ref] - 1
          /\ \A q \in Prog : q # ref => refs'[q] = refs[q]
      BY <3>1, <2>1, <2>4, <1>1
    <3>3. \A q \in Prog : refs'[q] = (IF Owned(fp[active], cp, q) THEN 1 ELSE 0)
      BY <3>2, <2>1, <2>4
    <3>4. refs' \in [Prog -> Nat]
      BY <3>2, <3>3
    <3>. QED
      BY <3>3, <3>4, <2>2, <1>1, <1>4 DEF Ownership
  <2>. QED
    BY <2>1, <2>3, <2>4
<1>6. Types'
  <2>1. revision' \in 1 .. MaxRevision
    BY <1>1, <1>2, MprogAssumption
  <2>. QED
    BY <2>1, <1>1, <1>5 DEF IInv, Types
<1>7. Phases'
  BY <1>1, <1>2 DEF Phases
<1>8. Shape'
  BY <1>1, <1>4 DEF IInv, Shape
<1>9. Queried' /\ Edited'
  BY <1>1, <1>2 DEF IInv, Queried, Edited
<1>. QED
  BY <1>3, <1>5, <1>6, <1>7, <1>8, <1>9 DEF IInv

LEMMA ReleaseStep ==
  ASSUME IInv, Release
  PROVE  IInv'
<1>1. /\ pc = "release" /\ pc' = "down"
      /\ refs' = [p \in Prog |-> refs[p] -
                    Cardinality({i \in Filled(fp[new]) : fp[new][i] = p /\ cp[i] = NULL})]
      /\ fp' = fp /\ cp' = cp /\ ref' = ref /\ revision' = revision /\ count' = count
      /\ active' = active /\ new' = new /\ clearing' = clearing
      /\ query' = query /\ rd' = rd
  BY DEF Release, bundle
<1>2. clearing = TRUE /\ ref = NULL /\ count = 0
  BY <1>1 DEF IInv, Phases
<1>3. Walking' /\ Visible' = Visible
  BY <1>1, QuietWalks
<1>4. Current' = active /\ Current = active /\ Owner' = active /\ Owner = new
  BY <1>1, <1>2 DEF Current, Owner
<1>5. refs' \in [Prog -> Nat] /\ Ownership'
  <2>1. /\ refs \in [Prog -> Nat] /\ fp[new] \in Items /\ cp \in Links
        /\ \A q \in Prog : refs[q] = (IF Owned(fp[new], cp, q) THEN 1 ELSE 0)
    BY <1>2, <1>4, MprogAssumption DEF IInv, Types, Ownership
  <2>2. PICK n \in 0 .. mprog_max : Packed(fp[new], n)
    BY DEF IInv, Types, Shape
  <2>3. \A q \in Prog : Cardinality({i \in Filled(fp[new]) : fp[new][i] = q /\ cp[i] = NULL})
                          = IF Owned(fp[new], cp, q) THEN 1 ELSE 0
    BY <2>1, <2>2, OwnedCount
  <2>4. \A q \in Prog : refs'[q] = 0
    BY <2>1, <2>3, <1>1
  <2>5. \A q \in Prog : ~ Owned(fp[active], cp, q) /\ ref' # q
    <3>1. Packed(fp[active], 0)
      BY <1>2, <1>4 DEF IInv, Shape
    <3>2. \A i \in Slot : fp[active][i] = NULL
      BY <3>1, SlotFacts DEF Packed
    <3>. QED
      BY <3>2, <1>1, <1>2, MprogAssumption DEF Owned
  <2>6. refs' \in [Prog -> Nat]
    BY <2>4, <1>1
  <2>. QED
    BY <2>4, <2>5, <2>6, <1>1, <1>4 DEF Ownership
<1>6. Types'
  BY <1>1, <1>5 DEF IInv, Types
<1>7. Phases'
  BY <1>1, <1>2 DEF Phases
<1>8. Shape'
  BY <1>1, <1>4 DEF IInv, Shape
<1>9. Queried' /\ Edited'
  BY <1>1 DEF IInv, Queried, Edited
<1>. QED
  BY <1>3, <1>5, <1>6, <1>7, <1>8, <1>9 DEF IInv

LEMMA QueryStep ==
  ASSUME IInv, Query
  PROVE  IInv'
<1>1. /\ pc = "idle" /\ query' = [revision |-> revision, list |-> Visible]
      /\ UNCHANGED <<fp, cp, ref, revision, count, active, new, pc, clearing, refs, rd>>
  BY DEF Query, bundle
<1>2. Walking' /\ Visible' = Visible
  BY <1>1, QuietWalks
<1>3. Current' = Current /\ Owner' = Owner
  BY <1>1 DEF Current, Owner
<1>4. Queried'
  <2>1. revision \in 1 .. revision
    BY DEF IInv, Types
  <2>. QED
    BY <2>1, <1>1, <1>2 DEF Queried
<1>5. Types' /\ Phases'
  BY <1>1 DEF IInv, Types, Phases
<1>6. Shape' /\ Ownership' /\ Edited'
  BY <1>1, <1>3 DEF IInv, Shape, Ownership, Edited
<1>. QED
  BY <1>2, <1>4, <1>5, <1>6 DEF IInv

\* A step of a reader leaves the bundle alone.
LEMMA ReaderStep ==
  ASSUME IInv, UNCHANGED <<bundle, active, new, pc, clearing, refs, query>>,
         rd' \in [Reader -> Walks]
  PROVE  Types' /\ Phases' /\ Shape' /\ Ownership' /\ Queried' /\ Edited'
<1>1. UNCHANGED <<fp, cp, ref, revision, count, active, new, pc, clearing, refs, query>>
  BY DEF bundle
<1>2. Current' = Current /\ Owner' = Owner /\ Visible' = Visible
  BY <1>1 DEF Current, Owner, Visible
<1>3. Types' /\ Phases'
  BY <1>1 DEF IInv, Types, Phases
<1>. QED
  BY <1>1, <1>2, <1>3 DEF IInv, Shape, Ownership, Queried, Edited

LEMMA EnterStep ==
  ASSUME IInv, NEW r \in Reader, Enter(r)
  PROVE  IInv'
<1>. DEFINE w == [at |-> 0, entry |-> active, seen |-> << >>,
                  stay |-> ToSet(Visible), was |-> ToSet(Visible)]
<1>1. rd' = [rd EXCEPT ![r] = w] /\ UNCHANGED <<bundle, active, new, pc, clearing, refs, query>>
  BY DEF Enter
<1>2. active \in Entry /\ fp[active] \in Items /\ rd \in [Reader -> Walks]
  BY DEF IInv, Types
<1>3. PICK n \in 0 .. mprog_max : Packed(fp[active], n)
  BY <1>2 DEF IInv, Shape
<1>4. /\ ToSet(Visible) \subseteq Prog
      /\ \A i \in Slot : fp[active][i] # NULL => fp[active][i] \in ToSet(Visible)
      /\ \A p \in ToSet(Visible) : \E i \in Slot : fp[active][i] = p
  BY <1>2, <1>3, VisibleProgs DEF Visible
<1>5. w \in Walks
  BY <1>2, <1>4, SlotFacts, EmptySeq DEF Walks
<1>6. rd' \in [Reader -> Walks] /\ rd'[r] = w /\ \A s \in Reader : s # r => rd'[s] = rd[s]
  BY <1>1, <1>2, <1>5
<1>7. fp' = fp /\ active' = active /\ pc' = pc
  BY <1>1 DEF bundle
<1>8. /\ rd'[r].at = 0 /\ rd'[r].entry = active /\ rd'[r].seen = << >>
      /\ rd'[r].stay = ToSet(Visible) /\ rd'[r].was = ToSet(Visible)
  BY <1>6
<1>. HIDE DEF w
<1>9. ASSUME NEW s \in Reader, rd'[s].at # -1 PROVE WalkOK(rd[s])'
  <2>1. CASE s = r
    <3>1. Len(<< >>) = 0 /\ \A j : j \notin 1 .. 0
      OBVIOUS
    <3>2. \A i \in Slot : ~ (i < 0)
      BY SlotFacts
    <3>3. pc' # "sync" => rd'[s].entry = active'
      BY <2>1, <1>7, <1>8
    <3>4. Len(rd'[s].seen) = rd'[s].at
      BY <3>1, <2>1, <1>8
    <3>5. /\ \A i \in Slot : i < rd'[s].at => fp'[rd'[s].entry][i] # NULL
          /\ \A i \in Slot : fp'[rd'[s].entry][i] # NULL => fp'[rd'[s].entry][i] \in rd'[s].was
      BY <3>2, <2>1, <1>4, <1>7, <1>8
    <3>6. /\ \A j \in 1 .. rd'[s].at : rd'[s].seen[j] \in rd'[s].was
          /\ \A p \in rd'[s].stay : \E i \in Slot :
               fp'[rd'[s].entry][i] = p /\ \A j \in 1 .. rd'[s].at : rd'[s].seen[j] = p <=> j = i + 1
      BY <3>1, <2>1, <1>4, <1>7, <1>8
    <3>. QED
      BY <3>3, <3>4, <3>5, <3>6 DEF WalkOK
  <2>2. CASE s # r
    <3>1. rd'[s] = rd[s] /\ WalkOK(rd[s])
      BY <2>2, <1>6, <1>9 DEF IInv, Walking
    <3>. QED
      BY <3>1, <1>7 DEF WalkOK
  <2>. QED
    BY <2>1, <2>2
<1>. QED
  BY <1>1, <1>6, <1>9, ReaderStep DEF IInv, Walking

LEMMA WalkStep ==
  ASSUME IInv, NEW r \in Reader, Walk(r)
  PROVE  IInv'
<1>1. /\ rd[r].at # -1 /\ UNCHANGED <<bundle, active, new, pc, clearing, refs, query>>
      /\ rd' = [rd EXCEPT ![r] = IF Item(r) = NULL THEN Idle
                                 ELSE [rd[r] EXCEPT !.at = @ + 1, !.seen = Append(@, Item(r))]]
  BY DEF Walk
<1>2. /\ rd \in [Reader -> Walks] /\ rd[r] \in Walks /\ WalkOK(rd[r])
      /\ fp \in [Entry -> Items] /\ rd[r].entry \in Entry /\ rd[r].at \in Slot
      /\ fp[rd[r].entry] \in Items
  BY <1>1 DEF IInv, Types, Walking, Walks
<1>3. fp' = fp /\ active' = active /\ pc' = pc
  BY <1>1 DEF bundle
<1>4. CASE Item(r) = NULL
  <2>1. Idle \in Walks /\ Idle.at = -1
    BY EmptySeq DEF Idle, Walks, Entry
  <2>2. rd' \in [Reader -> Walks] /\ rd'[r] = Idle /\ \A s \in Reader : s # r => rd'[s] = rd[s]
    BY <2>1, <1>1, <1>2, <1>4
  <2>3. ASSUME NEW s \in Reader, rd'[s].at # -1 PROVE WalkOK(rd[s])'
    <3>1. s # r /\ rd'[s] = rd[s]
      BY <2>1, <2>2, <2>3
    <3>2. WalkOK(rd[s])
      BY <3>1, <2>3 DEF IInv, Walking
    <3>. QED
      BY <3>1, <3>2, <1>3 DEF WalkOK
  <2>. QED
    BY <2>2, <2>3, <1>1, ReaderStep DEF IInv, Walking
<1>5. CASE Item(r) # NULL
  <2>. DEFINE e == rd[r].entry
              at == rd[r].at
              seen == rd[r].seen
              item == fp[e][at]
  <2>1. item = Item(r) /\ item \in Prog /\ at \in Slot /\ at \in Nat /\ Len(seen) = at /\ seen \in Seq(Prog)
    BY <1>2, <1>5, SlotFacts DEF Item, WalkOK, Walks, Items
  <2>2. at + 1 \in Slot
    <3>1. PICK n \in 0 .. mprog_max : Packed(fp[e], n)
      BY <1>2 DEF IInv, Shape
    <3>2. at < n
      BY <3>1, <2>1, <1>5 DEF Packed
    <3>. QED
      BY <3>1, <3>2, <2>1, SlotFacts
  <2>3. rd'[r] = [rd[r] EXCEPT !.at = at + 1, !.seen = Append(seen, item)]
    <3>. DEFINE next == [rd[r] EXCEPT !.at = rd[r].at + 1, !.seen = Append(rd[r].seen, Item(r))]
    <3>1. rd' = [rd EXCEPT ![r] = next]
      BY <1>1, <1>5, Zenon
    <3>. HIDE DEF next
    <3>2. rd'[r] = next
      BY <3>1, <1>2
    <3>. QED
      BY <3>2, <2>1 DEF next
  <2>4. Append(seen, item) \in Seq(Prog)
    BY <2>1
  <2>5. /\ rd'[r] \in Walks /\ rd'[r].at = at + 1 /\ rd'[r].entry = e
        /\ rd'[r].seen = Append(seen, item)
        /\ rd'[r].stay = rd[r].stay /\ rd'[r].was = rd[r].was
    BY <2>2, <2>3, <2>4, <1>2 DEF Walks
  <2>6. rd' \in [Reader -> Walks] /\ \A s \in Reader : s # r => rd'[s] = rd[s]
    BY <2>5, <1>1, <1>2
  <2>7. /\ Len(Append(seen, item)) = at + 1
        /\ Append(seen, item)[at + 1] = item
        /\ \A j \in 1 .. at : Append(seen, item)[j] = seen[j]
    BY <2>1
  <2>8. /\ pc # "sync" => e = active
        /\ \A i \in Slot : i < at => fp[e][i] # NULL
        /\ \A i \in Slot : fp[e][i] # NULL => fp[e][i] \in rd[r].was
        /\ \A j \in 1 .. at : seen[j] \in rd[r].was
        /\ \A p \in rd[r].stay : \E i \in Slot :
             fp[e][i] = p /\ \A j \in 1 .. at : seen[j] = p <=> j = i + 1
    BY <1>2 DEF WalkOK
  <2>9. item # NULL /\ \A i \in Slot : i < at + 1 => fp[e][i] # NULL
    BY <2>1, <2>8, <1>5, SlotFacts
  <2>10. \A j \in 1 .. at + 1 : j \in 1 .. at \/ j = at + 1
    BY <2>1
  <2>11. \A j \in 1 .. at + 1 : Append(seen, item)[j] \in rd[r].was
    BY <2>1, <2>7, <2>8, <2>9, <2>10
  <2>12. ASSUME NEW p \in rd[r].stay
         PROVE  \E i \in Slot : /\ fp[e][i] = p
                                /\ \A j \in 1 .. at + 1 : Append(seen, item)[j] = p <=> j = i + 1
    <3>1. PICK i \in Slot : fp[e][i] = p /\ \A j \in 1 .. at : seen[j] = p <=> j = i + 1
      BY <2>8
    <3>2. item = p <=> at = i
      <4>1. PICK n \in 0 .. mprog_max : Packed(fp[e], n)
        BY <1>2 DEF IInv, Shape
      <4>. QED
        BY <4>1, <3>1, <2>1, <2>9, SlotFacts DEF Packed
    <3>3. \A j \in 1 .. at + 1 : Append(seen, item)[j] = p <=> j = i + 1
      BY <3>1, <3>2, <2>1, <2>7, <2>10, SlotFacts
    <3>. QED
      BY <3>1, <3>3
  <2>13. ASSUME NEW s \in Reader, rd'[s].at # -1 PROVE WalkOK(rd[s])'
    <3>1. CASE s = r
      <4>. HIDE DEF e, at, seen, item
      <4>. QED
        BY <3>1, <2>5, <2>7, <2>8, <2>9, <2>11, <2>12, <1>3 DEF WalkOK
    <3>2. CASE s # r
      <4>1. rd'[s] = rd[s] /\ WalkOK(rd[s])
        BY <3>2, <2>6, <2>13 DEF IInv, Walking
      <4>. QED
        BY <4>1, <1>3 DEF WalkOK
    <3>. QED
      BY <3>1, <3>2
  <2>. QED
    BY <2>6, <2>13, <1>1, ReaderStep DEF IInv, Walking
<1>. QED
  BY <1>4, <1>5

LEMMA InitIInv == Init => IInv
<1>. SUFFICES ASSUME Init PROVE IInv
  OBVIOUS
<1>1. /\ fp = [e \in Entry |-> [i \in Slot |-> NULL]] /\ cp = [i \in Slot |-> NULL]
      /\ ref = NULL /\ revision = 1 /\ count = 0 /\ active = "a" /\ new = "a" /\ pc = "idle"
      /\ clearing = FALSE /\ refs = [p \in Prog |-> 0]
      /\ query = [revision |-> 1, list |-> << >>] /\ rd = [r \in Reader |-> Idle]
  BY DEF Init
<1>2. Idle \in Walks /\ Idle.at = -1
  BY EmptySeq DEF Idle, Walks, Entry
<1>3. \A e \in Entry : fp[e] \in Items /\ \A i \in Slot : fp[e][i] = NULL
  BY <1>1 DEF Items
<1>4. \A e \in Entry : Packed(fp[e], 0)
  BY <1>3, SlotFacts DEF Packed
<1>5. active \in Entry /\ Current = "a" /\ Owner = "a" /\ "a" \in Entry
  BY <1>1 DEF Current, Owner, Entry
<1>6. Types
  <2>1. fp \in [Entry -> Items]
    BY <1>1, <1>3
  <2>2. cp \in Links /\ refs \in [Prog -> Nat] /\ rd \in [Reader -> Walks]
    BY <1>1, <1>2 DEF Links
  <2>3. revision \in 1 .. MaxRevision
    BY <1>1, MprogAssumption
  <2>4. clearing \in BOOLEAN
    BY <1>1
  <2>. QED
    BY <2>1, <2>2, <2>3, <2>4, <1>1, <1>5 DEF Types
<1>7. Phases
  BY <1>1 DEF Phases
<1>8. Shape
  <2>1. 0 \in 0 .. mprog_max
    BY SlotFacts
  <2>. QED
    BY <2>1, <1>1, <1>4, <1>5 DEF Shape
<1>9. Ownership
  BY <1>1, <1>3, <1>5, MprogAssumption DEF Ownership, Owned
<1>10. Queried
  <2>1. Len(Visible) = 0 /\ Visible \in Seq(Prog)
    BY <1>3, <1>4, <1>5, PackedWalk DEF Visible
  <2>. QED
    BY <2>1, <1>1, EmptySeq DEF Queried
<1>11. Walking /\ Edited
  BY <1>1, <1>2 DEF Walking, Edited
<1>. QED
  BY <1>6, <1>7, <1>8, <1>9, <1>10, <1>11 DEF IInv

\* Every step of the lock holder or of a reader keeps the invariant.
LEMMA NextIInv == IInv /\ [Next]_vars => IInv'
<1>. SUFFICES ASSUME IInv, [Next]_vars PROVE IInv'
  OBVIOUS
<1>1. CASE UNCHANGED vars
  <2>1. UNCHANGED <<fp, cp, ref, revision, count, active, new, pc, clearing, refs, query, rd>>
    BY <1>1 DEF vars, bundle
  <2>2. Current' = Current /\ Owner' = Owner /\ Visible' = Visible
    BY <2>1 DEF Current, Owner, Visible
  <2>3. \A r \in Reader : rd'[r].at # -1 => WalkOK(rd[r])'
    BY <2>1 DEF IInv, Walking, WalkOK
  <2>4. Types' /\ Phases'
    BY <2>1 DEF IInv, Types, Phases
  <2>5. Shape' /\ Ownership' /\ Queried' /\ Edited'
    BY <2>1, <2>2 DEF IInv, Shape, Ownership, Queried, Edited
  <2>. QED
    BY <2>3, <2>4, <2>5 DEF IInv, Walking
<1>2. CASE Inserts
  BY <1>2, InsertStep DEF Inserts
<1>3. CASE Replaces
  BY <1>3, ReplaceStep DEF Replaces
<1>4. CASE Deletes
  BY <1>4, DeleteStep DEF Deletes
<1>5. CASE ClearAll
  BY <1>5, ClearStep
<1>6. CASE Publish
  BY <1>6, PublishStep
<1>7. CASE Sync
  BY <1>7, SyncStep
<1>8. CASE Commit
  BY <1>8, CommitStep
<1>9. CASE Release
  BY <1>9, ReleaseStep
<1>10. CASE Query
  BY <1>10, QueryStep
<1>11. CASE \E r \in Reader : Enter(r)
  BY <1>11, EnterStep
<1>12. CASE \E r \in Reader : Walk(r)
  BY <1>12, WalkStep
<1>. QED
  BY <1>1, <1>2, <1>3, <1>4, <1>5, <1>6, <1>7, <1>8, <1>9, <1>10, <1>11, <1>12 DEF Next

LEMMA Invariance == Spec => []IInv
  BY InitIInv, NextIInv, PTL DEF Spec
-----------------------------------------------------------------------------
(* The theorems *)

LEMMA BundleFollows == IInv => BundleSound
<1>. SUFFICES ASSUME IInv PROVE BundleSound
  OBVIOUS
<1>1. Current \in Entry /\ Owner \in Entry
  BY DEF IInv, Types, Current, Owner
<1>2. fp[Current] \in Items /\ fp[Owner] \in Items /\ cp \in Links
  BY <1>1 DEF IInv, Types
<1>3. Packed(fp[Current], count)
  BY DEF IInv, Shape
<1>4. CountExact
  <2>1. count = Len(Progs(fp[Current])) /\ IsInjective(Progs(fp[Current]))
    BY <1>2, <1>3, PackedWalk
  <2>2. count <= mprog_max /\ \A i \in Slot : i >= count => fp[Current][i] = NULL
    BY <1>3, SlotFacts DEF Packed
  <2>. QED
    BY <2>1, <2>2 DEF CountExact
<1>5. TypeOK
  <2>1. count \in 0 .. MPROG_MAX
    BY <1>3, MprogAssumption DEF Packed, mprog_max
  <2>2. \A r \in Reader : rd[r].at \in Slot \cup {-1} /\ rd[r].entry \in Entry
    BY DEF IInv, Types, Walks
  <2>. QED
    BY <2>1, <2>2 DEF TypeOK, IInv, Types, Items, Links
<1>6. RefsExact
  <2>1. PICK n \in 0 .. mprog_max : Packed(fp[Owner], n)
    BY <1>1 DEF IInv, Shape
  <2>2. \A p \in Prog : Cardinality({i \in Filled(fp[Owner]) : fp[Owner][i] = p /\ cp[i] = NULL})
                           = IF Owned(fp[Owner], cp, p) THEN 1 ELSE 0
    BY <2>1, <1>2, OwnedCount
  <2>3. \A p \in Prog :
          refs[p] = Cardinality({i \in Filled(fp[Owner]) : fp[Owner][i] = p /\ cp[i] = NULL})
                    + (IF ref = p THEN 1 ELSE 0)
    BY <2>2 DEF IInv, Ownership
  <2>4. Owner = IF clearing /\ pc = "publish" THEN active
                ELSE IF clearing /\ pc \in {"sync", "release"} THEN new ELSE Current
    <3>1. clearing = TRUE \/ clearing = FALSE
      BY Zenon DEF IInv, Types
    <3>2. CASE clearing = TRUE
      BY <3>2 DEF Owner
    <3>3. CASE clearing = FALSE
      BY <3>3 DEF Owner
    <3>. QED
      BY <3>1, <3>2, <3>3
  <2>. QED
    BY <2>3, <2>4, Zenon DEF RefsExact
<1>7. NoReleasePending /\ RevisionIdentifiesList
  BY DEF IInv, Phases, Queried, NoReleasePending, RevisionIdentifiesList
<1>. QED
  BY <1>4, <1>5, <1>6, <1>7 DEF BundleSound

\* bpf_mprog_insert(), bpf_mprog_delete(), bpf_mprog_write(), bpf_mprog_clear_all(),
\* bpf_mprog_commit() and the callers' release walk, for any number of programs, links,
\* slots and readers: bundle->count is the length of the current list, every program
\* the attachment point owns a reference on is attached without a link or waits in
\* bundle->ref and there is exactly one such reference, no update starts with a
\* release pending, and an unchanged revision means an unchanged list.
THEOREM BundleIsSound == Spec => []BundleSound
  BY Invariance, BundleFollows, PTL

LEMMA WalkFollows == IInv => WalkIsFaithful
<1>. SUFFICES ASSUME IInv, NEW r \in Reader, rd[r].at # -1
              PROVE  /\ ToSet(rd[r].seen) \subseteq rd[r].was
                     /\ Item(r) = NULL =>
                          \A p \in rd[r].stay :
                            Cardinality({i \in DOMAIN rd[r].seen : rd[r].seen[i] = p}) = 1
  BY DEF WalkIsFaithful
<1>1. /\ WalkOK(rd[r]) /\ rd[r].at \in Slot /\ rd[r].seen \in Seq(Prog)
      /\ rd[r].stay \subseteq Prog /\ rd[r].entry \in Entry
  BY DEF IInv, Types, Walking, Walks
<1>2. DOMAIN rd[r].seen = 1 .. rd[r].at /\ rd[r].at \in Nat
  BY <1>1, SlotFacts DEF WalkOK
<1>3. ToSet(rd[r].seen) \subseteq rd[r].was
  BY <1>1, <1>2 DEF WalkOK, ToSet
<1>4. ASSUME Item(r) = NULL, NEW p \in rd[r].stay
      PROVE  Cardinality({i \in DOMAIN rd[r].seen : rd[r].seen[i] = p}) = 1
  <2>1. PICK i \in Slot : /\ fp[rd[r].entry][i] = p
                          /\ \A j \in 1 .. rd[r].at : rd[r].seen[j] = p <=> j = i + 1
    BY <1>1 DEF WalkOK
  <2>2. PICK n \in 0 .. mprog_max : Packed(fp[rd[r].entry], n)
    BY <1>1 DEF IInv, Shape
  <2>3. p # NULL
    BY <1>1, MprogAssumption
  <2>4. i < n /\ ~ (rd[r].at < n)
    BY <2>1, <2>2, <2>3, <1>1, <1>4 DEF Packed, Item
  <2>5. i + 1 \in 1 .. rd[r].at
    BY <2>4, <1>2, SlotFacts
  <2>6. {j \in DOMAIN rd[r].seen : rd[r].seen[j] = p} = {i + 1}
    BY <2>1, <2>5, <1>2
  <2>. QED
    BY <2>6, FS_Singleton
<1>. QED
  BY <1>3, <1>4

\* bpf_mprog_foreach_prog() without a lock, for any number of readers and slots: a walk
\* that reaches its NULL has run every program that stayed attached exactly once and
\* none that was never attached, across the peer edits, the in-place writes and the
\* publications of any number of updates.
THEOREM WalksAreFaithful == Spec => []WalkIsFaithful
  BY Invariance, WalkFollows, PTL

\* A write in the active entry replaces one program of the list.
LEMMA ReplaceIsOne ==
  ASSUME IInv, NEW p \in Prog, NEW idx \in Slot, Replace(p, idx)
  PROVE  /\ p \in Prog \ ToSet(Visible) /\ idx + 1 \in DOMAIN Visible
         /\ Visible' = [Visible EXCEPT ![idx + 1] = p]
<1>1. MayUpdate /\ ~ Exists(active, p) /\ idx \in Filled(fp[active])
      /\ fp' = [fp EXCEPT ![active] = [fp[active] EXCEPT ![idx] = p]] /\ active' = active
  BY DEF Replace
<1>2. active \in Entry /\ fp[active] \in Items /\ Packed(fp[active], count) /\ fp \in [Entry -> Items]
  BY <1>1, UpdateStarts DEF IInv, Types
<1>3. /\ Filled(fp[active]) = 0 .. count - 1 /\ count \in Nat
      /\ Visible = [i \in 1 .. count |-> fp[active][i - 1]]
  <2>1. count \in Nat
    BY <1>2, SlotFacts DEF Packed
  <2>. QED
    BY <2>1, <1>2, PackedWalk DEF Visible
<1>4. p \in Prog \ ToSet(Visible)
  BY <1>1 DEF Exists, Visible
<1>5. idx + 1 \in DOMAIN Visible
  BY <1>1, <1>3
<1>. DEFINE edited == [fp[active] EXCEPT ![idx] = p]
<1>6. fp'[active'] = edited
  BY <1>1, <1>2
<1>7. /\ edited[idx] = p /\ \A i \in Slot : i # idx => edited[i] = fp[active][i]
      /\ edited \in Items
  BY <1>2 DEF Items
<1>. HIDE DEF edited
<1>8. Filled(edited) = Filled(fp[active])
  BY <1>7, <1>1, <1>2, MprogAssumption, SlotFacts DEF Filled
<1>9. Visible' = [i \in 1 .. Cardinality(Filled(fp[active])) |-> edited[i - 1]]
  BY <1>6, <1>8 DEF Visible, Progs
<1>10. Cardinality(0 .. count - 1) = count
  BY <1>3, FS_Interval
<1>11. Visible' = [i \in 1 .. count |-> edited[i - 1]]
  BY <1>3, <1>9, <1>10
<1>12. ASSUME NEW i \in 1 .. count
       PROVE  edited[i - 1] = IF i = idx + 1 THEN p ELSE fp[active][i - 1]
  <2>1. i - 1 \in Slot /\ (i - 1 = idx <=> i = idx + 1)
    BY <1>2, <1>3, SlotFacts DEF Packed
  <2>. QED
    BY <2>1, <1>7
<1>13. Visible' = [Visible EXCEPT ![idx + 1] = p]
  BY <1>3, <1>11, <1>12
<1>. QED
  BY <1>4, <1>5, <1>13

LEMMA ListInit == Init => HookList!Init
<1>. SUFFICES ASSUME Init PROVE Visible = << >>
  BY DEF HookList!Init
<1>1. IInv /\ active \in Entry /\ fp[active] \in Items /\ pc = "idle" /\ count = 0
  BY InitIInv DEF IInv, Types, Init
<1>2. Packed(fp[active], 0)
  BY <1>1 DEF IInv, Shape, Current
<1>3. Len(Visible) = 0 /\ Visible \in Seq(Prog)
  BY <1>1, <1>2, PackedWalk DEF Visible
<1>. QED
  BY <1>3, EmptySeq

LEMMA ListStep == IInv /\ [Next]_vars => [HookList!Next]_Visible
<1>. SUFFICES ASSUME IInv, [Next]_vars PROVE HookList!Next \/ Visible' = Visible
  OBVIOUS
<1>1. CASE Inserts \/ Deletes \/ ClearAll
  <2>1. PICK items : fp' = [fp EXCEPT ![Peer(active)] = items]
    BY <1>1 DEF Inserts, Deletes, Insert, InsertAtSlot, Delete, ClearAll, EditPeer
  <2>2. Watch /\ pc = "idle" /\ active' = active /\ pc' = "publish"
    BY <1>1 DEF Inserts, Deletes, Insert, Delete, ClearAll, MayUpdate
  <2>. QED
    BY <2>1, <2>2, PeerEditKeeps
<1>2. CASE Replaces
  <2>1. PICK p \in Prog, idx \in Slot : Replace(p, idx)
    BY <1>2 DEF Replaces
  <2>2. /\ p \in Prog \ ToSet(Visible) /\ idx + 1 \in DOMAIN Visible
        /\ Visible' = [Visible EXCEPT ![idx + 1] = p]
    BY <2>1, ReplaceIsOne
  <2>3. HookList!Replace
    BY <2>2 DEF HookList!Replace, HookList!Fresh, HookList!ReplaceAt, HookList!ToSet, ToSet
  <2>. QED
    BY <2>3 DEF HookList!Next
<1>3. CASE Publish
  <2>1. Visible' = Progs(fp[new]) /\ Edit(Visible, Progs(fp[new]))
    BY <1>3 DEF Publish, bundle, Visible, IInv, Edited
  <2>2. Edit(Visible, Visible')
    BY <2>1
  <2>. QED
    BY <2>2 DEF Edit, HookList!Next, HookList!Clear, HookList!Insert, HookList!Withdraw, HookList!Fresh,
      HookList!InsertAt, HookList!RemoveAt, HookList!ToSet, InsertAt, RemoveAt, ToSet
<1>4. CASE Sync \/ Commit \/ Release \/ Query \/ UNCHANGED vars
  BY <1>4 DEF Sync, Commit, Release, Query, vars, bundle, Visible
<1>5. CASE \E r \in Reader : Enter(r) \/ Walk(r)
  BY <1>5 DEF Enter, Walk, bundle, Visible
<1>. QED
  BY <1>1, <1>2, <1>3, <1>4, <1>5 DEF Next

\* The two entries, the shift loops of bpf_mprog_entry_grow() and
\* bpf_mprog_entry_shrink(), the write in place and the publication implement one
\* duplicate-free list that changes by single edits, whatever the sets of programs,
\* links and readers and the size of the array.
THEOREM BundleImplementsList == Spec => ImplementsProgList
<1>1. Init => HookList!Init
  BY ListInit
<1>2. IInv /\ [Next]_vars => [HookList!Next]_Visible
  BY ListStep
<1>. QED
  BY <1>1, <1>2, Invariance, PTL DEF Spec, ImplementsProgList, HookList!Spec
=============================================================================
