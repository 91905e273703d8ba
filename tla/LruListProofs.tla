--------------------------- MODULE LruListProofs ----------------------------
(***************************************************************************)
(* For every finite set of nodes, number of scans and shrink target: the   *)
(* LRU lists keep their shape through every step of every loop, the        *)
(* counters are exact, and the lists implement a pool of nodes.            *)
(***************************************************************************)
EXTENDS LruList, FiniteSetTheorems, TLAPS

\* A node bpf_lru_populate() has not come to is linked to itself only.
Unlinked == \A n \in Node : type[n] = "none" => next[n] = n /\ prev[n] = n

\* A loop's cursor is on the list the loop runs over.
CursorOnList ==
  /\ op = "rotateActive" => ListOf(cur) = "active"
  /\ op = "rotateInactive" => ListOf(cur) = "inactive" /\ ListOf(nxt) = "inactive"
  /\ op = "shrink" => ListOf(cur) = "inactive"
  /\ op \in {"flush", "popPending"} => ListOf(cur) = "pending"

\* The part of the invariant that is about the links.
Shape == LinksCoherent /\ NoNodeLost /\ Unlinked

\* The inductive invariant.
IInv == TypeOK /\ Shape /\ CountsExact /\ RotationOnInactive /\ CursorOnList

\* The list a cell is on after a step.
After(c) == IF c \in Types THEN c ELSE type'[c]

\* The types of the lists and of the loops' local variables.
HeapType ==
  /\ next \in [Cell -> Cell] /\ prev \in [Cell -> Cell]
  /\ type \in [Node -> Types \cup {"none"}]
  /\ ref \in [Node -> BOOLEAN]
  /\ counts \in [Counted -> Nat]
  /\ rot \in Cell

LoopType ==
  /\ op \in Ops
  /\ cur \in Cell /\ stop \in Cell \cup {Null} /\ nxt \in Cell
  /\ i \in Nat /\ nshrinked \in Nat /\ tgt \in Nat /\ dest \in {"free", "localFree"}
  /\ ret \in Node \cup {Null, "none"}
-----------------------------------------------------------------------------
(* What list_move() does to the shape of the lists. *)

LEMMA NodeIsNoHead == \A n \in Node : n \notin Types /\ n # "none" /\ n \in Cell
  BY LruAssumption DEF Cell

\* A node of a list is not its own neighbour.
LEMMA NotAlone ==
  ASSUME TypeOK, Shape, NEW n \in Node, type[n] # "none"
  PROVE  prev[n] # n /\ next[n] # n
<1>1. prev[n] # n
  <2>1. {n} \in SUBSET Node /\ {n} # {} /\ \A m \in {n} : type[m] # "none"
    OBVIOUS
  <2>2. \E m \in {n} : prev[m] \notin {n}
    BY <2>1 DEF Shape, NoNodeLost
  <2>. QED
    BY <2>2
<1>2. prev[next[n]] = n
  BY NodeIsNoHead DEF Shape, LinksCoherent
<1>. QED
  BY <1>1, <1>2

\* Going back stays on the list.
LEMMA BackOnList ==
  ASSUME TypeOK, Shape, NEW c \in Cell
  PROVE  prev[c] \in Cell /\ next[c] \in Cell /\ ListOf(prev[c]) = ListOf(c)
<1>1. prev[c] \in Cell /\ next[c] \in Cell
  BY DEF TypeOK
<1>2. ListOf(next[prev[c]]) = ListOf(prev[c]) /\ next[prev[c]] = c
  BY <1>1 DEF Shape, LinksCoherent
<1>. QED
  BY <1>1, <1>2

\* The links after list_move(), one cell at a time.
LEMMA MoveNext ==
  ASSUME TypeOK, Shape, NEW n \in Node, NEW h \in Types, ListMove(n, h)
  PROVE  /\ next' \in [Cell -> Cell] /\ prev' \in [Cell -> Cell]
         /\ next'[h] = n /\ prev'[n] = h
         /\ LET f == IF next[h] = n THEN next[n] ELSE next[h] IN
              /\ f # n /\ f \in Cell
              /\ next'[n] = f /\ prev'[f] = n
              /\ \A c \in Cell \ {n, h} :
                   next'[c] = IF c = prev[n] THEN next[n] ELSE next[c]
              /\ \A c \in Cell \ {n, f} :
                   prev'[c] = IF c = next[n] THEN prev[n] ELSE prev[c]
<1>1. /\ n \in Cell /\ h \in Cell /\ n # h
      /\ next \in [Cell -> Cell] /\ prev \in [Cell -> Cell]
  BY NodeIsNoHead DEF TypeOK, Cell
<1>2. \A c \in Cell : next[prev[c]] = c /\ prev[next[c]] = c
  BY DEF Shape, LinksCoherent
<1>. DEFINE cutNext == [next EXCEPT ![prev[n]] = next[n]]
            cutPrev == [prev EXCEPT ![next[n]] = prev[n]]
            f == IF next[h] = n THEN next[n] ELSE next[h]
<1>3. cutNext[h] = f /\ f \in Cell
  BY <1>1, <1>2
<1>4. f # n
  <2>1. CASE next[h] = n
    <3>1. prev[n] = h
      BY <1>1, <1>2, <2>1
    <3>2. next[n] # n
      BY <1>1, <1>2, <3>1
    <3>. QED
      BY <2>1, <3>2
  <2>2. CASE next[h] # n
    BY <2>2
  <2>. QED
    BY <2>1, <2>2
<1>5. /\ next' = [cutNext EXCEPT ![n] = f, ![h] = n]
      /\ prev' = [cutPrev EXCEPT ![f] = n, ![n] = h]
  BY <1>3 DEF ListMove
<1>6. cutNext \in [Cell -> Cell] /\ cutPrev \in [Cell -> Cell]
  BY <1>1
<1>. HIDE DEF f
<1>7. next' \in [Cell -> Cell] /\ prev' \in [Cell -> Cell]
  BY <1>1, <1>3, <1>5, <1>6
<1>8. next'[h] = n /\ next'[n] = f /\ prev'[n] = h /\ prev'[f] = n
  BY <1>1, <1>3, <1>4, <1>5, <1>6
<1>9. \A c \in Cell \ {n, h} : next'[c] = IF c = prev[n] THEN next[n] ELSE next[c]
  BY <1>1, <1>5, <1>6
<1>10. \A c \in Cell \ {n, f} : prev'[c] = IF c = next[n] THEN prev[n] ELSE prev[c]
  BY <1>1, <1>5, <1>6
<1>. QED
  BY <1>3, <1>4, <1>7, <1>8, <1>9, <1>10 DEF f

\* The lists keep their shape when a node is moved and its type byte follows.
LEMMA MoveShape ==
  ASSUME TypeOK, Shape, NEW n \in Node, NEW h \in Types,
         ListMove(n, h), type' = [type EXCEPT ![n] = h]
  PROVE  /\ Shape'
         /\ next' \in [Cell -> Cell] /\ prev' \in [Cell -> Cell]
         /\ type' \in [Node -> Types \cup {"none"}]
         /\ \A c \in Cell : After(c) = IF c = n THEN h ELSE ListOf(c)
<1>. DEFINE f == IF next[h] = n THEN next[n] ELSE next[h]
<1>1. /\ n \in Cell /\ h \in Cell /\ n # h /\ n \notin Types
      /\ next \in [Cell -> Cell] /\ prev \in [Cell -> Cell]
      /\ type \in [Node -> Types \cup {"none"}]
  BY NodeIsNoHead DEF TypeOK, Cell
<1>2. /\ \A c \in Cell : next[prev[c]] = c /\ prev[next[c]] = c
      /\ \A c \in Cell : ListOf(next[c]) = ListOf(c)
  BY DEF Shape, LinksCoherent
<1>3. /\ next' \in [Cell -> Cell] /\ prev' \in [Cell -> Cell]
      /\ next'[h] = n /\ prev'[n] = h /\ f # n /\ f \in Cell
      /\ next'[n] = f /\ prev'[f] = n
      /\ \A c \in Cell \ {n, h} : next'[c] = IF c = prev[n] THEN next[n] ELSE next[c]
      /\ \A c \in Cell \ {n, f} : prev'[c] = IF c = next[n] THEN prev[n] ELSE prev[c]
  BY MoveNext
<1>4. type' \in [Node -> Types \cup {"none"}]
  BY <1>1
<1>5. \A c \in Cell : After(c) = IF c = n THEN h ELSE ListOf(c)
  BY <1>1 DEF After, ListOf, Cell
<1>6. (next[n] = n) <=> (prev[n] = n)
  BY <1>1, <1>2
<1>7. \A c \in Cell : next'[prev'[c]] = c
  <2>. SUFFICES ASSUME NEW c \in Cell PROVE next'[prev'[c]] = c
    OBVIOUS
  <2>1. CASE c = n
    BY <2>1, <1>3
  <2>2. CASE c = f
    BY <2>2, <1>3
  <2>3. CASE c \notin {n, f} /\ c = next[n]
    <3>1. prev'[c] = prev[n] /\ prev[n] # n
      BY <2>3, <1>3, <1>6
    <3>2. prev[n] # h
      BY <2>3, <1>1, <1>2
    <3>. QED
      BY <3>1, <3>2, <2>3, <1>1, <1>3
  <2>4. CASE c \notin {n, f} /\ c # next[n]
    <3>1. prev'[c] = prev[c] /\ prev[c] # n
      BY <2>4, <1>1, <1>2, <1>3
    <3>2. prev[c] # h /\ prev[c] # prev[n]
      BY <2>4, <1>1, <1>2
    <3>. QED
      BY <3>1, <3>2, <1>1, <1>2, <1>3
  <2>. QED
    BY <2>1, <2>2, <2>3, <2>4
<1>8. \A c \in Cell : prev'[next'[c]] = c
  <2>. SUFFICES ASSUME NEW c \in Cell PROVE prev'[next'[c]] = c
    OBVIOUS
  <2>1. CASE c = n
    BY <2>1, <1>3
  <2>2. CASE c = h
    BY <2>2, <1>3
  <2>3. CASE c \notin {n, h} /\ c = prev[n]
    <3>1. next'[c] = next[n] /\ next[n] # n
      BY <2>3, <1>3, <1>6
    <3>2. next[n] # f
      BY <2>3, <1>1, <1>2
    <3>. QED
      BY <3>1, <3>2, <2>3, <1>1, <1>3
  <2>4. CASE c \notin {n, h} /\ c # prev[n]
    <3>1. next'[c] = next[c] /\ next[c] # n
      BY <2>4, <1>1, <1>2, <1>3
    <3>2. next[c] # f /\ next[c] # next[n]
      BY <2>4, <1>1, <1>2
    <3>. QED
      BY <3>1, <3>2, <1>1, <1>2, <1>3
  <2>. QED
    BY <2>1, <2>2, <2>3, <2>4
<1>9. \A c \in Cell : ListOf(next[c]) = ListOf(c) /\ ListOf(prev[c]) = ListOf(c)
  BY <1>2, BackOnList
<1>10. \A c \in Cell : After(next'[c]) = After(c)
  <2>. SUFFICES ASSUME NEW c \in Cell PROVE After(next'[c]) = After(c)
    OBVIOUS
  <2>1. ListOf(h) = h /\ ListOf(f) = h
    BY <1>1, <1>2 DEF ListOf
  <2>. HIDE DEF f
  <2>2. CASE c = n
    BY <2>1, <2>2, <1>1, <1>3, <1>5
  <2>3. CASE c = h
    BY <2>1, <2>3, <1>1, <1>3, <1>5
  <2>4. CASE c \notin {n, h} /\ c = prev[n]
    <3>1. next'[c] = next[n] /\ next[n] # n /\ next[n] \in Cell
      BY <2>4, <1>1, <1>3, <1>6
    <3>2. ListOf(next[n]) = ListOf(c)
      BY <2>4, <1>1, <1>9
    <3>. QED
      BY <2>4, <3>1, <3>2, <1>5
  <2>5. CASE c \notin {n, h} /\ c # prev[n]
    <3>1. next'[c] = next[c] /\ next[c] # n /\ next[c] \in Cell
      BY <2>5, <1>1, <1>2, <1>3
    <3>. QED
      BY <2>5, <3>1, <1>5, <1>9
  <2>. QED
    BY <2>2, <2>3, <2>4, <2>5
<1>11. LinksCoherent'
  BY <1>7, <1>8, <1>10 DEF LinksCoherent, ListOf, After
<1>12. NoNodeLost'
  <2>. SUFFICES ASSUME NEW S \in SUBSET Node, \A m \in S : type'[m] # "none",
                       \A m \in S : prev'[m] \in S
                PROVE  S = {}
    BY DEF NoNodeLost
  <2>1. n \notin S
    BY <1>3, <1>1, NodeIsNoHead
  <2>2. f \notin S
    BY <1>3, <2>1
  <2>3. \A m \in S : m \in Cell /\ prev'[m] = IF m = next[n] THEN prev[n] ELSE prev[m]
    BY <2>1, <2>2, <1>3, NodeIsNoHead
  <2>4. \A m \in S : type[m] # "none"
    BY <2>1, <1>1
  <2>5. CASE next[n] \notin S
    <3>1. \A m \in S : prev[m] \in S
      BY <2>3, <2>5
    <3>. QED
      BY <3>1, <2>4 DEF Shape, NoNodeLost
  <2>6. CASE next[n] \in S
    <3>1. prev[n] \in S
      BY <2>3, <2>6
    <3>2. type[n] # "none"
      BY <2>1, <2>6 DEF Shape, Unlinked
    <3>3. \A m \in S \cup {n} : prev[m] \in S \cup {n}
      BY <2>3, <3>1, <1>1, <1>2
    <3>. QED
      BY <3>2, <3>3, <2>4 DEF Shape, NoNodeLost
  <2>. QED
    BY <2>5, <2>6
<1>13. Unlinked'
  <2>. SUFFICES ASSUME NEW m \in Node, type'[m] = "none"
                PROVE  next'[m] = m /\ prev'[m] = m
    BY DEF Unlinked
  <2>1. m # n /\ type[m] = "none"
    BY <1>1 DEF Types, LruTypes, LocalTypes
  <2>2. next[m] = m /\ prev[m] = m
    BY <2>1 DEF Shape, Unlinked
  <2>3. m \in Cell /\ m # h /\ m # prev[n] /\ m # next[n] /\ m # f
    BY <2>1, <2>2, <1>1, <1>2, NodeIsNoHead
  <2>. QED
    BY <2>1, <2>2, <2>3, <1>3
<1>. QED
  BY <1>3, <1>4, <1>5, <1>11, <1>12, <1>13 DEF Shape
-----------------------------------------------------------------------------
(* The counters. *)

\* The counters follow when a node's type byte goes from one value to another.
LEMMA MoveCounts ==
  ASSUME TypeOK, CountsExact, NEW n \in Node, NEW h \in Types,
         type' = [type EXCEPT ![n] = h],
         counts' = IF type[n] # h THEN Inc(Dec(counts, type[n]), h) ELSE counts
  PROVE  CountsExact' /\ counts' \in [Counted -> Nat]
<1>. DEFINE on(t) == {m \in Node : type[m] = t}
            onAfter(t) == {m \in Node : type'[m] = t}
<1>1. type \in [Node -> Types \cup {"none"}] /\ counts \in [Counted -> Nat]
  BY DEF TypeOK
<1>2. \A t \in Counted : IsFiniteSet(on(t)) /\ counts[t] = Cardinality(on(t))
  BY FS_Subset, LruAssumption DEF CountsExact
<1>3. \A t \in Counted : counts'[t] = Cardinality(onAfter(t))
  <2>. SUFFICES ASSUME NEW t \in Counted PROVE counts'[t] = Cardinality(onAfter(t))
    OBVIOUS
  <2>1. CASE type[n] = h
    <3>1. onAfter(t) = on(t)
      BY <2>1, <1>1
    <3>. QED
      BY <2>1, <3>1, <1>2
  <2>2. CASE type[n] # h /\ t = h
    <3>1. onAfter(t) = on(t) \cup {n} /\ n \notin on(t)
      BY <2>2, <1>1
    <3>2. Cardinality(onAfter(t)) = Cardinality(on(t)) + 1
      BY <3>1, <1>2, FS_AddElement
    <3>3. counts'[t] = counts[t] + 1
      BY <2>2, <1>1 DEF Inc, Dec, Counted
    <3>. QED
      BY <3>2, <3>3, <1>2
  <2>3. CASE type[n] # h /\ t = type[n]
    <3>1. onAfter(t) = on(t) \ {n} /\ n \in on(t)
      BY <2>3, <1>1
    <3>2. Cardinality(onAfter(t)) = Cardinality(on(t)) - 1
      BY <3>1, <1>2, FS_RemoveElement
    <3>3. counts'[t] = counts[t] - 1
      BY <2>3, <1>1 DEF Inc, Dec, Counted
    <3>. QED
      BY <3>2, <3>3, <1>2
  <2>4. CASE type[n] # h /\ t # h /\ t # type[n]
    <3>1. onAfter(t) = on(t)
      BY <2>4, <1>1
    <3>2. counts'[t] = counts[t]
      BY <2>4, <1>1 DEF Inc, Dec, Counted
    <3>. QED
      BY <3>1, <3>2, <1>2
  <2>. QED
    BY <2>1, <2>2, <2>3, <2>4
<1>4. counts' \in [Counted -> Nat]
  <2>1. DOMAIN counts' = Counted /\ counts' = [t \in Counted |-> counts'[t]]
    BY <1>1 DEF Inc, Dec, Counted
  <2>2. \A t \in Counted : IsFiniteSet(onAfter(t))
    BY FS_Subset, LruAssumption
  <2>3. \A t \in Counted : counts'[t] \in Nat
    BY <1>3, <2>2, FS_CardinalityType
  <2>. QED
    BY <2>1, <2>3
<1>. QED
  BY <1>3, <1>4 DEF CountsExact
-----------------------------------------------------------------------------
(* What the moves of bpf_lru_list.c do to the invariant. *)

LEMMA TypeSplit == (TypeOK <=> HeapType /\ LoopType) /\ (TypeOK <=> HeapType /\ LoopType)'
  BY DEF TypeOK, HeapType, LoopType

\* The heap part of the invariant survives the move of one node, if the cursor
\* ends on another cell of the inactive list.
LEMMA HeapMoved ==
  ASSUME IInv, NEW n \in Node, NEW h \in Types, ListMove(n, h),
         type' = [type EXCEPT ![n] = h],
         counts' = IF type[n] # h THEN Inc(Dec(counts, type[n]), h) ELSE counts,
         ref' \in [Node -> BOOLEAN],
         rot' \in Cell, rot' # n, ListOf(rot') = "inactive"
  PROVE  /\ HeapType' /\ Shape' /\ CountsExact' /\ RotationOnInactive'
         /\ \A c \in Cell : After(c) = IF c = n THEN h ELSE ListOf(c)
<1>1. TypeOK /\ Shape /\ CountsExact
  BY DEF IInv
<1>2. /\ Shape' /\ next' \in [Cell -> Cell] /\ prev' \in [Cell -> Cell]
      /\ type' \in [Node -> Types \cup {"none"}]
      /\ \A c \in Cell : After(c) = IF c = n THEN h ELSE ListOf(c)
  BY <1>1, MoveShape
<1>3. CountsExact' /\ counts' \in [Counted -> Nat]
  BY <1>1, MoveCounts
<1>4. RotationOnInactive'
  BY <1>2 DEF RotationOnInactive, After, ListOf
<1>5. HeapType'
  BY <1>2, <1>3 DEF HeapType
<1>. QED
  BY <1>2, <1>3, <1>4, <1>5

LEMMA HeapKept ==
  ASSUME IInv, UNCHANGED <<links, type, counts>>,
         ref' \in [Node -> BOOLEAN], rot' \in Cell, ListOf(rot') = "inactive"
  PROVE  /\ HeapType' /\ Shape' /\ CountsExact' /\ RotationOnInactive'
         /\ \A c \in Cell : After(c) = ListOf(c)
<1>1. TypeOK /\ Shape /\ CountsExact
  BY DEF IInv
<1>2. Shape'
  BY <1>1 DEF Shape, LinksCoherent, NoNodeLost, Unlinked, ListOf, links
<1>3. CountsExact'
  BY <1>1 DEF CountsExact
<1>4. RotationOnInactive' /\ \A c \in Cell : After(c) = ListOf(c)
  BY DEF RotationOnInactive, After, ListOf
<1>5. HeapType'
  BY <1>1 DEF TypeOK, HeapType, links
<1>. QED
  BY <1>2, <1>3, <1>4, <1>5

\* Where RotationPast() leaves the cursor.
LEMMA PastOnList ==
  ASSUME IInv, NEW n \in Node, type[n] # "none"
  PROVE  RotationPast(n) \in Cell \ {n} /\ ListOf(RotationPast(n)) = "inactive"
<1>1. TypeOK /\ Shape /\ rot \in Cell /\ ListOf(rot) = "inactive"
  BY DEF IInv, TypeOK, RotationOnInactive
<1>2. CASE rot = n
  BY <1>1, <1>2, NotAlone, BackOnList DEF RotationPast
<1>3. CASE rot # n
  BY <1>1, <1>3 DEF RotationPast
<1>. QED
  BY <1>2, <1>3

LEMMA RefType ==
  ASSUME IInv, NEW n \in Node
  PROVE  /\ ref \in [Node -> BOOLEAN]
         /\ [ref EXCEPT ![n] = FALSE] \in [Node -> BOOLEAN]
         /\ [ref EXCEPT ![n] = TRUE] \in [Node -> BOOLEAN]
  BY DEF IInv, TypeOK

\* A cell of a list that is not the list's head is a node, whose type names it.
LEMMA OnListIsNode ==
  ASSUME IInv, NEW c \in Cell, NEW t \in Types, ListOf(c) = t, c # t
  PROVE  c \in Node /\ type[c] = t
  BY DEF ListOf, Cell

\* The first and the last cell of a list that is not empty.
LEMMA EndsOfList ==
  ASSUME IInv, NEW t \in Types, ~IsEmpty(t)
  PROVE  /\ next[t] \in Node /\ type[next[t]] = t
         /\ prev[t] \in Node /\ type[prev[t]] = t
<1>1. TypeOK /\ Shape /\ t \in Cell /\ ListOf(t) = t
  BY DEF IInv, Cell, ListOf
<1>2. next[t] \in Cell /\ ListOf(next[t]) = t /\ next[t] # t
  BY <1>1, BackOnList DEF Shape, LinksCoherent, IsEmpty
<1>3. prev[t] \in Cell /\ ListOf(prev[t]) = t /\ prev[t] # t
  BY <1>1, <1>2, BackOnList DEF Shape, LinksCoherent
<1>. QED
  BY <1>2, <1>3, OnListIsNode

\* __bpf_lru_node_move() and __bpf_lru_node_move_to_free()
LEMMA Moved ==
  ASSUME IInv, NEW n \in Node, NEW h \in Types, type[n] # "none",
         \/ Move(n, h)
         \/ MoveToFree(n, h) /\ h \in {"free", "localFree"} /\ type[n] \in Counted
  PROVE  /\ HeapType' /\ Shape' /\ CountsExact' /\ RotationOnInactive'
         /\ \A c \in Cell : After(c) = IF c = n THEN h ELSE ListOf(c)
<1>1. rot' \in Cell /\ rot' # n /\ ListOf(rot') = "inactive"
  BY PastOnList DEF Move, MoveToFree
<1>2. ref' \in [Node -> BOOLEAN]
  BY RefType DEF Move, MoveLinks, MoveToFree
<1>3. counts' = IF type[n] # h THEN Inc(Dec(counts, type[n]), h) ELSE counts
  BY DEF Move, MoveLinks, MoveToFree, Inc, Counted
<1>4. ListMove(n, h) /\ type' = [type EXCEPT ![n] = h]
  BY DEF Move, MoveLinks, MoveToFree
<1>. QED
  BY <1>1, <1>2, <1>3, <1>4, HeapMoved

\* The invariant after a step, from its parts.
LEMMA Assemble ==
  ASSUME HeapType' /\ Shape' /\ CountsExact' /\ RotationOnInactive', LoopType',
         op' = "rotateActive" => After(cur') = "active",
         op' = "rotateInactive" => After(cur') = "inactive" /\ After(nxt') = "inactive",
         op' = "shrink" => After(cur') = "inactive",
         op' \in {"flush", "popPending"} => After(cur') = "pending"
  PROVE  IInv'
<1>1. TypeOK'
  BY DEF TypeOK, HeapType, LoopType
<1>2. CursorOnList'
  BY DEF CursorOnList, ListOf, After
<1>. QED
  BY <1>1, <1>2 DEF IInv

LEMMA ReturnType ==
  ASSUME Return, ret' \in Node \cup {Null, "none"}
  PROVE  LoopType' /\ op' = "idle"
  BY DEF Return, NoLoop, LoopType, Ops, Cell, Types, LruTypes, LocalTypes

LEMMA IInvLoop == ASSUME IInv PROVE LoopType /\ rot \in Cell /\ ListOf(rot) = "inactive"
  BY DEF IInv, TypeOK, LoopType, RotationOnInactive

LEMMA HeadTypes ==
  /\ "active" \in Types /\ "inactive" \in Types /\ "free" \in Types
  /\ "localFree" \in Types /\ "pending" \in Types /\ Types \subseteq Cell /\ "none" \notin Types
  /\ Counted \subseteq Types /\ Node \subseteq Cell
  /\ \A t \in Types : ListOf(t) = t
  BY DEF Types, LruTypes, LocalTypes, Cell, Counted, ListOf
-----------------------------------------------------------------------------
(* One lemma per action: it preserves the invariant. *)

LEMMA PopulateInv ==
  ASSUME IInv, NEW n \in Node, Populate(n) PROVE IInv'
<1>1. type[n] = "none" /\ LoopType /\ rot \in Cell /\ ListOf(rot) = "inactive"
  BY IInvLoop DEF Populate
<1>2. rot # n
  BY <1>1, NodeIsNoHead DEF ListOf
<1>3. /\ ListMove(n, "free") /\ type' = [type EXCEPT ![n] = "free"]
      /\ rot' = rot /\ UNCHANGED <<op, loop, ret>>
      /\ counts' = IF type[n] # "free" THEN Inc(Dec(counts, type[n]), "free") ELSE counts
  BY <1>1 DEF Populate, Inc, Dec, Counted
<1>4. ref' \in [Node -> BOOLEAN]
  BY RefType DEF Populate
<1>5. HeapType' /\ Shape' /\ CountsExact' /\ RotationOnInactive'
  BY <1>1, <1>2, <1>3, <1>4, HeadTypes, HeapMoved
<1>6. LoopType' /\ op' = "populate"
  BY <1>1, <1>3 DEF LoopType, loop, Populate
<1>. QED
  BY <1>5, <1>6, Assemble

LEMMA PopulateEndInv ==
  ASSUME IInv, PopulateEnd PROVE IInv'
<1>1. HeapType' /\ Shape' /\ CountsExact' /\ RotationOnInactive'
  BY HeapKept, IInvLoop DEF PopulateEnd, IInv, TypeOK
<1>2. LoopType' /\ op' = "idle"
  BY IInvLoop DEF PopulateEnd, LoopType, loop, Ops
<1>. QED
  BY <1>1, <1>2, Assemble

LEMMA SetRefInv ==
  ASSUME IInv, NEW n \in Node, SetRef(n) PROVE IInv'
<1>1. ref' \in [Node -> BOOLEAN]
  BY RefType DEF SetRef
<1>2. /\ HeapType' /\ Shape' /\ CountsExact' /\ RotationOnInactive'
      /\ \A c \in Cell : After(c) = ListOf(c)
  BY <1>1, HeapKept, IInvLoop DEF SetRef
<1>3. LoopType' /\ op' = op /\ cur' = cur /\ nxt' = nxt
  BY IInvLoop DEF SetRef, LoopType, loop
<1>4. CursorOnList /\ cur \in Cell /\ nxt \in Cell
  BY DEF IInv, TypeOK
<1>. QED
  BY <1>2, <1>3, <1>4, Assemble DEF CursorOnList

\* The steps that leave the lists alone.
LEMMA Unmoved ==
  ASSUME IInv, UNCHANGED <<links, type, ref, counts, rot>>
  PROVE  /\ HeapType' /\ Shape' /\ CountsExact' /\ RotationOnInactive'
         /\ \A c \in Cell : After(c) = ListOf(c)
         /\ \A t \in Types : prev[t] \in Cell /\ ListOf(prev[t]) = t
<1>1. ref' \in [Node -> BOOLEAN] /\ rot' \in Cell /\ ListOf(rot') = "inactive"
  BY IInvLoop DEF IInv, TypeOK
<1>2. \A t \in Types : prev[t] \in Cell /\ ListOf(prev[t]) = t
  BY BackOnList, HeadTypes DEF IInv
<1>. QED
  BY <1>1, <1>2, HeapKept

LEMMA EnterRotateInactiveInv ==
  ASSUME IInv, EnterRotateInactive, UNCHANGED <<links, type, ref, counts, rot>>,
         ret' \in Node \cup {Null, "none"}
  PROVE  IInv'
<1>1. CASE IsEmpty("inactive")
  <2>1. LoopType' /\ op' = "idle"
    BY <1>1, ReturnType DEF EnterRotateInactive
  <2>. QED
    BY <2>1, Unmoved, Assemble
<1>2. CASE ~IsEmpty("inactive")
  <2>1. /\ op' = "rotateInactive" /\ cur' = rot /\ nxt' = "inactive" /\ i' = 0
        /\ stop' = IF next[rot] = "inactive" THEN next["inactive"] ELSE next[rot]
        /\ UNCHANGED <<nshrinked, tgt, dest>>
    BY <1>2 DEF EnterRotateInactive
  <2>2. stop' \in Cell
    BY <2>1, HeadTypes, IInvLoop DEF IInv, TypeOK
  <2>3. LoopType'
    BY <2>1, <2>2, IInvLoop, HeadTypes DEF LoopType, Ops
  <2>4. After(cur') = "inactive" /\ After(nxt') = "inactive"
    BY <2>1, Unmoved, IInvLoop, HeadTypes
  <2>. QED
    BY <2>1, <2>3, <2>4, Unmoved, Assemble
<1>. QED
  BY <1>1, <1>2

LEMMA RotateInv ==
  ASSUME IInv, Rotate PROVE IInv'
<1>1. UNCHANGED <<links, type, ref, counts, rot>> /\ ret' = "none"
  BY DEF Rotate
<1>2. CASE InactiveLow
  <2>1. /\ op' = "rotateActive" /\ cur' = prev["active"] /\ stop' = next["active"]
        /\ i' = 0 /\ UNCHANGED <<nxt, nshrinked, tgt, dest>>
    BY <1>2 DEF Rotate
  <2>2. next["active"] \in Cell
    BY HeadTypes DEF IInv, TypeOK
  <2>3. LoopType'
    BY <1>1, <2>1, <2>2, Unmoved, IInvLoop, HeadTypes DEF LoopType, Ops
  <2>4. After(cur') = "active"
    BY <1>1, <2>1, Unmoved, HeadTypes
  <2>. QED
    BY <1>1, <2>1, <2>3, <2>4, Unmoved, Assemble
<1>3. CASE ~InactiveLow
  BY <1>1, <1>3, EnterRotateInactiveInv DEF Rotate
<1>. QED
  BY <1>2, <1>3

LEMMA RotateActiveEndInv ==
  ASSUME IInv, RotateActiveEnd PROVE IInv'
<1>1. ret' \in Node \cup {Null, "none"}
  BY IInvLoop DEF RotateActiveEnd, LoopType
<1>. QED
  BY <1>1, EnterRotateInactiveInv DEF RotateActiveEnd

\* A node's predecessor is another cell of its list.
LEMMA Back ==
  ASSUME IInv, NEW n \in Node, type[n] # "none"
  PROVE  prev[n] \in Cell \ {n} /\ ListOf(prev[n]) = type[n]
<1>1. TypeOK /\ Shape /\ n \in Cell /\ ListOf(n) = type[n]
  BY NodeIsNoHead DEF IInv, ListOf
<1>. QED
  BY <1>1, NotAlone, BackOnList

LEMMA RotateActiveStepInv ==
  ASSUME IInv, RotateActiveStep PROVE IInv'
<1>. DEFINE h == IF ref[cur] THEN "active" ELSE "inactive"
<1>1. cur \in Node /\ type[cur] = "active"
  BY OnListIsNode, HeadTypes, IInvLoop DEF RotateActiveStep, IInv, CursorOnList, LoopType
<1>2. Move(cur, h) /\ h \in Types /\ type[cur] # "none" /\ h # "none"
  BY <1>1, HeadTypes DEF RotateActiveStep
<1>3. /\ HeapType' /\ Shape' /\ CountsExact' /\ RotationOnInactive'
      /\ \A c \in Cell : After(c) = IF c = cur THEN h ELSE ListOf(c)
  BY <1>1, <1>2, Moved
<1>4. prev[cur] \in Cell \ {cur} /\ ListOf(prev[cur]) = "active"
  BY <1>1, <1>2, Back
<1>5. CASE i + 1 = NrScans \/ cur = stop
  <2>1. op' = "rotatedActive" /\ NoLoop /\ ret' = ret
    BY <1>5 DEF RotateActiveStep
  <2>2. LoopType'
    BY <2>1, IInvLoop, HeadTypes DEF LoopType, NoLoop, Ops
  <2>. QED
    BY <2>1, <2>2, <1>3, Assemble
<1>6. CASE ~(i + 1 = NrScans \/ cur = stop)
  <2>1. /\ cur' = prev[cur] /\ i' = i + 1
        /\ UNCHANGED <<op, stop, nxt, nshrinked, tgt, dest, ret>>
    BY <1>6 DEF RotateActiveStep
  <2>2. LoopType' /\ op' = "rotateActive"
    BY <2>1, <1>4, IInvLoop DEF LoopType, RotateActiveStep
  <2>3. After(cur') = "active"
    BY <2>1, <1>3, <1>4
  <2>. QED
    BY <2>2, <2>3, <1>3, Assemble
<1>. QED
  BY <1>5, <1>6

LEMMA RotateInactiveStepInv ==
  ASSUME IInv, RotateInactiveStep PROVE IInv'
<1>1. ListOf(cur) = "inactive" /\ cur \in Cell /\ ListOf(nxt) = "inactive" /\ nxt \in Cell
      /\ ret' = ret /\ LoopType
  BY IInvLoop DEF RotateInactiveStep, IInv, CursorOnList, LoopType
<1>2. CASE cur = "inactive"
  <2>1. /\ cur' = prev["inactive"]
        /\ UNCHANGED <<links, type, ref, counts, rot, op, stop, nxt, i, nshrinked, tgt, dest>>
    BY <1>2 DEF RotateInactiveStep
  <2>2. /\ HeapType' /\ Shape' /\ CountsExact' /\ RotationOnInactive'
        /\ After(cur') = "inactive" /\ After(nxt') = "inactive" /\ cur' \in Cell
    BY <1>1, <2>1, Unmoved, HeadTypes
  <2>3. LoopType' /\ op' = "rotateInactive"
    BY <1>1, <2>1, <2>2 DEF LoopType, RotateInactiveStep
  <2>. QED
    BY <2>2, <2>3, Assemble
<1>3. CASE cur # "inactive"
  <2>1. cur \in Node /\ type[cur] = "inactive"
    BY <1>1, <1>3, OnListIsNode, HeadTypes
  <2>2. prev[cur] \in Cell \ {cur} /\ ListOf(prev[cur]) = "inactive"
    BY <2>1, Back
  <2>3. IF ref[cur] THEN MoveLinks(cur, "active") ELSE UNCHANGED <<links, type, ref, counts>>
    BY <1>3 DEF RotateInactiveStep
  <2>4. \/ LastScanned /\ rot' = prev[cur] /\ Return
        \/ /\ rot' = IF ref[cur] THEN RotationPast(cur) ELSE rot
           /\ cur' = prev[cur] /\ nxt' = prev[cur] /\ i' = i + 1
           /\ UNCHANGED <<op, stop, nshrinked, tgt, dest>>
    BY <1>3 DEF RotateInactiveStep
  <2>5. rot' \in Cell /\ ListOf(rot') = "inactive" /\ (ref[cur] => rot' # cur)
    BY <2>1, <2>2, <2>4, PastOnList, IInvLoop
  <2>6. /\ HeapType' /\ Shape' /\ CountsExact' /\ RotationOnInactive'
        /\ After(prev[cur]) = "inactive"
    <3>1. CASE ref[cur]
      <4>1. /\ ListMove(cur, "active") /\ type' = [type EXCEPT ![cur] = "active"]
            /\ counts' = IF type[cur] # "active" THEN Inc(Dec(counts, type[cur]), "active")
                                                 ELSE counts
        BY <3>1, <2>3 DEF MoveLinks
      <4>2. ref' \in [Node -> BOOLEAN]
        BY <3>1, <2>1, <2>3, RefType DEF MoveLinks
      <4>. QED
        BY <3>1, <4>1, <4>2, <2>1, <2>2, <2>5, HeapMoved, HeadTypes, ZenonT(60)
    <3>2. CASE ~ref[cur]
      <4>1. UNCHANGED <<links, type, ref, counts>> /\ ref' \in [Node -> BOOLEAN]
        BY <3>2, <2>3 DEF IInv, TypeOK
      <4>. QED
        BY <4>1, <2>2, <2>5, HeapKept
    <3>. QED
      BY <3>1, <3>2
  <2>7. CASE Return
    <3>1. LoopType' /\ op' = "idle"
      BY <1>1, <2>7, ReturnType DEF LoopType
    <3>. QED
      BY <3>1, <2>6, Assemble
  <2>8. CASE /\ cur' = prev[cur] /\ nxt' = prev[cur] /\ i' = i + 1
             /\ UNCHANGED <<op, stop, nshrinked, tgt, dest>>
    <3>1. LoopType' /\ op' = "rotateInactive"
      BY <1>1, <2>2, <2>8 DEF LoopType, RotateInactiveStep
    <3>. QED
      BY <3>1, <2>6, <2>8, Assemble
  <2>. QED
    BY <2>4, <2>7, <2>8
<1>. QED
  BY <1>2, <1>3

LEMMA RotateInactiveEndInv ==
  ASSUME IInv, RotateInactiveEnd PROVE IInv'
<1>1. /\ UNCHANGED <<links, type, counts>> /\ rot' = nxt /\ Return /\ ret' = ret
      /\ ref' \in [Node -> BOOLEAN]
  BY DEF RotateInactiveEnd, IInv, TypeOK
<1>2. nxt \in Cell /\ ListOf(nxt) = "inactive"
  BY DEF RotateInactiveEnd, IInv, TypeOK, CursorOnList
<1>3. HeapType' /\ Shape' /\ CountsExact' /\ RotationOnInactive'
  BY <1>1, <1>2, HeapKept
<1>4. LoopType' /\ op' = "idle"
  BY <1>1, ReturnType, IInvLoop DEF LoopType
<1>. QED
  BY <1>3, <1>4, Assemble

LEMMA ShrinkInv ==
  ASSUME IInv, NEW n \in Targets, NEW t \in {"free", "localFree"}, Shrink(n, t) PROVE IInv'
<1>1. /\ UNCHANGED <<links, type, ref, counts, rot>>
      /\ op' = "shrink" /\ cur' = prev["inactive"] /\ i' = 0 /\ nshrinked' = 0
      /\ tgt' = n /\ dest' = t /\ ret' = "none" /\ UNCHANGED <<stop, nxt>>
  BY DEF Shrink
<1>2. n \in Nat
  BY LruAssumption
<1>3. cur' \in Cell /\ After(cur') = "inactive"
  BY <1>1, Unmoved, HeadTypes
<1>4. LoopType'
  BY <1>1, <1>2, <1>3, IInvLoop DEF LoopType, Ops
<1>. QED
  BY <1>1, <1>3, <1>4, Unmoved, Assemble

LEMMA ShrinkStepInv ==
  ASSUME IInv, ShrinkStep PROVE IInv'
<1>1. cur \in Node /\ type[cur] = "inactive"
  BY OnListIsNode, HeadTypes, IInvLoop DEF ShrinkStep, IInv, CursorOnList, LoopType
<1>2. prev[cur] \in Cell \ {cur} /\ ListOf(prev[cur]) = "inactive"
  BY <1>1, Back
<1>. DEFINE h == IF ref[cur] THEN "active" ELSE dest
<1>3. h \in Types /\ (Move(cur, h) \/ (MoveToFree(cur, h) /\ h \in {"free", "localFree"}))
  BY IInvLoop, HeadTypes DEF ShrinkStep, LoopType
<1>4. /\ HeapType' /\ Shape' /\ CountsExact' /\ RotationOnInactive'
      /\ \A c \in Cell : After(c) = IF c = cur THEN h ELSE ListOf(c)
  BY <1>1, <1>3, Moved DEF Counted
<1>5. nshrinked' \in Nat /\ ret' = ret
  BY IInvLoop DEF ShrinkStep, LoopType
<1>6. CASE op' = "shrunk" /\ UNCHANGED <<cur, i>>
  <2>1. LoopType'
    BY <1>5, <1>6, IInvLoop DEF ShrinkStep, LoopType, Ops
  <2>. QED
    BY <2>1, <1>4, <1>6, Assemble
<1>7. CASE cur' = prev[cur] /\ i' = i + 1 /\ UNCHANGED op
  <2>1. LoopType' /\ op' = "shrink"
    BY <1>2, <1>5, <1>7, IInvLoop DEF ShrinkStep, LoopType
  <2>2. After(cur') = "inactive"
    BY <1>2, <1>4, <1>7
  <2>. QED
    BY <2>1, <2>2, <1>4, Assemble
<1>. QED
  BY <1>6, <1>7 DEF ShrinkStep

LEMMA ShrinkEndInv ==
  ASSUME IInv, ShrinkEnd PROVE IInv'
<1>1. LoopType' /\ op' = "idle"
  BY ReturnType, IInvLoop DEF ShrinkEnd, LoopType
<1>2. CASE nshrinked = 0 /\ ~IsEmpty(ForceShrinkList)
  <2>1. ForceShrinkList \in Counted
    BY DEF ForceShrinkList, Counted
  <2>2. prev[ForceShrinkList] \in Node /\ type[prev[ForceShrinkList]] \in Counted
    BY <1>2, <2>1, EndsOfList, HeadTypes
  <2>3. MoveToFree(prev[ForceShrinkList], dest) /\ dest \in {"free", "localFree"}
    BY <1>2, IInvLoop DEF ShrinkEnd, LoopType
  <2>4. HeapType' /\ Shape' /\ CountsExact' /\ RotationOnInactive'
    BY <2>2, <2>3, Moved, HeadTypes
  <2>. QED
    BY <1>1, <2>4, Assemble
<1>3. CASE UNCHANGED <<links, type, ref, counts, rot>>
  BY <1>1, <1>3, Unmoved, Assemble
<1>. QED
  BY <1>2, <1>3 DEF ShrinkEnd

LEMMA FlushInv ==
  ASSUME IInv, Flush \/ PopPending PROVE IInv'
<1>1. /\ UNCHANGED <<links, type, ref, counts, rot>>
      /\ op' \in {"flush", "popPending"} /\ cur' = prev["pending"]
      /\ ret' = "none" /\ UNCHANGED <<stop, nxt, i, nshrinked, tgt, dest>>
  BY DEF Flush, PopPending
<1>2. cur' \in Cell /\ After(cur') = "pending"
  BY <1>1, Unmoved, HeadTypes
<1>3. LoopType'
  BY <1>1, <1>2, IInvLoop DEF LoopType, Ops
<1>. QED
  BY <1>1, <1>2, <1>3, Unmoved, Assemble

\* A node that is not on the inactive list is not under the rotation cursor.
LEMMA RotationElsewhere ==
  ASSUME IInv, NEW n \in Node, type[n] # "inactive"
  PROVE  rot \in Cell /\ rot # n /\ ListOf(rot) = "inactive"
  BY IInvLoop, NodeIsNoHead DEF ListOf

LEMMA FlushStepInv ==
  ASSUME IInv, FlushStep PROVE IInv'
<1>1. cur \in Node /\ type[cur] = "pending"
  BY OnListIsNode, HeadTypes, IInvLoop DEF FlushStep, IInv, CursorOnList, LoopType
<1>2. prev[cur] \in Cell \ {cur} /\ ListOf(prev[cur]) = "pending"
  BY <1>1, Back
<1>. DEFINE h == IF ref[cur] THEN "active" ELSE "inactive"
<1>3. h \in Counted /\ h \in Types
  BY HeadTypes DEF Counted
<1>4. /\ ListMove(cur, h) /\ type' = [type EXCEPT ![cur] = h] /\ rot' = rot
      /\ counts' = IF type[cur] # h THEN Inc(Dec(counts, type[cur]), h) ELSE counts
      /\ cur' = prev[cur] /\ UNCHANGED <<op, stop, nxt, i, nshrinked, tgt, dest, ret>>
  BY <1>1, <1>3 DEF FlushStep, MoveIn, Dec, Counted
<1>5. ref' \in [Node -> BOOLEAN]
  BY <1>1, RefType DEF FlushStep, MoveIn
<1>6. /\ HeapType' /\ Shape' /\ CountsExact' /\ RotationOnInactive'
      /\ \A c \in Cell : After(c) = IF c = cur THEN h ELSE ListOf(c)
  BY <1>1, <1>3, <1>4, <1>5, RotationElsewhere, HeapMoved
<1>7. LoopType' /\ op' = "flush" /\ After(cur') = "pending"
  BY <1>2, <1>4, <1>6, IInvLoop DEF LoopType, FlushStep
<1>. QED
  BY <1>6, <1>7, Assemble

LEMMA FlushEndInv ==
  ASSUME IInv, FlushEnd PROVE IInv'
<1>1. LoopType' /\ op' = "idle"
  BY ReturnType, IInvLoop DEF FlushEnd, LoopType
<1>. QED
  BY <1>1, Unmoved, Assemble DEF FlushEnd

\* The node bpf_common_lru_pop_free() finds is free.
LEMMA FoundIsFree ==
  ASSUME IInv, Found # Null
  PROVE  Found \in Node /\ type[Found] \in {"free", "localFree"}
<1>1. CASE ~IsEmpty("localFree")
  BY <1>1, EndsOfList, HeadTypes DEF Found
<1>2. CASE IsEmpty("localFree") /\ ~IsEmpty("free")
  BY <1>2, EndsOfList, HeadTypes DEF Found
<1>. QED
  BY <1>1, <1>2 DEF Found

LEMMA PopFreeInv ==
  ASSUME IInv, PopFree PROVE IInv'
<1>1. op' = "idle" /\ UNCHANGED <<op, loop>> /\ ret' = Found
  BY DEF PopFree
<1>2. ret' \in Node \cup {Null, "none"}
  BY <1>1, FoundIsFree
<1>3. LoopType'
  BY <1>1, <1>2, IInvLoop DEF LoopType, loop
<1>4. CASE Found = Null
  BY <1>1, <1>3, <1>4, Unmoved, Assemble DEF PopFree
<1>5. CASE Found # Null
  <2>1. Found \in Node /\ type[Found] \in {"free", "localFree"}
    BY <1>5, FoundIsFree
  <2>2. ListMove(Found, "pending") /\ type' = [type EXCEPT ![Found] = "pending"]
    BY <1>5 DEF PopFree
  <2>3. ref' \in [Node -> BOOLEAN]
    BY <1>5, <2>1, RefType DEF PopFree
  <2>4. /\ counts' = counts
        /\ counts = IF type[Found] # "pending" THEN Inc(Dec(counts, type[Found]), "pending")
                                                ELSE counts
    BY <1>5, <2>1 DEF PopFree, Inc, Dec, Counted
  <2>5. rot' \in Cell /\ rot' # Found /\ ListOf(rot') = "inactive"
    BY <1>5, <2>1, PastOnList, RotationElsewhere DEF PopFree
  <2>6. HeapType' /\ Shape' /\ CountsExact' /\ RotationOnInactive'
    BY <2>1, <2>2, <2>3, <2>4, <2>5, HeapMoved, HeadTypes
  <2>. QED
    BY <1>1, <1>3, <2>6, Assemble
<1>. QED
  BY <1>4, <1>5

LEMMA PushFreeInv ==
  ASSUME IInv, NEW n \in Node, PushFree(n) PROVE IInv'
<1>1. op' = "idle" /\ UNCHANGED <<op, loop>> /\ ret' = "none"
  BY DEF PushFree
<1>2. LoopType'
  BY <1>1, IInvLoop DEF LoopType, loop
<1>3. CASE type[n] = "pending"
  <2>1. /\ ListMove(n, "localFree") /\ type' = [type EXCEPT ![n] = "localFree"] /\ rot' = rot
        /\ counts' = IF type[n] # "localFree" THEN Inc(Dec(counts, type[n]), "localFree")
                                               ELSE counts
    BY <1>3 DEF PushFree, Inc, Dec, Counted
  <2>2. ref' \in [Node -> BOOLEAN]
    BY <1>3, RefType DEF PushFree
  <2>3. HeapType' /\ Shape' /\ CountsExact' /\ RotationOnInactive'
    BY <1>3, <2>1, <2>2, RotationElsewhere, HeapMoved, HeadTypes
  <2>. QED
    BY <1>1, <1>2, <2>3, Assemble
<1>4. CASE type[n] # "pending"
  <2>1. Move(n, "free") /\ type[n] # "none"
    BY <1>4 DEF PushFree
  <2>2. HeapType' /\ Shape' /\ CountsExact' /\ RotationOnInactive'
    BY <2>1, Moved, HeadTypes
  <2>. QED
    BY <1>1, <1>2, <2>2, Assemble
<1>. QED
  BY <1>3, <1>4

LEMMA PopPendingStepInv ==
  ASSUME IInv, PopPendingStep PROVE IInv'
<1>1. cur \in Node /\ type[cur] = "pending"
  BY OnListIsNode, HeadTypes, IInvLoop DEF PopPendingStep, IInv, CursorOnList, LoopType
<1>2. prev[cur] \in Cell \ {cur} /\ ListOf(prev[cur]) = "pending"
  BY <1>1, Back
<1>3. CASE ref[cur] /\ stop # "pending"
  <2>1. /\ UNCHANGED <<links, type, ref, counts, rot>> /\ cur' = prev[cur]
        /\ UNCHANGED <<op, stop, nxt, i, nshrinked, tgt, dest, ret>>
    BY <1>3 DEF PopPendingStep
  <2>2. After(cur') = "pending"
    BY <1>2, <2>1, Unmoved
  <2>3. LoopType' /\ op' = "popPending"
    BY <1>2, <2>1, IInvLoop DEF LoopType, PopPendingStep
  <2>. QED
    BY <2>1, <2>2, <2>3, Unmoved, Assemble
<1>4. CASE ~(ref[cur] /\ stop # "pending")
  <2>1. /\ ListMove(cur, "pending") /\ type' = type /\ counts' = counts /\ rot' = rot
        /\ ret' = cur /\ Return
    BY <1>4 DEF PopPendingStep
  <2>2. type' = [type EXCEPT ![cur] = "pending"]
    BY <1>1, <2>1 DEF IInv, TypeOK
  <2>3. ref' \in [Node -> BOOLEAN]
    BY <1>1, <1>4, RefType DEF PopPendingStep
  <2>4. HeapType' /\ Shape' /\ CountsExact' /\ RotationOnInactive'
    BY <1>1, <2>1, <2>2, <2>3, RotationElsewhere, HeapMoved, HeadTypes
  <2>5. LoopType' /\ op' = "idle"
    BY <1>1, <2>1, ReturnType
  <2>. QED
    BY <2>4, <2>5, Assemble
<1>. QED
  BY <1>3, <1>4

LEMMA PopPendingEndInv ==
  ASSUME IInv, PopPendingEnd PROVE IInv'
<1>1. UNCHANGED <<links, type, ref, counts, rot>> /\ ret' = ret
  BY DEF PopPendingEnd
<1>2. CASE Return
  <2>1. LoopType' /\ op' = "idle"
    BY <1>1, <1>2, ReturnType, IInvLoop DEF LoopType
  <2>. QED
    BY <1>1, <2>1, Unmoved, Assemble
<1>3. CASE /\ stop' = "pending" /\ cur' = prev["pending"]
           /\ UNCHANGED <<op, nxt, i, nshrinked, tgt, dest>>
  <2>1. cur' \in Cell /\ After(cur') = "pending"
    BY <1>1, <1>3, Unmoved, HeadTypes
  <2>2. LoopType' /\ op' = "popPending"
    BY <1>1, <1>3, <2>1, IInvLoop, HeadTypes DEF LoopType, PopPendingEnd
  <2>. QED
    BY <1>1, <2>1, <2>2, Unmoved, Assemble
<1>. QED
  BY <1>2, <1>3 DEF PopPendingEnd

LEMMA AllocInv ==
  ASSUME IInv, Alloc PROVE IInv'
<1>. DEFINE n == next["free"]
<1>1. n \in Node /\ type[n] = "free"
  BY EndsOfList, HeadTypes DEF Alloc
<1>2. /\ ListMove(n, "inactive") /\ type' = [type EXCEPT ![n] = "inactive"] /\ rot' = rot
      /\ counts' = IF type[n] # "inactive" THEN Inc(Dec(counts, type[n]), "inactive") ELSE counts
      /\ op' = "idle" /\ UNCHANGED <<op, loop>> /\ ret' = n
  BY <1>1 DEF Alloc, Dec, Counted
<1>3. ref' \in [Node -> BOOLEAN]
  BY <1>1, RefType DEF Alloc
<1>4. HeapType' /\ Shape' /\ CountsExact' /\ RotationOnInactive'
  BY <1>1, <1>2, <1>3, RotationElsewhere, HeapMoved, HeadTypes
<1>5. LoopType'
  BY <1>1, <1>2, IInvLoop DEF LoopType, loop
<1>. QED
  BY <1>2, <1>4, <1>5, Assemble
-----------------------------------------------------------------------------
(* The invariant, and the properties it implies. *)

LEMMA InitInv == Init => IInv
<1>. SUFFICES ASSUME Init PROVE IInv
  OBVIOUS
<1>1. /\ \A c \in Cell : next[c] = c /\ prev[c] = c
      /\ \A n \in Node : type[n] = "none"
      /\ rot = "inactive" /\ op = "populate"
  BY DEF Init
<1>2. TypeOK
  <2>1. ref \in [Node -> BOOLEAN]
    BY DEF Init
  <2>. QED
    BY <2>1, HeadTypes DEF Init, TypeOK, Ops, Counted
<1>3. LinksCoherent /\ Unlinked
  BY <1>1, NodeIsNoHead DEF LinksCoherent, Unlinked
<1>4. NoNodeLost
  BY <1>1 DEF NoNodeLost
<1>5. CountsExact
  <2>1. \A t \in Counted : {n \in Node : type[n] = t} = {}
    BY <1>1 DEF Counted
  <2>. QED
    BY <2>1, FS_EmptySet DEF CountsExact, Init
<1>6. RotationOnInactive /\ CursorOnList
  BY <1>1, HeadTypes DEF RotationOnInactive, CursorOnList
<1>. QED
  BY <1>2, <1>3, <1>4, <1>5, <1>6 DEF IInv, Shape

LEMMA StutterInv ==
  ASSUME IInv, UNCHANGED vars PROVE IInv'
<1>1. /\ HeapType' /\ Shape' /\ CountsExact' /\ RotationOnInactive'
      /\ \A c \in Cell : After(c) = ListOf(c)
  BY Unmoved DEF vars, links
<1>2. LoopType' /\ UNCHANGED <<op, cur, nxt>> /\ cur \in Cell /\ nxt \in Cell
  BY IInvLoop DEF vars, loop, LoopType
<1>3. CursorOnList
  BY DEF IInv
<1>. QED
  BY <1>1, <1>2, <1>3, Assemble DEF CursorOnList

LEMMA NextInv == IInv /\ [Next]_vars => IInv'
<1>. SUFFICES ASSUME IInv, [Next]_vars PROVE IInv'
  OBVIOUS
<1>1. CASE UNCHANGED vars
  BY <1>1, StutterInv
<1>2. CASE LoopStep
  BY <1>2, PopulateInv, PopulateEndInv, RotateActiveStepInv, RotateActiveEndInv,
     RotateInactiveStepInv, RotateInactiveEndInv, ShrinkStepInv, ShrinkEndInv,
     FlushStepInv, FlushEndInv, PopPendingStepInv, PopPendingEndInv DEF LoopStep
<1>3. CASE Next /\ ~LoopStep
  BY <1>3, SetRefInv, RotateInv, ShrinkInv, FlushInv, PopFreeInv, PushFreeInv, AllocInv DEF Next
<1>. QED
  BY <1>1, <1>2, <1>3

LEMMA Invariance == Spec => []IInv
  BY InitInv, NextInv, PTL DEF Spec

\* The state of the LRU lists is always well typed; in particular no counter of
\* bpf_lru_list_count_dec() goes below zero.
THEOREM TypeCorrect == Spec => []TypeOK
<1>1. IInv => TypeOK
  BY DEF IInv
<1>. QED
  BY <1>1, Invariance, PTL

\* Every node hangs, forwards and backwards, on the list its type byte names,
\* between any two iterations of any loop of bpf_lru_list.c.
THEOREM ListsCoherent == Spec => []LinksCoherent
<1>1. IInv => LinksCoherent
  BY DEF IInv, Shape
<1>. QED
  BY <1>1, Invariance, PTL

\* No sequence of list_move()s links nodes in a ring that has no list head.
THEOREM NothingLost == Spec => []NoNodeLost
<1>1. IInv => NoNodeLost
  BY DEF IInv, Shape
<1>. QED
  BY <1>1, Invariance, PTL

\* counts[] is the number of nodes on the active and on the inactive list.
THEOREM CountersExact == Spec => []CountsExact
<1>1. IInv => CountsExact
  BY DEF IInv
<1>. QED
  BY <1>1, Invariance, PTL

\* next_inactive_rotation never points to a node that has left the inactive list.
THEOREM CursorStays == Spec => []RotationOnInactive
<1>1. IInv => RotationOnInactive
  BY DEF IInv
<1>. QED
  BY <1>1, Invariance, PTL

\* The conditions of the WARN_ON_ONCE()s that the shim compiles out never hold.
THEOREM NeverWarns == Spec => []NoWarning
<1>1. IInv => NoWarning
  <2>. SUFFICES ASSUME IInv PROVE NoWarning
    OBVIOUS
  <2>1. cur \in Node => ListOf(cur) = type[cur]
    BY NodeIsNoHead DEF ListOf
  <2>. QED
    BY <2>1 DEF IInv, CursorOnList, NoWarning, LruTypes, LocalTypes
<1>. QED
  BY <1>1, Invariance, PTL

\* Everything bpf_lru_list.c keeps by hand agrees at every step: lists, type bytes,
\* counters, rotation cursor and the cursors of the scan under way.
THEOREM ListsAreSound == Spec => []ListsSound
<1>1. TypeOK /\ LinksCoherent /\ CountsExact /\ RotationOnInactive /\ NoNodeLost /\ NoWarning
        => ListsSound
  BY DEF ListsSound
<1>. QED
  BY <1>1, TypeCorrect, ListsCoherent, NothingLost, CountersExact, CursorStays, NeverWarns, PTL
-----------------------------------------------------------------------------
(* The lists implement the pool. *)

InUse == {"active", "inactive", "pending"}

\* Once bpf_lru_populate() is done every node is on some list.
Populated == op # "populate" => \A n \in Node : type[n] # "none"

\* What a step may do to the type bytes: nothing, or put one node on a list.
Retyped == \/ type' = type
           \/ \E n \in Node, h \in Types : type' = [type EXCEPT ![n] = h]

\* An empty list has no node of its type.
LEMMA EmptyList ==
  ASSUME IInv, NEW t \in Types, IsEmpty(t), NEW n \in Node
  PROVE  type[n] # t
<1>. DEFINE S == {m \in Node : type[m] = t}
<1>1. TypeOK /\ Shape /\ t # "none"
  BY HeadTypes DEF IInv
<1>2. \A m \in S : prev[m] \in S
  <2>. SUFFICES ASSUME NEW m \in S PROVE prev[m] \in S
    OBVIOUS
  <2>1. prev[m] \in Cell /\ ListOf(prev[m]) = t /\ next[prev[m]] = m
    BY <1>1, Back, NodeIsNoHead DEF Shape, LinksCoherent
  <2>2. prev[m] # t
    BY <2>1, NodeIsNoHead DEF IsEmpty
  <2>. QED
    BY <2>1, <2>2, OnListIsNode
<1>3. S \in SUBSET Node /\ \A m \in S : type[m] # "none"
  BY <1>1
<1>4. S = {}
  BY <1>1, <1>2, <1>3 DEF Shape, NoNodeLost
<1>. QED
  BY <1>4

\* pop_free() finds nothing only when every node is in use.
LEMMA NothingFound ==
  ASSUME IInv, Populated, op # "populate", Found = Null
  PROVE  Used = Node
<1>1. next["localFree"] \in Cell /\ next["free"] \in Cell
  BY HeadTypes DEF IInv, TypeOK
<1>2. IsEmpty("localFree") /\ IsEmpty("free")
  BY <1>1, LruAssumption DEF Found
<1>3. \A n \in Node : type[n] # "localFree" /\ type[n] # "free" /\ type[n] # "none"
  BY <1>2, EmptyList, HeadTypes DEF Populated
<1>4. \A n \in Node : type[n] \in InUse
  BY <1>3 DEF IInv, TypeOK, Types, LruTypes, LocalTypes, InUse
<1>. QED
  BY <1>4 DEF Used, InUse

\* The nodes in use after one node has been put on list h.
LEMMA UsedMoved ==
  ASSUME IInv, NEW n \in Node, NEW h \in Types, type' = [type EXCEPT ![n] = h]
  PROVE  /\ h \in InUse => Used' = Used \cup {n}
         /\ h \notin InUse => Used' = Used \ {n}
         /\ n \in Used <=> type[n] \in InUse
  BY DEF IInv, TypeOK, Used, InUse

LEMMA UsedKept == ASSUME type' = type PROVE Used' = Used
  BY DEF Used

LEMMA InUseTypes ==
  /\ InUse \subseteq Types /\ Counted \subseteq InUse
  /\ "free" \notin InUse /\ "localFree" \notin InUse /\ "none" \notin InUse
  BY DEF InUse, Types, LruTypes, LocalTypes, Counted

\* The loops' steps: nothing, or an eviction, or the end of pop_pending().
LEMMA LoopPool ==
  ASSUME IInv, LoopStep
  PROVE  /\ [Pool!Next]_<<Used, ret>>
         /\ Retyped
         /\ op' = "populate" \/ op # "populate" \/ \A n \in Node : type'[n] # "none"
<1>1. CASE \E n \in Node : Populate(n)
  <2>1. PICK n \in Node : Populate(n)
    BY <1>1
  <2>2. /\ type[n] = "none" /\ type' = [type EXCEPT ![n] = "free"] /\ ret' = ret
        /\ op' = "populate"
    BY <2>1 DEF Populate
  <2>3. Used' = Used \ {n} /\ n \notin Used
    BY <2>2, UsedMoved, HeadTypes, InUseTypes
  <2>4. Used' = Used
    BY <2>3
  <2>. QED
    BY <2>2, <2>4, HeadTypes DEF Retyped
<1>2. CASE PopulateEnd \/ RotateActiveEnd \/ RotateInactiveEnd \/ FlushEnd \/ PopPendingEnd
  <2>1. type' = type /\ ret' = ret
    BY <1>2 DEF PopulateEnd, RotateActiveEnd, RotateInactiveEnd, FlushEnd, PopPendingEnd
  <2>2. op # "populate" \/ \A n \in Node : type'[n] # "none"
    BY <1>2, <2>1 DEF PopulateEnd, RotateActiveEnd, RotateInactiveEnd, FlushEnd, PopPendingEnd
  <2>. QED
    BY <2>1, <2>2, UsedKept DEF Retyped
<1>3. CASE RotateActiveStep
  <2>1. cur \in Node /\ type[cur] = "active" /\ op # "populate"
    BY <1>3, OnListIsNode, HeadTypes, IInvLoop DEF RotateActiveStep, IInv, CursorOnList, LoopType
  <2>2. PICK h \in Counted : type' = [type EXCEPT ![cur] = h]
    BY <1>3 DEF RotateActiveStep, Move, MoveLinks, Counted
  <2>3. Used' = Used \cup {cur} /\ cur \in Used
    BY <2>1, <2>2, UsedMoved, HeadTypes, InUseTypes DEF InUse
  <2>4. Used' = Used /\ ret' = ret
    BY <1>3, <2>3 DEF RotateActiveStep
  <2>. QED
    BY <2>1, <2>2, <2>4, HeadTypes DEF Retyped
<1>4. CASE RotateInactiveStep
  <2>1. op # "populate" /\ ret' = ret
    BY <1>4 DEF RotateInactiveStep
  <2>2. CASE type' = type
    BY <2>1, <2>2, UsedKept DEF Retyped
  <2>3. CASE cur # "inactive" /\ MoveLinks(cur, "active")
    <3>1. cur \in Node /\ type[cur] = "inactive"
      BY <1>4, <2>3, OnListIsNode, HeadTypes, IInvLoop
         DEF RotateInactiveStep, IInv, CursorOnList, LoopType
    <3>2. type' = [type EXCEPT ![cur] = "active"]
      BY <2>3 DEF MoveLinks
    <3>3. Used' = Used
      BY <3>1, <3>2, UsedMoved, HeadTypes, ZenonT(60) DEF InUse
    <3>. QED
      BY <2>1, <3>1, <3>2, <3>3, HeadTypes DEF Retyped
  <2>. QED
    BY <1>4, <2>2, <2>3 DEF RotateInactiveStep
<1>5. CASE ShrinkStep
  <2>1. cur \in Node /\ type[cur] = "inactive" /\ op # "populate" /\ ret' = ret
        /\ dest \in {"free", "localFree"}
    BY <1>5, OnListIsNode, HeadTypes, IInvLoop DEF ShrinkStep, IInv, CursorOnList, LoopType
  <2>2. CASE type' = [type EXCEPT ![cur] = "active"]
    <3>1. Used' = Used
      BY <2>1, <2>2, UsedMoved, HeadTypes, ZenonT(60) DEF InUse
    <3>. QED
      BY <2>1, <2>2, <3>1, HeadTypes DEF Retyped
  <2>3. CASE type' = [type EXCEPT ![cur] = dest]
    <3>1. cur \in Used /\ Used' = Used \ {cur}
      BY <2>1, <2>3, UsedMoved, HeadTypes, InUseTypes DEF InUse
    <3>2. Pool!Evict
      BY <2>1, <3>1 DEF Pool!Evict
    <3>. QED
      BY <2>1, <2>3, <3>2, HeadTypes DEF Retyped, Pool!Next
  <2>. QED
    BY <1>5, <2>2, <2>3 DEF ShrinkStep, Move, MoveLinks, MoveToFree
<1>6. CASE ShrinkEnd
  <2>1. op # "populate" /\ ret' = ret /\ dest \in {"free", "localFree"}
    BY <1>6, IInvLoop DEF ShrinkEnd, LoopType
  <2>2. CASE nshrinked = 0 /\ ~IsEmpty(ForceShrinkList)
    <3>. DEFINE n == prev[ForceShrinkList]
    <3>1. ForceShrinkList \in Counted
      BY DEF ForceShrinkList, Counted
    <3>2. n \in Node /\ type[n] \in Counted
      BY <2>2, <3>1, EndsOfList, HeadTypes
    <3>3. type' = [type EXCEPT ![n] = dest]
      BY <1>6, <2>2 DEF ShrinkEnd, MoveToFree
    <3>4. n \in Used /\ Used' = Used \ {n}
      BY <2>1, <3>2, <3>3, UsedMoved, HeadTypes, InUseTypes
    <3>5. Pool!Evict
      BY <2>1, <3>4 DEF Pool!Evict
    <3>. QED
      BY <2>1, <3>2, <3>3, <3>5, HeadTypes DEF Retyped, Pool!Next
  <2>3. CASE type' = type
    BY <2>1, <2>3, UsedKept DEF Retyped
  <2>. QED
    BY <1>6, <2>2, <2>3 DEF ShrinkEnd
<1>7. CASE FlushStep
  <2>1. cur \in Node /\ type[cur] = "pending" /\ op # "populate" /\ ret' = ret
    BY <1>7, OnListIsNode, HeadTypes, IInvLoop DEF FlushStep, IInv, CursorOnList, LoopType
  <2>2. PICK h \in Counted : type' = [type EXCEPT ![cur] = h]
    BY <1>7 DEF FlushStep, MoveIn, Counted
  <2>3. Used' = Used
    BY <2>1, <2>2, UsedMoved, HeadTypes, InUseTypes, ZenonT(60) DEF InUse
  <2>. QED
    BY <2>1, <2>2, <2>3, HeadTypes DEF Retyped
<1>8. CASE PopPendingStep
  <2>1. cur \in Node /\ type[cur] = "pending" /\ op # "populate" /\ type' = type
    BY <1>8, OnListIsNode, HeadTypes, IInvLoop DEF PopPendingStep, IInv, CursorOnList, LoopType
  <2>2. Used' = Used /\ cur \in Used
    BY <2>1, UsedKept DEF Used
  <2>3. ret' = ret \/ ret' = cur
    BY <1>8 DEF PopPendingStep
  <2>4. ret' = cur => Pool!Steal
    BY <2>2 DEF Pool!Steal
  <2>. QED
    BY <2>1, <2>2, <2>3, <2>4 DEF Retyped, Pool!Next
<1>. QED
  BY <1>1, <1>2, <1>3, <1>4, <1>5, <1>6, <1>7, <1>8 DEF LoopStep

\* The calls that begin or run in one step.
LEMMA CallPool ==
  ASSUME IInv, Populated, Next, ~LoopStep
  PROVE  [Pool!Next]_<<Used, ret>> /\ Retyped /\ (op' = "populate" \/ op # "populate")
<1>1. CASE \E n \in Node : SetRef(n)
  <2>1. type' = type /\ ret' = ret /\ op' = op
    BY <1>1 DEF SetRef
  <2>. QED
    BY <2>1, UsedKept DEF Retyped
<1>2. CASE Rotate \/ (\E n \in Targets, t \in {"free", "localFree"} : Shrink(n, t))
           \/ Flush \/ PopPending
  <2>1. type' = type /\ ret' = "none" /\ op # "populate"
    BY <1>2 DEF Rotate, Shrink, Flush, PopPending
  <2>2. Pool!Forget
    BY <2>1, UsedKept DEF Pool!Forget
  <2>. QED
    BY <2>1, <2>2 DEF Retyped, Pool!Next
<1>3. CASE PopFree
  <2>1. op # "populate" /\ ret' = Found
    BY <1>3 DEF PopFree
  <2>2. CASE Found = Null
    <3>1. type' = type
      BY <1>3, <2>2 DEF PopFree
    <3>2. Pool!Exhausted
      BY <2>1, <2>2, <3>1, UsedKept, NothingFound DEF Pool!Exhausted
    <3>. QED
      BY <2>1, <3>1, <3>2 DEF Retyped, Pool!Next
  <2>3. CASE Found # Null
    <3>1. Found \in Node /\ type[Found] \in {"free", "localFree"}
      BY <2>3, FoundIsFree
    <3>2. type' = [type EXCEPT ![Found] = "pending"]
      BY <1>3, <2>3 DEF PopFree
    <3>3. Used' = Used \cup {Found} /\ Found \notin Used
      BY <3>1, <3>2, UsedMoved, HeadTypes, InUseTypes DEF InUse
    <3>4. Pool!Get
      BY <2>1, <3>1, <3>3 DEF Pool!Get
    <3>. QED
      BY <2>1, <3>1, <3>2, <3>4, HeadTypes DEF Retyped, Pool!Next
  <2>. QED
    BY <2>2, <2>3
<1>4. CASE \E n \in Node : PushFree(n)
  <2>1. PICK n \in Node : PushFree(n)
    BY <1>4
  <2>2. op # "populate" /\ ret' = "none" /\ type[n] \in InUse
    BY <2>1 DEF PushFree, InUse
  <2>3. PICK h \in {"free", "localFree"} : type' = [type EXCEPT ![n] = h]
    BY <2>1 DEF PushFree, Move, MoveLinks
  <2>4. Used' = Used \ {n} /\ n \in Used
    BY <2>2, <2>3, UsedMoved, HeadTypes, InUseTypes
  <2>5. Pool!Put
    BY <2>2, <2>4 DEF Pool!Put
  <2>. QED
    BY <2>2, <2>3, <2>5, HeadTypes DEF Retyped, Pool!Next
<1>5. CASE Alloc
  <2>. DEFINE n == next["free"]
  <2>1. n \in Node /\ type[n] = "free"
    BY <1>5, EndsOfList, HeadTypes DEF Alloc
  <2>2. op # "populate" /\ ret' = n /\ type' = [type EXCEPT ![n] = "inactive"]
    BY <1>5 DEF Alloc
  <2>3. Used' = Used \cup {n} /\ n \notin Used
    BY <2>1, <2>2, UsedMoved, HeadTypes, InUseTypes DEF InUse
  <2>4. Pool!Get
    BY <2>1, <2>2, <2>3 DEF Pool!Get
  <2>. QED
    BY <2>1, <2>2, <2>4, HeadTypes DEF Retyped, Pool!Next
<1>. QED
  BY <1>1, <1>2, <1>3, <1>4, <1>5 DEF Next

LEMMA PopulatedInv == IInv /\ Populated /\ [Next]_vars => Populated'
<1>. SUFFICES ASSUME IInv, Populated, [Next]_vars, op' # "populate", NEW n \in Node
              PROVE  type'[n] # "none"
  BY DEF Populated
<1>1. CASE UNCHANGED vars
  BY <1>1 DEF vars, Populated
<1>2. CASE Next
  <2>1. Retyped /\ (op # "populate" \/ \A m \in Node : type'[m] # "none")
    BY <1>2, LoopPool, CallPool
  <2>2. CASE op # "populate"
    <3>1. type[n] # "none" /\ type \in [Node -> Types \cup {"none"}]
      BY <2>2 DEF Populated, IInv, TypeOK
    <3>. QED
      BY <2>1, <3>1, HeadTypes DEF Retyped
  <2>3. CASE op = "populate"
    BY <2>1, <2>3
  <2>. QED
    BY <2>2, <2>3
<1>. QED
  BY <1>1, <1>2

\* bpf_lru_list.c is a pool of nodes: pop_free() and alloc() hand out only nodes
\* nobody uses, pop_free() returns NULL only when all are in use, and a node
\* leaves use only by push_free() or by being evicted.
THEOREM ListIsPool == Spec => ImplementsPool
<1>1. Init => Pool!Init
  <2>. SUFFICES ASSUME Init PROVE Pool!Init
    OBVIOUS
  <2>1. Used = {} /\ ret = "none"
    BY DEF Init, Used
  <2>. QED
    BY <2>1 DEF Pool!Init
<1>2. Init => Populated
  BY DEF Init, Populated
<1>3. IInv /\ Populated /\ [Next]_vars => [Pool!Next]_<<Used, ret>>
  <2>. SUFFICES ASSUME IInv, Populated, [Next]_vars PROVE [Pool!Next]_<<Used, ret>>
    OBVIOUS
  <2>1. CASE UNCHANGED vars
    BY <2>1, UsedKept DEF vars
  <2>2. CASE Next
    BY <2>2, LoopPool, CallPool
  <2>. QED
    BY <2>1, <2>2
<1>4. Spec => []Populated
  BY <1>2, Invariance, PopulatedInv, PTL DEF Spec
<1>. QED
  BY <1>1, <1>3, <1>4, Invariance, PTL DEF Spec, ImplementsPool, Pool!Spec

\* __bpf_lru_list_shrink() evicts at least one node whenever the active or the
\* inactive list has one, however many lookups set reference bits meanwhile.
THEOREM ShrinkNeverFails == Spec => ShrinkMakesRoom
<1>1. IInv /\ [Next]_vars => [RoomMade]_vars
  <2>. SUFFICES ASSUME IInv, Next, op' = "idle", op \in {"shrink", "shrunk"},
                       NEW n \in Node, type[n] \in Counted
                PROVE  \/ nshrinked > 0
                       \/ \E m \in Node : type[m] \in Counted /\ type'[m] \notin Counted
    BY DEF RoomMade
  <2>1. ShrinkEnd
    BY DEF Next, LoopStep, Populate, PopulateEnd, RotateActiveStep, RotateActiveEnd,
           RotateInactiveStep, RotateInactiveEnd, ShrinkStep, FlushStep, FlushEnd,
           PopPendingStep, PopPendingEnd, SetRef, Rotate, Shrink, Flush, PopFree,
           PushFree, PopPending, Alloc
  <2>2. nshrinked \in Nat /\ dest \in {"free", "localFree"}
    BY IInvLoop DEF LoopType
  <2>3. CASE nshrinked = 0
    <3>. DEFINE m == prev[ForceShrinkList]
    <3>1. ForceShrinkList \in Counted
      BY DEF ForceShrinkList, Counted
    <3>2. ~IsEmpty("active") \/ ~IsEmpty("inactive")
      BY EmptyList, HeadTypes DEF Counted
    <3>3. ~IsEmpty(ForceShrinkList)
      BY <3>2 DEF ForceShrinkList
    <3>4. m \in Node /\ type[m] \in Counted
      BY <3>1, <3>3, EndsOfList, HeadTypes
    <3>5. type' = [type EXCEPT ![m] = dest]
      BY <2>1, <2>3, <3>3 DEF ShrinkEnd, MoveToFree
    <3>6. type'[m] = dest
      BY <3>4, <3>5 DEF IInv, TypeOK
    <3>. QED
      BY <2>2, <3>4, <3>6 DEF Counted
  <2>. QED
    BY <2>2, <2>3
<1>. QED
  BY <1>1, Invariance, PTL DEF Spec, ShrinkMakesRoom
=============================================================================
