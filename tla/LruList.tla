------------------------------ MODULE LruList -------------------------------
(***************************************************************************)
(* shims/kernel/bpf/bpf_lru_list.c: the active, inactive and free lists of *)
(* a BPF LRU map, the local free and pending lists in front of them, the   *)
(* counters and the rotation cursor.                                       *)
(*                                                                         *)
(* The lists are the code's circular doubly linked lists: next and prev    *)
(* are functions on cells, and the head of a list is the list's own name.  *)
(* The functions that loop over a list run one iteration per step; the     *)
(* caller holds the list lock (op # "idle"), so the only thing that        *)
(* interleaves with them is bpf_lru_node_set_ref, which takes no lock.     *)
(* WARN_ON_ONCE is (0) in the shim: its conditions guard nothing, and      *)
(* NoWarning states that they never hold.                                  *)
(***************************************************************************)
EXTENDS Integers, FiniteSets

CONSTANTS Node,      \* the elements' struct bpf_lru_node
          NrScans,   \* lru->nr_scans
          Targets,   \* values of tgt_nshrink
          Null       \* the NULL pop_free() returns

LruTypes == {"active", "inactive", "free"}
LocalTypes == {"localFree", "pending"}
Types == LruTypes \cup LocalTypes
Counted == {"active", "inactive"}
Cell == Node \cup Types

ASSUME LruAssumption ==
  /\ IsFiniteSet(Node)
  /\ Node \cap (Types \cup {"none"}) = {}
  /\ Null \notin Cell \cup {"none"}
  /\ NrScans \in Nat \ {0}
  /\ Targets \subseteq Nat \ {0}

VARIABLES
  next, prev,   \* struct list_head of every node and of every list head
  type, ref,    \* node->type, node->ref
  counts,       \* l->counts
  rot,          \* l->next_inactive_rotation
  op,           \* the function that holds the lock
  cur, stop,    \* its loop's cursor and the cell it stops at
  nxt,          \* rotate_inactive()'s next
  i, nshrinked, \* loop counters
  tgt, dest,    \* tgt_nshrink and tgt_free_type of shrink()
  ret           \* the node, or NULL, the call that just ended popped; or "none"

links == <<next, prev>>
loop == <<cur, stop, nxt, i, nshrinked, tgt, dest>>
vars == <<links, type, ref, counts, rot, op, loop, ret>>
-----------------------------------------------------------------------------
(* list_head *)

IsEmpty(h) == next[h] = h

\* list_move(n, h): take n out and put it right behind head h.
ListMove(n, h) ==
  LET cutNext == [next EXCEPT ![prev[n]] = next[n]]
      cutPrev == [prev EXCEPT ![next[n]] = prev[n]]
      first   == cutNext[h]
  IN  /\ next' = [cutNext EXCEPT ![n] = first, ![h] = n]
      /\ prev' = [cutPrev EXCEPT ![first] = n, ![n] = h]

\* bpf_lru_list_count_inc(), bpf_lru_list_count_dec()
Inc(c, t) == IF t \in Counted THEN [c EXCEPT ![t] = @ + 1] ELSE c

Dec(c, t) == IF t \in Counted THEN [c EXCEPT ![t] = @ - 1] ELSE c

\* Mutant of RotationPast: the cursor is left on the node that moves away.
RotationKept(n) == rot

\* The cursor steps back when the node under it is moved.
RotationPast(n) == IF rot = n THEN prev[n] ELSE rot

\* __bpf_lru_node_move() without the cursor, which the callers add.
MoveLinks(n, t) ==
  /\ counts' = IF type[n] # t THEN Inc(Dec(counts, type[n]), t) ELSE counts
  /\ type' = [type EXCEPT ![n] = t]
  /\ ref' = [ref EXCEPT ![n] = FALSE]
  /\ ListMove(n, t)

\* __bpf_lru_node_move()
Move(n, t) == MoveLinks(n, t) /\ rot' = RotationPast(n)

\* __bpf_lru_node_move_to_free(): ref is left as it is.
MoveToFree(n, t) ==
  /\ rot' = RotationPast(n)
  /\ counts' = Dec(counts, type[n])
  /\ type' = [type EXCEPT ![n] = t]
  /\ ListMove(n, t)
  /\ UNCHANGED ref

\* __bpf_lru_node_move_in()
MoveIn(n, t) ==
  /\ counts' = Inc(counts, t)
  /\ type' = [type EXCEPT ![n] = t]
  /\ ref' = [ref EXCEPT ![n] = FALSE]
  /\ ListMove(n, t)
  /\ UNCHANGED rot

\* The function's local variables are gone.
NoLoop ==
  /\ cur' = "free" /\ stop' = Null /\ nxt' = "free"
  /\ i' = 0 /\ nshrinked' = 0 /\ tgt' = 0 /\ dest' = "free"

\* The function returns and gives the lock back.
Return == op' = "idle" /\ NoLoop
-----------------------------------------------------------------------------
(* bpf_lru_node_set_ref(): a lookup hit, at any time, without the lock. *)

SetRef(n) ==
  /\ ref' = [ref EXCEPT ![n] = TRUE]
  /\ UNCHANGED <<links, type, counts, rot, op, loop, ret>>
-----------------------------------------------------------------------------
(* __bpf_lru_list_rotate() and its two halves. *)

InactiveLow == counts["inactive"] < counts["active"]

\* The head of __bpf_lru_list_rotate_inactive().
EnterRotateInactive ==
  IF IsEmpty("inactive")
  THEN Return
  ELSE /\ op' = "rotateInactive"
       /\ cur' = rot
       /\ stop' = IF next[rot] = "inactive" THEN next["inactive"] ELSE next[rot]
       /\ nxt' = "inactive"
       /\ i' = 0
       /\ UNCHANGED <<nshrinked, tgt, dest>>

Rotate ==
  /\ op = "idle"
  /\ \/ /\ InactiveLow
        /\ op' = "rotateActive"
        /\ cur' = prev["active"] /\ stop' = next["active"] /\ i' = 0
        /\ UNCHANGED <<nxt, nshrinked, tgt, dest>>
     \/ ~InactiveLow /\ EnterRotateInactive
  /\ ret' = "none"
  /\ UNCHANGED <<links, type, ref, counts, rot>>

\* One iteration of __bpf_lru_list_rotate_active(): from the tail, referenced
\* nodes go back to the head of the list and the others to the inactive list.
\* The list is not empty (InactiveLow), so the break at first_node ends the loop
\* before it comes to the head.
RotateActiveStep ==
  /\ op = "rotateActive"
  /\ cur # "active"
  /\ Move(cur, IF ref[cur] THEN "active" ELSE "inactive")
  /\ IF i + 1 = NrScans \/ cur = stop
     THEN op' = "rotatedActive" /\ NoLoop
     ELSE /\ cur' = prev[cur] /\ i' = i + 1
          /\ UNCHANGED <<op, stop, nxt, nshrinked, tgt, dest>>
  /\ UNCHANGED ret

RotateActiveEnd ==
  /\ op = "rotatedActive"
  /\ EnterRotateInactive
  /\ UNCHANGED <<links, type, ref, counts, rot, ret>>

\* Mutant of LastScanned: the loop misses its last node.
LastScannedNever == FALSE

\* The cell at which one turn around the inactive list is complete.
LastScanned == cur = stop

\* One iteration of __bpf_lru_list_rotate_inactive(): from the cursor
\* backwards, skipping the head, referenced nodes are promoted.
RotateInactiveStep ==
  /\ op = "rotateInactive"
  /\ i < NrScans
  /\ \/ /\ cur = "inactive"
        /\ cur' = prev[cur]
        /\ UNCHANGED <<links, type, ref, counts, rot, op, stop, nxt, i, nshrinked, tgt, dest>>
     \/ /\ cur # "inactive"
        /\ IF ref[cur] THEN MoveLinks(cur, "active") ELSE UNCHANGED <<links, type, ref, counts>>
        /\ IF LastScanned
           THEN rot' = prev[cur] /\ Return
           ELSE /\ rot' = IF ref[cur] THEN RotationPast(cur) ELSE rot
                /\ cur' = prev[cur] /\ nxt' = prev[cur] /\ i' = i + 1
                /\ UNCHANGED <<op, stop, nshrinked, tgt, dest>>
  /\ UNCHANGED ret

RotateInactiveEnd ==
  /\ op = "rotateInactive"
  /\ i = NrScans
  /\ rot' = nxt
  /\ Return
  /\ UNCHANGED <<links, type, ref, counts, ret>>
-----------------------------------------------------------------------------
(* __bpf_lru_list_shrink(): evict up to tgt_nshrink nodes to a free list. *)

Shrink(n, t) ==
  /\ op = "idle"
  /\ op' = "shrink"
  /\ cur' = prev["inactive"]
  /\ i' = 0 /\ nshrinked' = 0 /\ tgt' = n /\ dest' = t
  /\ ret' = "none"
  /\ UNCHANGED <<links, type, ref, counts, rot, stop, nxt>>

\* One iteration of __bpf_lru_list_shrink_inactive().
\* __bpf_lru_delete_node() always succeeds in the shim.
ShrinkStep ==
  /\ op = "shrink"
  /\ cur # "inactive"
  /\ IF ref[cur] THEN Move(cur, "active") /\ UNCHANGED nshrinked
                 ELSE MoveToFree(cur, dest) /\ nshrinked' = nshrinked + 1
  /\ IF nshrinked' = tgt \/ i + 1 = NrScans
     THEN op' = "shrunk" /\ UNCHANGED <<cur, i>>
     ELSE /\ cur' = prev[cur] /\ i' = i + 1
          /\ UNCHANGED op
  /\ UNCHANGED <<stop, nxt, tgt, dest, ret>>

\* Mutant of ForceShrinkList: the active list is never the victim.
ForceShrinkInactive == "inactive"

ForceShrinkList == IF IsEmpty("inactive") THEN "active" ELSE "inactive"

\* The rest of __bpf_lru_list_shrink(): if nothing was evicted, take the tail
\* of the inactive or else of the active list, referenced or not.
ShrinkEnd ==
  /\ op = "shrunk" \/ (op = "shrink" /\ cur = "inactive")
  /\ IF nshrinked = 0 /\ ~IsEmpty(ForceShrinkList)
     THEN MoveToFree(prev[ForceShrinkList], dest)
     ELSE UNCHANGED <<links, type, ref, counts, rot>>
  /\ Return
  /\ UNCHANGED ret
-----------------------------------------------------------------------------
(* The local lists. *)

Flush ==
  /\ op = "idle"
  /\ op' = "flush"
  /\ cur' = prev["pending"]
  /\ ret' = "none"
  /\ UNCHANGED <<links, type, ref, counts, rot, stop, nxt, i, nshrinked, tgt, dest>>

\* One iteration of __local_list_flush().
FlushStep ==
  /\ op = "flush"
  /\ cur # "pending"
  /\ MoveIn(cur, IF ref[cur] THEN "active" ELSE "inactive")
  /\ cur' = prev[cur]
  /\ UNCHANGED <<op, stop, nxt, i, nshrinked, tgt, dest, ret>>

FlushEnd ==
  /\ op = "flush"
  /\ cur = "pending"
  /\ Return
  /\ UNCHANGED <<links, type, ref, counts, rot, ret>>

\* Mutant of Found: the global free list is not tried.
FoundLocal == IF IsEmpty("localFree") THEN Null ELSE next["localFree"]

\* The node bpf_common_lru_pop_free() finds: the local free list first, then
\* one taken over from the global free list.
Found == IF ~IsEmpty("localFree") THEN next["localFree"]
         ELSE IF ~IsEmpty("free") THEN next["free"] ELSE Null

\* bpf_common_lru_pop_free(): a node of the global free list passes through the
\* local one (and loses the cursor, see RotationPast) on its way to pending.
PopFree ==
  /\ op = "idle"
  /\ ret' = Found
  /\ IF Found = Null
     THEN UNCHANGED <<links, type, ref, counts, rot>>
     ELSE /\ type' = [type EXCEPT ![Found] = "pending"]
          /\ ref' = [ref EXCEPT ![Found] = FALSE]
          /\ ListMove(Found, "pending")
          /\ IF type[Found] = "free"
             THEN rot' = RotationPast(Found) /\ counts' = Dec(counts, type[Found])
             ELSE UNCHANGED <<rot, counts>>
  /\ UNCHANGED <<op, loop>>

\* bpf_common_lru_push_free(), by the owner of a node in use.
PushFree(n) ==
  /\ op = "idle"
  /\ type[n] \in {"active", "inactive", "pending"}
  /\ IF type[n] = "pending"
     THEN /\ type' = [type EXCEPT ![n] = "localFree"]
          /\ ref' = [ref EXCEPT ![n] = FALSE]
          /\ ListMove(n, "localFree")
          /\ UNCHANGED <<counts, rot>>
     ELSE Move(n, "free")
  /\ ret' = "none"
  /\ UNCHANGED <<op, loop>>

\* __local_list_pop_pending(), and the caller's __local_list_add_pending() of
\* the node it gets.  stop is "pending" once references are ignored (force).
PopPending ==
  /\ op = "idle"
  /\ op' = "popPending"
  /\ cur' = prev["pending"]
  /\ ret' = "none"
  /\ UNCHANGED <<links, type, ref, counts, rot, stop, nxt, i, nshrinked, tgt, dest>>

PopPendingStep ==
  /\ op = "popPending"
  /\ cur # "pending"
  /\ IF ref[cur] /\ stop # "pending"
     THEN /\ cur' = prev[cur]
          /\ UNCHANGED <<links, ref, op, stop, nxt, i, nshrinked, tgt, dest, ret>>
     ELSE /\ ref' = [ref EXCEPT ![cur] = FALSE]
          /\ ListMove(cur, "pending")
          /\ ret' = cur
          /\ Return
  /\ UNCHANGED <<type, counts, rot>>

PopPendingEnd ==
  /\ op = "popPending"
  /\ cur = "pending"
  /\ IF stop = "pending"
     THEN Return
     ELSE /\ stop' = "pending" /\ cur' = prev["pending"]
          /\ UNCHANGED <<op, nxt, i, nshrinked, tgt, dest>>
  /\ UNCHANGED <<links, type, ref, counts, rot, ret>>

\* bpf_lru_list_alloc(); on an empty free list it only returns NULL.
Alloc ==
  /\ op = "idle"
  /\ ~IsEmpty("free")
  /\ LET n == next["free"] IN
       /\ counts' = Inc(counts, "inactive")
       /\ type' = [type EXCEPT ![n] = "inactive"]
       /\ ref' = [ref EXCEPT ![n] = FALSE]
       /\ ListMove(n, "inactive")
       /\ ret' = n
  /\ UNCHANGED <<rot, op, loop>>
-----------------------------------------------------------------------------
Init ==
  /\ next = [c \in Cell |-> c] /\ prev = [c \in Cell |-> c]
  /\ type = [n \in Node |-> "none"]
  /\ ref = [n \in Node |-> FALSE]
  /\ counts = [t \in Counted |-> 0]
  /\ rot = "inactive"
  /\ op = "populate"
  /\ cur = "free" /\ stop = Null /\ nxt = "free"
  /\ i = 0 /\ nshrinked = 0 /\ tgt = 0 /\ dest = "free"
  /\ ret = "none"

\* One iteration of bpf_lru_populate(); node n is the next of the array.
Populate(n) ==
  /\ op = "populate"
  /\ type[n] = "none"
  /\ type' = [type EXCEPT ![n] = "free"]
  /\ ref' = [ref EXCEPT ![n] = FALSE]
  /\ ListMove(n, "free")
  /\ UNCHANGED <<counts, rot, op, loop, ret>>

PopulateEnd ==
  /\ op = "populate"
  /\ \A n \in Node : type[n] # "none"
  /\ op' = "idle"
  /\ UNCHANGED <<links, type, ref, counts, rot, loop, ret>>

\* A step of the function that holds the lock.
LoopStep ==
  \/ \E n \in Node : Populate(n)
  \/ PopulateEnd
  \/ RotateActiveStep \/ RotateActiveEnd \/ RotateInactiveStep \/ RotateInactiveEnd
  \/ ShrinkStep \/ ShrinkEnd
  \/ FlushStep \/ FlushEnd
  \/ PopPendingStep \/ PopPendingEnd

Next ==
  \/ LoopStep
  \/ \E n \in Node : type[n] # "none" /\ SetRef(n)
  \/ Rotate
  \/ \E n \in Targets, t \in {"free", "localFree"} : Shrink(n, t)
  \/ Flush
  \/ PopFree
  \/ \E n \in Node : PushFree(n)
  \/ PopPending
  \/ Alloc

Spec == Init /\ [][Next]_vars /\ WF_vars(LoopStep)
-----------------------------------------------------------------------------
Ops == {"populate", "idle", "rotateActive", "rotatedActive", "rotateInactive", "shrink",
        "shrunk", "flush", "popPending"}

\* Pointers point to cells, and the unsigned counts[] never go below zero.
TypeOK ==
  /\ next \in [Cell -> Cell] /\ prev \in [Cell -> Cell]
  /\ type \in [Node -> Types \cup {"none"}]
  /\ ref \in [Node -> BOOLEAN]
  /\ counts \in [Counted -> Nat]
  /\ rot \in Cell
  /\ op \in Ops
  /\ cur \in Cell /\ stop \in Cell \cup {Null} /\ nxt \in Cell
  /\ i \in Nat /\ nshrinked \in Nat /\ tgt \in Nat /\ dest \in {"free", "localFree"}
  /\ ret \in Node \cup {Null, "none"}

\* The list a cell is on, according to its type byte.
ListOf(c) == IF c \in Types THEN c ELSE type[c]

\* The links stay coherent, and every node hangs on the list its type names,
\* at every step of every loop (harness invariant 5).
LinksCoherent ==
  /\ \A c \in Cell : next[prev[c]] = c /\ prev[next[c]] = c
  /\ \A c \in Cell : ListOf(next[c]) = ListOf(c)

\* The counters are the lengths of the two counted lists, at every step.
CountsExact == \A t \in Counted : counts[t] = Cardinality({n \in Node : type[n] = t})

\* The cursor rotate_inactive() resumes from is always on the inactive list,
\* whatever the node it pointed to has become.
RotationOnInactive == ListOf(rot) = "inactive"

\* No set of nodes is linked in a ring of its own: walking back from any node
\* of a list ends at the list's head, so a scan from the head misses no node.
NoNodeLost ==
  \A S \in SUBSET Node :
    S # {} /\ (\A n \in S : type[n] # "none") => \E n \in S : prev[n] \notin S

\* The conditions of the WARN_ON_ONCE()s never hold where a loop moves a node.
NoWarning ==
  /\ op \in {"rotateActive", "rotateInactive", "shrink"} /\ cur \in Node
       => type[cur] \in LruTypes
  /\ op = "flush" /\ cur \in Node => type[cur] \in LocalTypes

\* The lists, counters and cursors that bpf_lru_list.c keeps by hand agree at every
\* step of every function, the ones between two iterations of a scan included.
ListsSound ==
  /\ TypeOK /\ LinksCoherent /\ CountsExact /\ RotationOnInactive /\ NoNodeLost /\ NoWarning

\* shrink() comes back empty-handed only when there is no node to evict.
RoomMade ==
  op' = "idle" /\ op \in {"shrink", "shrunk"} /\ (\E n \in Node : type[n] \in Counted)
    => nshrinked > 0 \/ \E n \in Node : type[n] \in Counted /\ type'[n] \notin Counted

\* shrink() never lets a scan end without room: whatever set_ref() did meanwhile,
\* it evicts at least one node if the lists it scans hold one.
ShrinkMakesRoom == [][RoomMade]_vars

\* Every function gives the lock back: no scan runs around its list for ever.
LockReleased == op # "idle" ~> op = "idle"

\* The nodes in use, for the map that owns the list.
Used == {n \in Node : type[n] \in {"active", "inactive", "pending"}}

Pool == INSTANCE NodePool WITH used <- Used

\* The list is a pool of nodes: no node is handed out twice, and pop_free()
\* fails only when every node is in use.
ImplementsPool == Pool!Spec
=============================================================================
