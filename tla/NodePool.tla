------------------------------ MODULE NodePool ------------------------------
(***************************************************************************)
(* What the BPF LRU list promises the map that uses it: a pool of nodes.   *)
(* A node is handed out only while nobody uses it, a request fails only    *)
(* when every node is in use, and the pool may take nodes back on its own  *)
(* (eviction).                                                             *)
(***************************************************************************)
CONSTANTS Node,   \* the nodes
          Null    \* the answer to a request that fails

VARIABLES used,   \* the nodes in use
          ret     \* the last request's node or Null; "none" after anything else

Init == used = {} /\ ret = "none"

\* Pop a node nobody uses.
Get == \E n \in Node \ used :
         /\ used' = used \cup {n}
         /\ ret' = n

\* Every node is in use.
Exhausted ==
  /\ used = Node
  /\ ret' = Null
  /\ UNCHANGED used

\* The owner gives a node back.
Put == \E n \in used :
         /\ used' = used \ {n}
         /\ ret' = "none"

\* A node is evicted.
Evict == \E n \in used :
           /\ used' = used \ {n}
           /\ UNCHANGED ret

\* A node in use is taken over by another user.
Steal == \E n \in used :
           /\ ret' = n
           /\ UNCHANGED used

\* Another operation of the pool begins.
Forget == ret' = "none" /\ UNCHANGED used

Next == Get \/ Exhausted \/ Put \/ Evict \/ Steal \/ Forget

Spec == Init /\ [][Next]_<<used, ret>>
=============================================================================
