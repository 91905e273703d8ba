----------------------------- MODULE StructOps -----------------------------
(***************************************************************************)
(* struct_ops maps (kernel/bpf/bpf_struct_ops.c): a map's state word and   *)
(* value are published by one update, its reference count is shared by     *)
(* file descriptors, kernel users and links, links are moved from one map  *)
(* to another, and a lock-free lookup reads state, value and the two       *)
(* counters one after the other.                                           *)
(*                                                                         *)
(* Marked external: what the shim leaves to the kernel around it, namely   *)
(* file descriptors, the update that publishes the value, and the swap of  *)
(* a link's map behind the guards of bpf_struct_ops_map_link_update().     *)
(***************************************************************************)
EXTENDS Integers, FiniteSets

CONSTANTS Map, Links, Desc, Null,
          Updatable,   \* the types whose operations provide update()
          MaxRefs      \* bound: references one kind of holder has at a time

StructOpsAssumption ==
  /\ Null \notin Map \cup Desc /\ IsFiniteSet(Links)
  /\ Updatable \subseteq Desc
  /\ MaxRefs \in Nat \ {0}

VARIABLES
  desc, linkable,      \* a map's type and whether it was created with BPF_F_LINK
  state, written,      \* kvalue.common.state; the user's value is complete
  refcnt, usercnt,     \* the counters of struct bpf_map
  gets,                \* ghost: references kernel users hold
  linked,              \* a link's map
  pc, seen, uvalue     \* the lookup: its place, what it read, what it returns

mapVars == <<desc, linkable, state, written, refcnt, usercnt, gets>>
readVars == <<pc, seen, uvalue>>
vars == <<mapVars, linked, readVars>>

NoReply == [value |-> "none", state |-> "none", refs |-> 0]

Unread == -1

NothingSeen == [map |-> Null, state |-> "none", value |-> "none",
                refcnt |-> Unread, usercnt |-> Unread]

Init ==
  /\ desc = [m \in Map |-> Null]
  /\ linkable = [m \in Map |-> FALSE]
  /\ state = [m \in Map |-> "INIT"]
  /\ written = [m \in Map |-> FALSE]
  /\ refcnt = [m \in Map |-> 0]
  /\ usercnt = [m \in Map |-> 0]
  /\ gets = [m \in Map |-> 0]
  /\ linked = [l \in Links |-> Null]
  /\ pc = "idle"
  /\ seen = NothingSeen
  /\ uvalue = NoReply

alloc_check(attr) ==
  /\ attr.key_size = 4
  /\ attr.max_entries = 1
  /\ attr.map_flags \subseteq {"LINK", "VTYPE_BTF_OBJ_FD"}
  /\ attr.value_type_id # 0

\* The descriptor of a new map holds the first reference.
Create(m, d, attr) ==
  /\ desc[m] = Null
  /\ alloc_check(attr)
  /\ desc' = [desc EXCEPT ![m] = d]
  /\ linkable' = [linkable EXCEPT ![m] = "LINK" \in attr.map_flags]
  /\ refcnt' = [refcnt EXCEPT ![m] = 1]
  /\ usercnt' = [usercnt EXCEPT ![m] = 1]
  /\ UNCHANGED <<state, written, gets, linked, readVars>>

\* File descriptors count twice, as users and as references.
Open(m) ==
  /\ usercnt[m] \in 1..(MaxRefs - 1)
  /\ refcnt' = [refcnt EXCEPT ![m] = @ + 1]
  /\ usercnt' = [usercnt EXCEPT ![m] = @ + 1]
  /\ UNCHANGED <<desc, linkable, state, written, gets, linked, readVars>>

\* The descriptor a lookup came through stays open until it returns.
Close(m) ==
  /\ usercnt[m] > IF seen.map = m THEN 1 ELSE 0
  /\ refcnt' = [refcnt EXCEPT ![m] = @ - 1]
  /\ usercnt' = [usercnt EXCEPT ![m] = @ - 1]
  /\ UNCHANGED <<desc, linkable, state, written, gets, linked, readVars>>

\* The user's value is stored before the state is released.
Write(m) ==
  /\ usercnt[m] > 0 /\ state[m] = "INIT" /\ ~written[m]
  /\ written' = [written EXCEPT ![m] = TRUE]
  /\ UNCHANGED <<desc, linkable, state, refcnt, usercnt, gets, linked, readVars>>

\* A map made for links becomes ready; any other is in use at once and holds a
\* reference to itself until it is deleted.
Publish(m) ==
  /\ usercnt[m] > 0 /\ state[m] = "INIT" /\ written[m]
  /\ state' = [state EXCEPT ![m] = IF linkable[m] THEN "READY" ELSE "INUSE"]
  /\ gets' = IF linkable[m] THEN gets ELSE [gets EXCEPT ![m] = @ + 1]
  /\ refcnt' = IF linkable[m] THEN refcnt ELSE [refcnt EXCEPT ![m] = @ + 1]
  /\ UNCHANGED <<desc, linkable, written, usercnt, linked, readVars>>

Delete(m) ==
  /\ usercnt[m] > 0 /\ state[m] = "INUSE"
  /\ state' = [state EXCEPT ![m] = "TOBEFREE"]
  /\ gets' = [gets EXCEPT ![m] = @ - 1]
  /\ refcnt' = [refcnt EXCEPT ![m] = @ - 1]
  /\ UNCHANGED <<desc, linkable, written, usercnt, linked, readVars>>

\* Takes a reference without asking whether the count is zero.
GetAlways(m) ==
  /\ gets[m] < MaxRefs
  /\ gets' = [gets EXCEPT ![m] = @ + 1]
  /\ refcnt' = [refcnt EXCEPT ![m] = @ + 1]
  /\ UNCHANGED <<desc, linkable, state, written, usercnt, linked, readVars>>

\* __bpf_map_inc_not_zero() is the kernel's atomic_fetch_add_unless(): the test
\* and the increment are one step.  The shim, which one CPU runs, tests and then
\* counts, so what follows holds of its calls and not inside them.
inc_not_zero(m) == refcnt[m] > 0 /\ refcnt' = [refcnt EXCEPT ![m] = @ + 1]

\* bpf_struct_ops_get(): a kernel user that still has the operations' address
\* asks for a reference; on a map that is going away it gets none.
Get(m) ==
  /\ gets[m] < MaxRefs
  /\ inc_not_zero(m)
  /\ gets' = [gets EXCEPT ![m] = @ + 1]
  /\ UNCHANGED <<desc, linkable, state, written, usercnt, linked, readVars>>

\* The map's own reference (Publish) is not a kernel user's to put.
Held(m) == gets[m] - IF state[m] = "INUSE" THEN 1 ELSE 0

Put(m) ==
  /\ Held(m) > 0
  /\ gets' = [gets EXCEPT ![m] = @ - 1]
  /\ refcnt' = [refcnt EXCEPT ![m] = @ - 1]
  /\ UNCHANGED <<desc, linkable, state, written, usercnt, linked, readVars>>

\* Registers a map that is in use already, or about to be freed.
AnyPublished(m) == state[m] # "INIT"

bpf_struct_ops_valid_to_reg(m) == linkable[m] /\ state[m] = "READY"

CreateLink(l, m) ==
  /\ linked[l] = Null
  /\ usercnt[m] > 0
  /\ bpf_struct_ops_valid_to_reg(m)
  /\ linked' = [linked EXCEPT ![l] = m]
  /\ refcnt' = [refcnt EXCEPT ![m] = @ + 1]
  /\ UNCHANGED <<desc, linkable, state, written, usercnt, gets, readVars>>

\* The guards of bpf_struct_ops_map_link_update(), in their order.
link_update(l, m, expected) ==
  IF ~bpf_struct_ops_valid_to_reg(m) THEN "EINVAL"
  ELSE IF desc[m] \notin Updatable THEN "EOPNOTSUPP"
  ELSE IF linked[l] = Null THEN "ENOLINK"
  ELSE IF expected # Null /\ linked[l] # expected THEN "EPERM"
  ELSE IF desc[m] # desc[linked[l]] THEN "EINVAL"
  ELSE "ok"

\* Behind the guards the link takes the new map and puts the old one.
UpdateLink(l, m, expected) ==
  /\ usercnt[m] > 0
  /\ link_update(l, m, expected) = "ok"
  /\ linked' = [linked EXCEPT ![l] = m]
  /\ refcnt' = [k \in Map |-> refcnt[k] + (IF k = m THEN 1 ELSE 0)
                                        - (IF k = linked[l] THEN 1 ELSE 0)]
  /\ UNCHANGED <<desc, linkable, state, written, usercnt, gets, readVars>>

Detach(l) ==
  /\ linked[l] # Null
  /\ linked' = [linked EXCEPT ![l] = Null]
  /\ refcnt' = [refcnt EXCEPT ![linked[l]] = @ - 1]
  /\ UNCHANGED <<desc, linkable, state, written, usercnt, gets, readVars>>

\* bpf_struct_ops_map_sys_lookup_elem() on a map held open by the caller.
LookupState(m) ==
  /\ pc = "idle" /\ usercnt[m] > 0
  /\ seen' = [NothingSeen EXCEPT !.map = m, !.state = state[m]]
  /\ IF state[m] = "INIT"
     THEN pc' = "done" /\ uvalue' = [value |-> "zero", state |-> "INIT", refs |-> 0]
     ELSE pc' = "copy" /\ uvalue' = NoReply
  /\ UNCHANGED <<mapVars, linked>>

LookupCopy ==
  /\ pc = "copy"
  /\ seen' = [seen EXCEPT !.value = IF written[seen.map] THEN "user" ELSE "zero"]
  /\ pc' = "count"
  /\ UNCHANGED <<mapVars, linked, uvalue>>

\* The two counters are operands of one subtraction: C leaves their order open.
LookupRefcnt ==
  /\ pc = "count" /\ seen.refcnt = Unread
  /\ seen' = [seen EXCEPT !.refcnt = refcnt[seen.map]]
  /\ UNCHANGED <<mapVars, linked, pc, uvalue>>

LookupUsercnt ==
  /\ pc = "count" /\ seen.usercnt = Unread
  /\ seen' = [seen EXCEPT !.usercnt = usercnt[seen.map]]
  /\ UNCHANGED <<mapVars, linked, pc, uvalue>>

Report(refs, users) == IF refs - users > 0 THEN refs - users ELSE 0

LookupReport ==
  /\ pc = "count" /\ seen.refcnt # Unread /\ seen.usercnt # Unread
  /\ uvalue' = [value |-> seen.value, state |-> seen.state,
                refs |-> Report(seen.refcnt, seen.usercnt)]
  /\ pc' = "done"
  /\ UNCHANGED <<mapVars, linked, seen>>

LookupReturn ==
  /\ pc = "done"
  /\ pc' = "idle" /\ seen' = NothingSeen /\ uvalue' = NoReply
  /\ UNCHANGED <<mapVars, linked>>

Attrs == [key_size : {4, 5}, max_entries : {1}, value_type_id : {1},
          map_flags : {{}, {"LINK"}, {"LINK", "NO_PREALLOC"}}]

Next ==
  \/ \E m \in Map, d \in Desc, attr \in Attrs : Create(m, d, attr)
  \/ \E m \in Map : \/ Open(m) \/ Close(m) \/ Write(m) \/ Publish(m) \/ Delete(m)
                    \/ Get(m) \/ Put(m) \/ LookupState(m)
  \/ \E l \in Links, m \in Map : CreateLink(l, m)
  \/ \E l \in Links, m \in Map, e \in Map \cup {Null} : UpdateLink(l, m, e)
  \/ \E l \in Links : Detach(l)
  \/ LookupCopy \/ LookupRefcnt \/ LookupUsercnt \/ LookupReport \/ LookupReturn

Spec == Init /\ [][Next]_vars
-----------------------------------------------------------------------------
States == {"INIT", "INUSE", "TOBEFREE", "READY"}

TypeOK ==
  /\ desc \in [Map -> Desc \cup {Null}]
  /\ linkable \in [Map -> BOOLEAN] /\ written \in [Map -> BOOLEAN]
  /\ state \in [Map -> States]
  /\ refcnt \in [Map -> Nat] /\ usercnt \in [Map -> Nat] /\ gets \in [Map -> Nat]
  /\ linked \in [Links -> Map \cup {Null}]
  /\ pc \in {"idle", "copy", "count", "done"}
  /\ uvalue \in [value : {"none", "zero", "user"}, state : States \cup {"none"}, refs : Nat]

LinksTo(m) == {l \in Links : linked[l] = m}

(* The one counter of a map is the sum of its four kinds of holder: file       *)
(* descriptors, kernel users, the published map itself and links.              *)
RefsExact ==
  \A m \in Map : refcnt[m] = usercnt[m] + gets[m] + Cardinality(LinksTo(m))

(* A link never holds a map that is unpublished, was not made for links or is  *)
(* being freed, although the map's state moves on its own.                     *)
LinksHoldReady ==
  \A l \in Links : linked[l] # Null => linkable[linked[l]] /\ state[linked[l]] = "READY"

(* A lookup that finds the map published returns the user's whole value, and   *)
(* one that does not returns none of it: the state is read before the value.   *)
LookupSeesPublished ==
  pc = "done" => uvalue.value = IF uvalue.state = "INIT" THEN "zero" ELSE "user"

(* A map whose last reference is gone stays gone: a late get does not bring it *)
(* back.                                                                        *)
GoneStaysGone ==
  [][\A m \in Map : desc[m] # Null /\ refcnt[m] = 0 => refcnt'[m] = 0]_vars

(* The operations behind a link keep their type for as long as it is attached. *)
LinkKeepsType ==
  [][\A l \in Links : linked[l] # Null /\ linked'[l] # Null
                       => desc[linked'[l]] = desc[linked[l]]]_vars
=============================================================================
