------------------------------- MODULE Mprog --------------------------------
(***************************************************************************)
(* targets/mprog/pre_include.h: the bundle behind a multi-program          *)
(* attachment point.  Programs are in two entries, a and b, of which one   *)
(* is active; an update copies the active entry into its peer, edits the   *)
(* peer, publishes it and, after a grace period, commits.  Links are in    *)
(* one array that both entries share.                                      *)
(*                                                                         *)
(* Updates are serialised by the caller's lock, and the grace period is    *)
(* RCU's: both are the kernel's contracts, external to the helpers, and    *)
(* the stubs of targets/tcx only count the calls.  Programs run from       *)
(* readers that take no lock: they walk the entry they found active with   *)
(* bpf_mprog_foreach_prog(), one READ_ONCE() per step.                     *)
(*                                                                         *)
(* Insert, Replace and Delete are the callers of these helpers in the      *)
(* kernel's mprog.c, which the target includes unmodified; the order       *)
(* update, publish, sync, commit is the one the harnesses and tcx use.     *)
(***************************************************************************)
EXTENDS Integers, FiniteSets, Sequences, SequencesExt

CONSTANTS Prog, Link,
          MPROG_MAX,  \* BPF_MPROG_MAX, the slots of an entry
          Reader,     \* contexts that may run the programs at the same time
          MaxRevision,\* bound: the last revision the model reaches
          NULL

ASSUME MprogAssumption ==
  /\ MPROG_MAX \in Nat \ {0, 1}
  /\ MaxRevision \in Nat \ {0}
  /\ NULL \notin Prog \cup Link

Entry == {"a", "b"}
Slot == 0 .. MPROG_MAX - 1
mprog_max == MPROG_MAX - 1

VARIABLES
  fp,        \* entry->fp_items[].prog
  cp,        \* bundle->cp_items[].link
  ref,       \* bundle->ref: the program the next commit releases
  revision,  \* bundle->revision
  count,     \* bundle->count
  active,    \* the entry the attachment point refers to
  new,       \* *entry_new of the update under way
  pc,        \* "idle", "publish", "sync", "commit", "release" or "down"
  clearing,  \* the update under way empties the attachment point
  refs,      \* references on each program the attachment point owns
  query,     \* the answer of the last query a user still relies on
  rd         \* the readers' walks

bundle == <<fp, cp, ref, revision, count>>
vars == <<bundle, active, new, pc, clearing, refs, query, rd>>

Peer(e) == IF e = "a" THEN "b" ELSE "a"

\* bpf_mprog_foreach_prog(): the slots before the first NULL.
Filled(items) == {i \in Slot : \A j \in 0 .. i : items[j] # NULL}
Progs(items) == [i \in 1 .. Cardinality(Filled(items)) |-> items[i - 1]]

\* bpf_mprog_exists()
Exists(e, p) == p \in ToSet(Progs(fp[e]))

\* What a walk that starts now finds.
Visible == Progs(fp[active])
Idle == [at |-> -1, entry |-> "a", seen |-> << >>, stay |-> {}, was |-> {}]

Init ==
  /\ fp = [e \in Entry |-> [i \in Slot |-> NULL]]
  /\ cp = [i \in Slot |-> NULL]
  /\ ref = NULL /\ revision = 1 /\ count = 0
  /\ active = "a" /\ new = "a" /\ pc = "idle" /\ clearing = FALSE
  /\ refs = [p \in Prog |-> 0]
  /\ query = [revision |-> 1, list |-> << >>]
  /\ rd = [r \in Reader |-> Idle]

(* Bookkeeping: what has been attached since a reader started. *)
Watch ==
  rd' = [r \in Reader |->
           IF rd[r].at = -1 THEN rd[r]
           ELSE [rd[r] EXCEPT !.stay = @ \cap ToSet(Progs(fp'[active'])),
                              !.was = @ \cup ToSet(Progs(fp'[active']))]]
-----------------------------------------------------------------------------
(* The helpers' edits *)

\* Mutant: the loop runs upwards, so one item is smeared over the rest.
GrowUpwards(items, idx) ==
  [i \in Slot |-> IF i > idx THEN items[idx] ELSE items[i]]

\* bpf_mprog_entry_grow(): open slot idx.
Grow(items, idx) ==
  [i \in Slot |-> IF i > idx THEN items[i - 1] ELSE items[i]]

\* bpf_mprog_entry_shrink(): close slot idx; the last slot becomes NULL.
Shrink(items, idx) ==
  [i \in Slot |-> IF i = mprog_max THEN NULL
                  ELSE IF i >= idx THEN items[i + 1] ELSE items[i]]

\* Mutant: the edit is made in the active entry.
EditInPlace(e, items) ==
  /\ fp' = [fp EXCEPT ![e] = items]
  /\ new' = Peer(e)

\* bpf_mprog_entry_copy(peer, entry), the edit, *entry_new = peer.
EditPeer(e, items) ==
  /\ fp' = [fp EXCEPT ![Peer(e)] = items]
  /\ new' = Peer(e)

\* bpf_mprog_mark_for_release(): a link keeps its own reference.
MarkForRelease(p, l) == ref' = IF l = NULL THEN p ELSE ref
-----------------------------------------------------------------------------
(* The update operations, by the holder of the lock *)

\* External: the lock. rtnl_lock() of targets/tcx/pre_include.h only counts
\* the call; the kernel's admits one update at a time.
MayUpdate == pc = "idle" /\ revision < MaxRevision

\* The slot's old links are overwritten where the program is.
PutLink(links, idx, l) == [links EXCEPT ![idx] = l]

\* bpf_mprog_insert(): nothing is shifted when the program goes to the end.
InsertAtSlot(p, l, idx) ==
  LET Room(items) == IF idx = count THEN items ELSE Grow(items, idx)
  IN  /\ EditPeer(active, [Room(fp[active]) EXCEPT ![idx] = p])
      /\ cp' = PutLink(Room(cp), idx, l)

\* bpf_mprog_attach() without BPF_F_REPLACE: -EEXIST and -ERANGE are guards.
Insert(p, l, idx) ==
  /\ MayUpdate
  /\ ~ Exists(active, p)
  /\ l = NULL \/ \A i \in Filled(fp[active]) : cp[i] # l
  /\ count # mprog_max
  /\ idx \in 0 .. count
  /\ InsertAtSlot(p, l, idx)
  /\ count' = count + 1
  /\ refs' = IF l = NULL THEN [refs EXCEPT ![p] = @ + 1] ELSE refs
  /\ pc' = "publish"
  /\ UNCHANGED <<ref, revision, active, clearing, query>>
  /\ Watch

\* bpf_mprog_attach() with BPF_F_REPLACE: bpf_mprog_write() in the active
\* entry.  The new program comes with the link of the old one, or with none.
Replace(p, idx) ==
  /\ MayUpdate
  /\ ~ Exists(active, p)
  /\ idx \in Filled(fp[active])
  /\ fp' = [fp EXCEPT ![active] = [@ EXCEPT ![idx] = p]]
  /\ refs' = IF cp[idx] = NULL
             THEN [refs EXCEPT ![p] = @ + 1, ![fp[active][idx]] = @ - 1]
             ELSE refs
  /\ new' = active
  /\ pc' = "commit"
  /\ UNCHANGED <<cp, ref, revision, count, active, clearing, query>>
  /\ Watch

\* bpf_mprog_detach()
Delete(idx) ==
  /\ MayUpdate
  /\ idx \in Filled(fp[active])
  /\ EditPeer(active, Shrink(fp[active], idx))
  /\ cp' = Shrink(cp, idx)
  /\ count' = count - 1
  /\ MarkForRelease(fp[active][idx], cp[idx])
  /\ pc' = "publish"
  /\ UNCHANGED <<revision, active, clearing, refs, query>>
  /\ Watch

\* bpf_mprog_clear_all(), by the caller that takes the attachment point
\* down.  The links stay in cp_items for the walk that releases them.
ClearAll ==
  /\ MayUpdate
  /\ EditPeer(active, [i \in Slot |-> NULL])
  /\ count' = 0
  /\ clearing' = TRUE
  /\ pc' = "publish"
  /\ UNCHANGED <<cp, ref, revision, active, refs, query>>
  /\ Watch
-----------------------------------------------------------------------------
(* Publication, grace period, commit *)

\* tcx_entry_update(): the attachment point refers to the new entry.
Publish ==
  /\ pc = "publish"
  /\ active' = new
  /\ new' = active            \* the entry that readers may still be in
  /\ pc' = "sync"
  /\ UNCHANGED <<bundle, clearing, refs, query>>
  /\ Watch

\* External: RCU. tcx_entry_sync() calls synchronize_rcu(), whose stub in
\* targets/tcx/pre_include.h only counts the call; the kernel's returns when
\* every reader that may be in the old entry has left it.
Sync ==
  /\ pc = "sync"
  /\ \A r \in Reader : rd[r].at = -1 \/ rd[r].entry # new
  /\ pc' = IF clearing THEN "release" ELSE "commit"
  /\ UNCHANGED <<bundle, active, new, clearing, refs, query, rd>>

\* bpf_mprog_complete_release()
CompleteRelease ==
  /\ refs' = IF ref = NULL THEN refs ELSE [refs EXCEPT ![ref] = @ - 1]
  /\ ref' = NULL

\* Mutant of Commit: the revision moves only when a program was released.
CommitReleasesOnly ==
  /\ pc = "commit"
  /\ CompleteRelease
  /\ revision' = IF ref = NULL THEN revision ELSE revision + 1
  /\ pc' = "idle"
  /\ UNCHANGED <<fp, cp, count, active, new, clearing, query, rd>>

\* bpf_mprog_commit()
Commit ==
  /\ pc = "commit"
  /\ CompleteRelease
  /\ revision' = revision + 1
  /\ pc' = "idle"
  /\ UNCHANGED <<fp, cp, count, active, new, clearing, query, rd>>

\* The caller of bpf_mprog_clear_all() walks the old entry's tuples and puts
\* every program that no link holds.
Release ==
  /\ pc = "release"
  /\ refs' = [p \in Prog |->
                refs[p] - Cardinality({i \in Filled(fp[new]) : fp[new][i] = p /\ cp[i] = NULL})]
  /\ pc' = "down"
  /\ UNCHANGED <<bundle, active, new, clearing, query, rd>>

\* A user queries the list and its revision, to pass it as expected_revision.
Query ==
  /\ pc = "idle"
  /\ query' = [revision |-> revision, list |-> Visible]
  /\ UNCHANGED <<bundle, active, new, pc, clearing, refs, rd>>
-----------------------------------------------------------------------------
(* The readers *)

Enter(r) ==
  /\ rd[r].at = -1
  /\ rd' = [rd EXCEPT ![r] = [at |-> 0, entry |-> active, seen |-> << >>,
                              stay |-> ToSet(Visible), was |-> ToSet(Visible)]]
  /\ UNCHANGED <<bundle, active, new, pc, clearing, refs, query>>

Item(r) == fp[rd[r].entry][rd[r].at]

\* bpf_mprog_foreach_prog(): one iteration, or the end at a NULL.
Walk(r) ==
  /\ rd[r].at # -1
  /\ rd' = [rd EXCEPT ![r] = IF Item(r) = NULL THEN Idle
                             ELSE [rd[r] EXCEPT !.at = @ + 1, !.seen = Append(@, Item(r))]]
  /\ UNCHANGED <<bundle, active, new, pc, clearing, refs, query>>
-----------------------------------------------------------------------------
Inserts == \E p \in Prog, l \in Link \cup {NULL}, idx \in Slot : Insert(p, l, idx)
Replaces == \E p \in Prog, idx \in Slot : Replace(p, idx)
Deletes == \E idx \in Slot : Delete(idx)

Next == \/ Inserts
        \/ Replaces
        \/ Deletes
        \/ ClearAll
        \/ Publish
        \/ Sync
        \/ Commit
        \/ Release
        \/ Query
        \/ \E r \in Reader : Enter(r)
        \/ \E r \in Reader : Walk(r)

Spec == Init /\ [][Next]_vars
-----------------------------------------------------------------------------
(* Properties *)

TypeOK ==
  /\ fp \in [Entry -> [Slot -> Prog \cup {NULL}]]
  /\ cp \in [Slot -> Link \cup {NULL}]
  /\ ref \in Prog \cup {NULL}
  /\ revision \in 1 .. MaxRevision
  /\ count \in 0 .. MPROG_MAX
  /\ active \in Entry /\ new \in Entry
  /\ pc \in {"idle", "publish", "sync", "commit", "release", "down"}
  /\ clearing \in BOOLEAN
  /\ refs \in [Prog -> Nat]
  /\ \A r \in Reader : rd[r].at \in Slot \cup {-1} /\ rd[r].entry \in Entry

\* The entry the next update starts from.
Current == IF pc = "publish" THEN new ELSE active

\* bundle->count is the number of programs a walk of the current entry
\* finds, no program is there twice, and the walk's NULL is inside the array.
CountExact ==
  /\ count = Len(Progs(fp[Current]))
  /\ \A i \in Slot : i >= count => fp[Current][i] = NULL
  /\ IsInjective(Progs(fp[Current]))
  /\ count <= mprog_max

\* The attachment point owns one reference on every program that is attached
\* without a link or waits in bundle->ref, and none on any other: nothing is
\* released twice, early or never, whichever of the three paths took it out.
RefsExact ==
  LET owner == IF clearing /\ pc = "publish" THEN active
               ELSE IF clearing /\ pc \in {"sync", "release"} THEN new
               ELSE Current
      Unlinked(p) == {i \in Filled(fp[owner]) : fp[owner][i] = p /\ cp[i] = NULL}
  IN  \A p \in Prog :
        refs[p] = Cardinality(Unlinked(p)) + (IF ref = p THEN 1 ELSE 0)

\* bpf_mprog_mark_for_release()'s WARN_ON_ONCE(bundle->ref): whoever may start
\* an update finds no release pending.
NoReleasePending == pc = "idle" => ref = NULL

\* A walk that reached its NULL has run every program that was attached from
\* its start to its end exactly once, and no program that was never attached
\* during it, though updates moved the programs in between.
WalkIsFaithful ==
  \A r \in Reader : rd[r].at # -1 =>
    /\ ToSet(rd[r].seen) \subseteq rd[r].was
    /\ Item(r) = NULL =>
         \A p \in rd[r].stay : Cardinality({i \in DOMAIN rd[r].seen : rd[r].seen[i] = p}) = 1

\* expected_revision is enough: while the revision is the one a user queried
\* and no update is under way, the list is the one the user was shown.
RevisionIdentifiesList ==
  pc = "idle" /\ query.revision = revision => query.list = Visible

\* Count, references, deferred releases and revision of the bundle agree with the
\* published list, whichever of the helpers of pre_include.h changed it.
BundleSound ==
  TypeOK /\ CountExact /\ RefsExact /\ NoReleasePending /\ RevisionIdentifiesList

\* The two buffers, the shift loops and the publication implement one list
\* that changes by single edits.
HookList == INSTANCE ProgList WITH list <- Visible, Limit <- mprog_max
ImplementsProgList == HookList!Spec
=============================================================================
