------------------------------ MODULE BpfProofs ------------------------------
(***************************************************************************)
(* The shims of shims/kernel/bpf that are checked together, for every      *)
(* number of maps, links, references, CPUs, keys and entries, every word   *)
(* size and order of limits the assumptions of the parts allow, and every  *)
(* set of argument types.                                                  *)
(***************************************************************************)
EXTENDS MCBpf, Sequences, LocalStorageProofs

-----------------------------------------------------------------------------
(* The parts' sets are counted like any others. *)

LEMMA SameCounts ==
  /\ \A S : Ops!IsFiniteSet(S) <=> IsFiniteSet(S)
  /\ \A S : Ops!Cardinality(S) = Cardinality(S)
  /\ \A S : Hash!IsFiniteSet(S) <=> IsFiniteSet(S)
  /\ \A S : Hash!Cardinality(S) = Cardinality(S)
<1>1. \A S : Ops!IsFiniteSet(S) <=> IsFiniteSet(S)
  BY DEF Ops!IsFiniteSet, IsFiniteSet
<1>2. \A S : Ops!Cardinality(S) = Cardinality(S)
  BY DEF Ops!Cardinality, Cardinality
<1>3. \A S : Hash!IsFiniteSet(S) <=> IsFiniteSet(S)
  BY DEF Hash!IsFiniteSet, IsFiniteSet
<1>4. \A S : Hash!Cardinality(S) = Cardinality(S)
  BY DEF Hash!Cardinality, Cardinality
<1>. QED
  BY <1>1, <1>2, <1>3, <1>4
-----------------------------------------------------------------------------
(* struct_ops: counters, states and the lock-free lookup *)

\* What the lookup has read so far.
SeenTyped ==
  seen \in [map : OpsCase.Map \cup {Null}, state : Ops!States \cup {"none"},
            value : {"none", "zero", "user"}, refcnt : Int, usercnt : Int]

\* A map that was not created yet has nothing; one in use holds a reference to itself; one
\* that left the initial state has the user's value.
MapsOrdered ==
  \A m \in OpsCase.Map :
    /\ desc[m] = Null => state[m] = "INIT" /\ usercnt[m] = 0 /\ gets[m] = 0
    /\ state[m] = "INUSE" => gets[m] >= 1
    /\ state[m] # "INIT" => written[m] = TRUE

\* The lookup is past the state word only for a map that is published.
LookupOrdered ==
  /\ opc # "idle" => seen.map \in OpsCase.Map
  /\ opc \in {"copy", "count"} => seen.state # "INIT" /\ written[seen.map] = TRUE
  /\ opc = "count" => seen.value = "user"

Refs(m) == usercnt[m] + gets[m] + Cardinality(Ops!LinksTo(m))

OpsInv ==
  /\ Ops!TypeOK /\ SeenTyped
  /\ \A m \in OpsCase.Map : refcnt[m] = Refs(m)
  /\ MapsOrdered
  /\ Ops!LinksHoldReady
  /\ LookupOrdered
  /\ Ops!LookupSeesPublished

LEMMA OpsConstants ==
  /\ Null \notin OpsCase.Map \cup OpsCase.Desc /\ IsFiniteSet(OpsCase.Links)
  /\ OpsCase.Updatable \subseteq OpsCase.Desc
  /\ OpsCase.MaxRefs \in Nat \ {0}
  BY PartsAssumption, SameCounts DEF Ops!StructOpsAssumption

\* The number of a map's links.
LEMMA LinksCounted ==
  ASSUME NEW k \in OpsCase.Map
  PROVE  IsFiniteSet(Ops!LinksTo(k)) /\ Cardinality(Ops!LinksTo(k)) \in Nat
<1>1. IsFiniteSet(Ops!LinksTo(k))
  BY OpsConstants, FS_Subset DEF Ops!LinksTo
<1>. QED
  BY <1>1, FS_CardinalityType

\* A map that a link holds has a reference.
LEMMA LinkedIsCounted ==
  ASSUME OpsInv, NEW l \in OpsCase.Links, olinked[l] # Null
  PROVE  olinked[l] \in OpsCase.Map /\ refcnt[olinked[l]] >= 1
<1>1. olinked[l] \in OpsCase.Map
  BY DEF OpsInv, Ops!TypeOK
<1>2. l \in Ops!LinksTo(olinked[l])
  BY DEF Ops!LinksTo
<1>3. /\ Cardinality(Ops!LinksTo(olinked[l])) \in Nat
      /\ Cardinality(Ops!LinksTo(olinked[l])) # 0
  BY <1>1, <1>2, LinksCounted, FS_EmptySet
<1>4. refcnt[olinked[l]] = Refs(olinked[l])
  BY <1>1 DEF OpsInv
<1>5. usercnt[olinked[l]] \in Nat /\ gets[olinked[l]] \in Nat
  BY <1>1 DEF OpsInv, Ops!TypeOK
<1>. QED
  BY <1>1, <1>3, <1>4, <1>5 DEF Refs

LEMMA OpsInvInit == Ops!Init => OpsInv
<1>. SUFFICES ASSUME Ops!Init  PROVE  OpsInv
  OBVIOUS
<1>1. /\ linkable \in [OpsCase.Map -> BOOLEAN] /\ written \in [OpsCase.Map -> BOOLEAN]
  BY Zenon DEF Ops!Init
<1>2. Ops!TypeOK
  BY <1>1 DEF Ops!Init, Ops!TypeOK, Ops!States, Ops!NoReply
<1>3. SeenTyped
  BY DEF Ops!Init, SeenTyped, Ops!NothingSeen, Ops!Unread
<1>4. ASSUME NEW m \in OpsCase.Map  PROVE  refcnt[m] = Refs(m)
  <2>1. Ops!LinksTo(m) = {}
    BY OpsConstants DEF Ops!LinksTo, Ops!Init
  <2>. QED
    BY <2>1, FS_EmptySet DEF Ops!Init, Refs
<1>5. MapsOrdered
  BY DEF Ops!Init, MapsOrdered
<1>6. Ops!LinksHoldReady /\ LookupOrdered /\ Ops!LookupSeesPublished
  BY DEF Ops!Init, Ops!LinksHoldReady, LookupOrdered, Ops!LookupSeesPublished
<1>. QED
  BY <1>2, <1>3, <1>4, <1>5, <1>6 DEF OpsInv

\* The counters after a step, from the changes the step makes to them.
LEMMA RefsUnmoved ==
  ASSUME olinked' = olinked, NEW k \in OpsCase.Map
  PROVE  Cardinality(Ops!LinksTo(k)') = Cardinality(Ops!LinksTo(k))
  BY DEF Ops!LinksTo

\* A step that changes the counters of map m by as much on both sides, and no link.
LEMMA RefsAfter ==
  ASSUME OpsInv, NEW m \in OpsCase.Map, NEW du \in Int, NEW dg \in Int,
         olinked' = olinked,
         usercnt' = [usercnt EXCEPT ![m] = @ + du],
         gets' = [gets EXCEPT ![m] = @ + dg],
         refcnt' = [refcnt EXCEPT ![m] = @ + (du + dg)],
         usercnt[m] + du >= 0, gets[m] + dg >= 0
  PROVE  /\ \A k \in OpsCase.Map : refcnt'[k] = Refs(k)'
         /\ refcnt' \in [OpsCase.Map -> Nat]
         /\ usercnt' \in [OpsCase.Map -> Nat]
         /\ gets' \in [OpsCase.Map -> Nat]
<1>0. /\ usercnt \in [OpsCase.Map -> Nat] /\ gets \in [OpsCase.Map -> Nat]
      /\ refcnt \in [OpsCase.Map -> Nat]
  BY DEF OpsInv, Ops!TypeOK
<1>1. usercnt' \in [OpsCase.Map -> Nat] /\ gets' \in [OpsCase.Map -> Nat]
  BY <1>0
<1>2. ASSUME NEW k \in OpsCase.Map  PROVE  refcnt'[k] = Refs(k)' /\ refcnt'[k] \in Nat
  <2>1. Cardinality(Ops!LinksTo(k)') = Cardinality(Ops!LinksTo(k))
    BY RefsUnmoved
  <2>2. Cardinality(Ops!LinksTo(k)) \in Nat
    BY LinksCounted
  <2>3. refcnt[k] = usercnt[k] + gets[k] + Cardinality(Ops!LinksTo(k))
    BY DEF OpsInv, Refs
  <2>4. refcnt'[k] = usercnt'[k] + gets'[k] + Cardinality(Ops!LinksTo(k))
    <3>1. CASE k = m
      <4>1. /\ refcnt'[k] = refcnt[k] + (du + dg)
            /\ usercnt'[k] = usercnt[k] + du /\ gets'[k] = gets[k] + dg
        BY <1>0, <3>1
      <4>. QED
        BY <4>1, <1>0, <2>2, <2>3
    <3>2. CASE k # m
      BY <1>0, <2>3, <3>2
    <3>. QED
      BY <3>1, <3>2
  <2>5. refcnt'[k] \in Nat
    BY <1>1, <2>2, <2>4
  <2>. QED
    BY <2>1, <2>4, <2>5 DEF Refs
<1>3. refcnt' = [k \in OpsCase.Map |-> refcnt'[k]]
  BY <1>0
<1>. QED
  BY <1>1, <1>2, <1>3

\* A step that moves link l and changes refcnt with it.
LEMMA RefsAfterMove ==
  ASSUME OpsInv, NEW l \in OpsCase.Links, NEW m \in OpsCase.Map \cup {Null},
         olinked' = [olinked EXCEPT ![l] = m],
         usercnt' = usercnt, gets' = gets,
         refcnt' = [k \in OpsCase.Map |-> refcnt[k] + (IF k = m THEN 1 ELSE 0)
                                            - (IF k = olinked[l] THEN 1 ELSE 0)]
  PROVE  /\ \A k \in OpsCase.Map : refcnt'[k] = Refs(k)'
         /\ refcnt' \in [OpsCase.Map -> Nat]
<1>0. /\ usercnt \in [OpsCase.Map -> Nat] /\ gets \in [OpsCase.Map -> Nat]
      /\ refcnt \in [OpsCase.Map -> Nat]
      /\ olinked \in [OpsCase.Links -> OpsCase.Map \cup {Null}]
  BY DEF OpsInv, Ops!TypeOK
<1>1. ASSUME NEW k \in OpsCase.Map
      PROVE  refcnt'[k] = Refs(k)' /\ refcnt'[k] \in Nat
  <2>1. Cardinality(Ops!LinksTo(k)') = Cardinality(Ops!LinksTo(k)) + (IF k = m THEN 1 ELSE 0)
                                                           - (IF k = olinked[l] THEN 1 ELSE 0)
    <3>1. IsFiniteSet(Ops!LinksTo(k)) /\ Cardinality(Ops!LinksTo(k)) \in Nat
      BY LinksCounted
    <3>2. CASE k = m /\ k # olinked[l]
      <4>1. Ops!LinksTo(k)' = Ops!LinksTo(k) \cup {l} /\ l \notin Ops!LinksTo(k)
        BY <1>0, <3>2 DEF Ops!LinksTo
      <4>2. Cardinality(Ops!LinksTo(k)') = Cardinality(Ops!LinksTo(k)) + 1
        BY <4>1, <3>1, FS_AddElement
      <4>. QED
        BY <4>2, <3>1, <3>2
    <3>3. CASE k # m /\ k = olinked[l]
      <4>1. Ops!LinksTo(k)' = Ops!LinksTo(k) \ {l} /\ l \in Ops!LinksTo(k)
        BY <1>0, <3>3 DEF Ops!LinksTo
      <4>2. Cardinality(Ops!LinksTo(k)') = Cardinality(Ops!LinksTo(k)) - 1
        BY <4>1, <3>1, FS_RemoveElement
      <4>. QED
        BY <4>2, <3>1, <3>3
    <3>4. CASE (k = m) <=> (k = olinked[l])
      <4>1. Ops!LinksTo(k)' = Ops!LinksTo(k)
        BY <1>0, <3>4 DEF Ops!LinksTo
      <4>. QED
        BY <4>1, <3>1, <3>4
    <3>. QED
      BY <3>2, <3>3, <3>4
  <2>2. Cardinality(Ops!LinksTo(k)) \in Nat
    BY LinksCounted
  <2>3. refcnt[k] = usercnt[k] + gets[k] + Cardinality(Ops!LinksTo(k))
    BY DEF OpsInv, Refs
  <2>4. refcnt'[k] = refcnt[k] + (IF k = m THEN 1 ELSE 0) - (IF k = olinked[l] THEN 1 ELSE 0)
    OBVIOUS
  <2>5. refcnt'[k] = usercnt'[k] + gets'[k] + Cardinality(Ops!LinksTo(k)')
    BY <1>0, <2>1, <2>2, <2>3, <2>4
  <2>6. CASE k = olinked[l]
    <3>1. k # Null
      BY OpsConstants
    <3>2. refcnt[k] >= 1
      BY <3>1, <2>6, LinkedIsCounted
    <3>. QED
      BY <1>0, <2>4, <2>5, <3>2 DEF Refs
  <2>7. CASE k # olinked[l]
    BY <1>0, <2>4, <2>5, <2>7 DEF Refs
  <2>. QED
    BY <2>6, <2>7
<1>. QED
  BY <1>1

\* The lookup's part of the invariant survives every step of others: what was written stays.
LEMMA LookupKept ==
  ASSUME OpsInv, opc' = opc, seen' = seen, uvalue' = uvalue,
         \A m \in OpsCase.Map : written[m] = TRUE => written'[m] = TRUE
  PROVE  SeenTyped' /\ LookupOrdered' /\ Ops!LookupSeesPublished'
<1>1. SeenTyped' /\ Ops!LookupSeesPublished'
  BY DEF OpsInv, SeenTyped, Ops!LookupSeesPublished, Ops!States
<1>2. LookupOrdered'
  BY DEF OpsInv, LookupOrdered
<1>. QED
  BY <1>1, <1>2

\* Steps of descriptors, kernel users and the publication: no link moves.
LEMMA HolderSteps ==
  ASSUME OpsInv, NEW m \in OpsCase.Map,
         Ops!Open(m) \/ Ops!Close(m) \/ Ops!Write(m) \/ Ops!Publish(m) \/ Ops!Delete(m)
           \/ Ops!Get(m) \/ Ops!Put(m)
  PROVE  OpsInv'
<1>t. /\ desc \in [OpsCase.Map -> OpsCase.Desc \cup {Null}]
      /\ linkable \in [OpsCase.Map -> BOOLEAN] /\ written \in [OpsCase.Map -> BOOLEAN]
      /\ state \in [OpsCase.Map -> Ops!States]
      /\ usercnt \in [OpsCase.Map -> Nat] /\ gets \in [OpsCase.Map -> Nat]
      /\ refcnt \in [OpsCase.Map -> Nat]
      /\ olinked \in [OpsCase.Links -> OpsCase.Map \cup {Null}]
  BY DEF OpsInv, Ops!TypeOK
<1>f. /\ desc' = desc /\ linkable' = linkable /\ olinked' = olinked
      /\ opc' = opc /\ seen' = seen /\ uvalue' = uvalue
  BY DEF Ops!Open, Ops!Close, Ops!Write, Ops!Publish, Ops!Delete, Ops!Get, Ops!Put,
         Ops!readVars
<1>w. /\ written' \in [OpsCase.Map -> BOOLEAN]
      /\ \A k \in OpsCase.Map : written[k] = TRUE => written'[k] = TRUE
  BY <1>t DEF Ops!Open, Ops!Close, Ops!Write, Ops!Publish, Ops!Delete, Ops!Get, Ops!Put
<1>s. state' \in [OpsCase.Map -> Ops!States]
  BY <1>t DEF Ops!Open, Ops!Close, Ops!Write, Ops!Publish, Ops!Delete, Ops!Get, Ops!Put,
              Ops!States
<1>l. SeenTyped' /\ LookupOrdered' /\ Ops!LookupSeesPublished'
  BY <1>f, <1>w, LookupKept
<1>h. Ops!LinksHoldReady'
  <2>. SUFFICES ASSUME NEW l \in OpsCase.Links, olinked[l] # Null
                PROVE  linkable[olinked[l]] /\ state'[olinked[l]] = "READY"
    BY <1>f DEF Ops!LinksHoldReady
  <2>1. /\ olinked[l] \in OpsCase.Map
        /\ linkable[olinked[l]] /\ state[olinked[l]] = "READY"
    BY <1>t DEF OpsInv, Ops!LinksHoldReady
  <2>2. state'[olinked[l]] = state[olinked[l]]
    BY <1>t, <2>1 DEF Ops!Open, Ops!Close, Ops!Write, Ops!Publish, Ops!Delete, Ops!Get, Ops!Put
  <2>. QED
    BY <2>1, <2>2
<1>d. refcnt[m] > 0 \/ usercnt[m] > 0 \/ gets[m] > 0 => desc[m] # Null
  <2>. SUFFICES ASSUME desc[m] = Null
                PROVE  refcnt[m] = 0 /\ usercnt[m] = 0 /\ gets[m] = 0
    BY <1>t
  <2>1. state[m] = "INIT" /\ usercnt[m] = 0 /\ gets[m] = 0
    BY DEF OpsInv, MapsOrdered
  <2>2. Ops!LinksTo(m) = {}
    BY <2>1, OpsConstants DEF OpsInv, Ops!LinksHoldReady, Ops!LinksTo
  <2>. QED
    BY <2>1, <2>2, FS_EmptySet DEF OpsInv, Refs
<1>. DEFINE Counted(u, g) ==
       /\ usercnt' = [usercnt EXCEPT ![m] = @ + u]
       /\ gets' = [gets EXCEPT ![m] = @ + g]
       /\ refcnt' = [refcnt EXCEPT ![m] = @ + (u + g)]
       /\ usercnt[m] + u >= 0 /\ gets[m] + g >= 0
<1>. HIDE DEF Counted
<1>c. ASSUME NEW u \in Int, NEW g \in Int, Counted(u, g), MapsOrdered'
      PROVE  OpsInv'
  <2>1. /\ \A k \in OpsCase.Map : refcnt'[k] = Refs(k)'
        /\ refcnt' \in [OpsCase.Map -> Nat]
        /\ usercnt' \in [OpsCase.Map -> Nat]
        /\ gets' \in [OpsCase.Map -> Nat]
    BY <1>c, <1>f, RefsAfter DEF Counted
  <2>2. Ops!TypeOK'
    BY <2>1, <1>t, <1>f, <1>w, <1>s DEF OpsInv, Ops!TypeOK, Ops!States
  <2>. QED
    BY <2>1, <2>2, <1>c, <1>l, <1>h DEF OpsInv
<1>m. \A k \in OpsCase.Map :
        /\ desc[k] = Null => state[k] = "INIT" /\ usercnt[k] = 0 /\ gets[k] = 0
        /\ state[k] = "INUSE" => gets[k] >= 1
        /\ state[k] # "INIT" => written[k] = TRUE
  BY DEF OpsInv, MapsOrdered
<1>i. /\ 0 \in Int /\ 1 \in Int /\ -1 \in Int
      /\ \A x \in Nat : x + 0 = x /\ x + (-1) = x - 1
      /\ 1 + 0 = 1 /\ 0 + 1 = 1 /\ 0 + 0 = 0 /\ -1 + 0 = -1 /\ 0 + (-1) = -1
  OBVIOUS
<1>1. CASE Ops!Open(m)
  <2>1. Counted(1, 0)
    BY <1>1, <1>t, <1>i DEF Ops!Open, Counted
  <2>2. MapsOrdered'
    BY <1>1, <1>t, <1>m, <1>d DEF Ops!Open, MapsOrdered
  <2>. QED
    BY <2>1, <2>2, <1>c, <1>i
<1>2. CASE Ops!Close(m)
  <2>0. usercnt[m] >= 1
    BY <1>2, <1>t DEF Ops!Close
  <2>1. Counted(-1, 0)
    <3>1. /\ usercnt[m] + (-1) = usercnt[m] - 1 /\ gets[m] + 0 = gets[m]
          /\ refcnt[m] + (-1 + 0) = refcnt[m] - 1
          /\ usercnt[m] + (-1) >= 0 /\ gets[m] + 0 >= 0
      BY <2>0, <1>t
    <3>2. /\ usercnt' = [usercnt EXCEPT ![m] = usercnt[m] - 1]
          /\ refcnt' = [refcnt EXCEPT ![m] = refcnt[m] - 1]
      BY <1>2 DEF Ops!Close
    <3>3. gets' = [gets EXCEPT ![m] = gets[m]]
      BY <1>2, <1>t DEF Ops!Close
    <3>. QED
      BY <3>1, <3>2, <3>3, Zenon DEF Counted
  <2>2. MapsOrdered'
    BY <1>2, <2>0, <1>t, <1>m DEF Ops!Close, MapsOrdered
  <2>. QED
    BY <2>1, <2>2, <1>c, <1>i
<1>3. CASE Ops!Write(m)
  <2>1. Counted(0, 0)
    BY <1>3, <1>t, <1>i DEF Ops!Write, Counted
  <2>2. MapsOrdered'
    BY <1>3, <1>t, <1>m DEF Ops!Write, MapsOrdered
  <2>. QED
    BY <2>1, <2>2, <1>c, <1>i
<1>4. CASE Ops!Publish(m)
  <2>1. CASE linkable[m]
    <3>1. Counted(0, 0)
      BY <1>4, <2>1, <1>t, <1>i DEF Ops!Publish, Counted
    <3>2. MapsOrdered'
      BY <1>4, <2>1, <1>t, <1>m, <1>d DEF Ops!Publish, MapsOrdered
    <3>. QED
      BY <3>1, <3>2, <1>c, <1>i
  <2>2. CASE ~ linkable[m]
    <3>1. Counted(0, 1)
      BY <1>4, <2>2, <1>t, <1>i DEF Ops!Publish, Counted
    <3>2. MapsOrdered'
      BY <1>4, <2>2, <1>t, <1>m, <1>d DEF Ops!Publish, MapsOrdered
    <3>. QED
      BY <3>1, <3>2, <1>c, <1>i
  <2>. QED
    BY <2>1, <2>2
<1>5. CASE Ops!Delete(m)
  <2>0. gets[m] >= 1
    BY <1>5, <1>m DEF Ops!Delete
  <2>1. Counted(0, -1)
    <3>1. /\ gets[m] + (-1) = gets[m] - 1 /\ usercnt[m] + 0 = usercnt[m]
          /\ refcnt[m] + (0 + (-1)) = refcnt[m] - 1
          /\ usercnt[m] + 0 >= 0 /\ gets[m] + (-1) >= 0
      BY <2>0, <1>t
    <3>2. /\ gets' = [gets EXCEPT ![m] = gets[m] - 1]
          /\ refcnt' = [refcnt EXCEPT ![m] = refcnt[m] - 1]
      BY <1>5 DEF Ops!Delete
    <3>3. usercnt' = [usercnt EXCEPT ![m] = usercnt[m]]
      BY <1>5, <1>t DEF Ops!Delete
    <3>. QED
      BY <3>1, <3>2, <3>3, Zenon DEF Counted
  <2>2. MapsOrdered'
    BY <1>5, <1>t, <1>m, <1>d DEF Ops!Delete, MapsOrdered
  <2>. QED
    BY <2>1, <2>2, <1>c, <1>i
<1>6. CASE Ops!Get(m)
  <2>1. Counted(0, 1)
    BY <1>6, <1>t, <1>i DEF Ops!Get, Ops!inc_not_zero, Counted
  <2>2. MapsOrdered'
    BY <1>6, <1>t, <1>m, <1>d DEF Ops!Get, Ops!inc_not_zero, MapsOrdered
  <2>. QED
    BY <2>1, <2>2, <1>c, <1>i
<1>7. CASE Ops!Put(m)
  <2>0. gets[m] >= 1 /\ (state[m] = "INUSE" => gets[m] >= 2)
    BY <1>7, <1>t DEF Ops!Put, Ops!Held
  <2>1. Counted(0, -1)
    <3>1. /\ gets[m] + (-1) = gets[m] - 1 /\ usercnt[m] + 0 = usercnt[m]
          /\ refcnt[m] + (0 + (-1)) = refcnt[m] - 1
          /\ usercnt[m] + 0 >= 0 /\ gets[m] + (-1) >= 0
      BY <2>0, <1>t
    <3>2. /\ gets' = [gets EXCEPT ![m] = gets[m] - 1]
          /\ refcnt' = [refcnt EXCEPT ![m] = refcnt[m] - 1]
      BY <1>7 DEF Ops!Put
    <3>3. usercnt' = [usercnt EXCEPT ![m] = usercnt[m]]
      BY <1>7, <1>t DEF Ops!Put
    <3>. QED
      BY <3>1, <3>2, <3>3, Zenon DEF Counted
  <2>2. MapsOrdered'
    BY <1>7, <2>0, <1>t, <1>m DEF Ops!Put, MapsOrdered
  <2>. QED
    BY <2>1, <2>2, <1>c, <1>i
<1>. QED
  BY <1>1, <1>2, <1>3, <1>4, <1>5, <1>6, <1>7

\* Creation: the map that did not exist had no reference of any kind.
LEMMA CreateStep ==
  ASSUME OpsInv, NEW m \in OpsCase.Map, NEW d \in OpsCase.Desc, NEW attr,
         Ops!Create(m, d, attr)
  PROVE  OpsInv'
<1>t. /\ desc \in [OpsCase.Map -> OpsCase.Desc \cup {Null}]
      /\ linkable \in [OpsCase.Map -> BOOLEAN] /\ written \in [OpsCase.Map -> BOOLEAN]
      /\ usercnt \in [OpsCase.Map -> Nat] /\ gets \in [OpsCase.Map -> Nat]
      /\ refcnt \in [OpsCase.Map -> Nat]
      /\ olinked \in [OpsCase.Links -> OpsCase.Map \cup {Null}]
  BY DEF OpsInv, Ops!TypeOK
<1>f. /\ desc[m] = Null
      /\ desc' = [desc EXCEPT ![m] = d]
      /\ linkable' = [linkable EXCEPT ![m] = "LINK" \in attr.map_flags]
      /\ refcnt' = [refcnt EXCEPT ![m] = 1] /\ usercnt' = [usercnt EXCEPT ![m] = 1]
      /\ state' = state /\ written' = written /\ gets' = gets /\ olinked' = olinked
      /\ opc' = opc /\ seen' = seen /\ uvalue' = uvalue
  BY DEF Ops!Create, Ops!readVars
<1>1. state[m] = "INIT" /\ usercnt[m] = 0 /\ gets[m] = 0
  BY <1>f DEF OpsInv, MapsOrdered
<1>2. \A l \in OpsCase.Links : olinked[l] # m
  BY <1>1, OpsConstants DEF OpsInv, Ops!LinksHoldReady
<1>3. refcnt[m] = 0
  <2>1. Ops!LinksTo(m) = {}
    BY <1>2 DEF Ops!LinksTo
  <2>2. refcnt[m] = Refs(m)
    BY DEF OpsInv
  <2>. QED
    BY <2>1, <2>2, <1>1, FS_EmptySet DEF Refs
<1>4. /\ usercnt' = [usercnt EXCEPT ![m] = usercnt[m] + 1]
      /\ gets' = [gets EXCEPT ![m] = gets[m] + 0]
      /\ refcnt' = [refcnt EXCEPT ![m] = refcnt[m] + (1 + 0)]
      /\ usercnt[m] + 1 >= 0 /\ gets[m] + 0 >= 0
  BY <1>f, <1>t, <1>1, <1>3
<1>5. /\ \A k \in OpsCase.Map : refcnt'[k] = Refs(k)'
      /\ refcnt' \in [OpsCase.Map -> Nat]
      /\ usercnt' \in [OpsCase.Map -> Nat]
      /\ gets' \in [OpsCase.Map -> Nat]
  <2>1. 0 \in Int /\ 1 \in Int
    OBVIOUS
  <2>. QED
    BY <1>4, <1>f, <2>1, RefsAfter
<1>6. linkable' \in [OpsCase.Map -> BOOLEAN]
  <2>1. CASE "LINK" \in attr.map_flags
    <3>1. linkable' = [linkable EXCEPT ![m] = TRUE]
      BY <2>1, <1>f
    <3>. QED
      BY <3>1, <1>t
  <2>2. CASE "LINK" \notin attr.map_flags
    <3>0. ("LINK" \in attr.map_flags) = FALSE
      BY <2>2
    <3>1. linkable' = [linkable EXCEPT ![m] = FALSE]
      BY <3>0, <1>f, Zenon
    <3>. QED
      BY <3>1, <1>t
  <2>. QED
    BY <2>1, <2>2
<1>7. Ops!TypeOK'
  <2>1. desc' \in [OpsCase.Map -> OpsCase.Desc \cup {Null}]
    BY <1>f, <1>t
  <2>. QED
    BY <2>1, <1>5, <1>6, <1>f DEF OpsInv, Ops!TypeOK, Ops!States
<1>8. MapsOrdered'
  BY <1>f, <1>t, OpsConstants DEF OpsInv, MapsOrdered
<1>9. Ops!LinksHoldReady'
  <2>. SUFFICES ASSUME NEW l \in OpsCase.Links, olinked[l] # Null
                PROVE  linkable'[olinked[l]] /\ state[olinked[l]] = "READY"
    BY <1>f DEF Ops!LinksHoldReady
  <2>1. /\ olinked[l] \in OpsCase.Map /\ olinked[l] # m
        /\ linkable[olinked[l]] /\ state[olinked[l]] = "READY"
    BY <1>t, <1>2 DEF OpsInv, Ops!LinksHoldReady
  <2>2. linkable'[olinked[l]] = linkable[olinked[l]]
    BY <2>1, <1>f, <1>t
  <2>. QED
    BY <2>1, <2>2
<1>10. SeenTyped' /\ LookupOrdered' /\ Ops!LookupSeesPublished'
  BY <1>f, LookupKept
<1>. QED
  BY <1>5, <1>7, <1>8, <1>9, <1>10 DEF OpsInv

\* Steps of a link: only a ready map made for links is taken.
LEMMA LinkSteps ==
  ASSUME OpsInv, NEW l \in OpsCase.Links, NEW m \in OpsCase.Map \cup {Null},
         m # Null => linkable[m] /\ state[m] = "READY",
         olinked' = [olinked EXCEPT ![l] = m],
         refcnt' = [k \in OpsCase.Map |-> refcnt[k] + (IF k = m THEN 1 ELSE 0)
                                            - (IF k = olinked[l] THEN 1 ELSE 0)],
         UNCHANGED <<desc, linkable, state, written, usercnt, gets, opc, seen, uvalue>>
  PROVE  OpsInv'
<1>1. olinked \in [OpsCase.Links -> OpsCase.Map \cup {Null}]
  BY DEF OpsInv, Ops!TypeOK
<1>2. /\ \A k \in OpsCase.Map : refcnt'[k] = Refs(k)'
      /\ refcnt' \in [OpsCase.Map -> Nat]
  BY RefsAfterMove
<1>3. Ops!TypeOK'
  BY <1>1, <1>2 DEF OpsInv, Ops!TypeOK, Ops!States
<1>4. MapsOrdered'
  BY DEF OpsInv, MapsOrdered
<1>5. Ops!LinksHoldReady'
  BY <1>1 DEF OpsInv, Ops!LinksHoldReady
<1>6. SeenTyped' /\ LookupOrdered' /\ Ops!LookupSeesPublished'
  BY LookupKept
<1>. QED
  BY <1>2, <1>3, <1>4, <1>5, <1>6 DEF OpsInv

\* Steps of the lookup, which only reads.
LEMMA LookupSteps ==
  ASSUME OpsInv,
         \/ \E m \in OpsCase.Map : Ops!LookupState(m)
         \/ Ops!LookupCopy \/ Ops!LookupRefcnt \/ Ops!LookupUsercnt
         \/ Ops!LookupReport \/ Ops!LookupReturn
  PROVE  OpsInv'
<1>f. UNCHANGED <<desc, linkable, state, written, refcnt, usercnt, gets, olinked>>
  BY DEF Ops!LookupState, Ops!LookupCopy, Ops!LookupRefcnt, Ops!LookupUsercnt,
         Ops!LookupReport, Ops!LookupReturn, Ops!mapVars
<1>t. /\ state \in [OpsCase.Map -> Ops!States]
      /\ refcnt \in [OpsCase.Map -> Nat] /\ usercnt \in [OpsCase.Map -> Nat]
      /\ \A m \in OpsCase.Map : state[m] # "INIT" => written[m] = TRUE
  BY DEF OpsInv, Ops!TypeOK, MapsOrdered
<1>s. /\ seen.map \in OpsCase.Map \cup {Null} /\ seen.state \in Ops!States \cup {"none"}
      /\ seen.value \in {"none", "zero", "user"} /\ seen.refcnt \in Int /\ seen.usercnt \in Int
      /\ seen = [map |-> seen.map, state |-> seen.state, value |-> seen.value,
                 refcnt |-> seen.refcnt, usercnt |-> seen.usercnt]
  BY DEF OpsInv, SeenTyped
<1>o. /\ opc # "idle" => seen.map \in OpsCase.Map
      /\ opc \in {"copy", "count"} => seen.state # "INIT" /\ written[seen.map] = TRUE
      /\ opc = "count" => seen.value = "user"
  BY DEF OpsInv, LookupOrdered
<1>r. \A m \in OpsCase.Map : refcnt'[m] = Refs(m)'
  BY <1>f DEF OpsInv, Refs, Ops!LinksTo
<1>h. MapsOrdered' /\ Ops!LinksHoldReady'
  BY <1>f DEF OpsInv, MapsOrdered, Ops!LinksHoldReady
<1>u. uvalue \in [value : {"none", "zero", "user"}, state : Ops!States \cup {"none"}, refs : Nat]
  BY DEF OpsInv, Ops!TypeOK
<1>c. ASSUME SeenTyped', LookupOrdered', Ops!LookupSeesPublished',
             opc' \in {"idle", "copy", "count", "done"},
             uvalue' \in [value : {"none", "zero", "user"}, state : Ops!States \cup {"none"},
                          refs : Nat]
      PROVE  OpsInv'
  <2>1. Ops!TypeOK'
    BY <1>c, <1>f DEF OpsInv, Ops!TypeOK, Ops!States
  <2>. QED
    BY <2>1, <1>c, <1>r, <1>h DEF OpsInv
<1>1. ASSUME NEW m \in OpsCase.Map, Ops!LookupState(m)  PROVE  OpsInv'
  <2>1. seen' = [map |-> m, state |-> state[m], value |-> "none", refcnt |-> -1, usercnt |-> -1]
    BY <1>1 DEF Ops!LookupState, Ops!NothingSeen, Ops!Unread
  <2>2. SeenTyped'
    BY <2>1, <1>t DEF SeenTyped, Ops!States
  <2>3. CASE state[m] = "INIT"
    <3>1. opc' = "done" /\ uvalue' = [value |-> "zero", state |-> "INIT", refs |-> 0]
      BY <1>1, <2>3 DEF Ops!LookupState
    <3>2. LookupOrdered' /\ Ops!LookupSeesPublished'
      BY <2>1, <3>1 DEF LookupOrdered, Ops!LookupSeesPublished
    <3>3. uvalue' \in [value : {"none", "zero", "user"}, state : Ops!States \cup {"none"},
                       refs : Nat]
      BY <3>1 DEF Ops!States
    <3>. QED
      BY <2>2, <3>1, <3>2, <3>3, <1>c
  <2>4. CASE state[m] # "INIT"
    <3>1. opc' = "copy" /\ uvalue' = [value |-> "none", state |-> "none", refs |-> 0]
      BY <1>1, <2>4 DEF Ops!LookupState, Ops!NoReply
    <3>2. LookupOrdered' /\ Ops!LookupSeesPublished'
      BY <2>1, <2>4, <3>1, <1>t, <1>f DEF LookupOrdered, Ops!LookupSeesPublished
    <3>3. uvalue' \in [value : {"none", "zero", "user"}, state : Ops!States \cup {"none"},
                       refs : Nat]
      BY <3>1
    <3>. QED
      BY <2>2, <3>1, <3>2, <3>3, <1>c
  <2>. QED
    BY <2>3, <2>4
<1>2. CASE Ops!LookupCopy
  <2>1. seen' = [map |-> seen.map, state |-> seen.state, value |-> "user",
                 refcnt |-> seen.refcnt, usercnt |-> seen.usercnt]
    BY <1>2, <1>s, <1>o DEF Ops!LookupCopy
  <2>2. opc = "copy" /\ opc' = "count" /\ uvalue' = uvalue
    BY <1>2 DEF Ops!LookupCopy
  <2>3. SeenTyped'
    BY <2>1, <1>s DEF SeenTyped, Ops!States
  <2>4. LookupOrdered' /\ Ops!LookupSeesPublished'
    BY <2>1, <2>2, <1>o, <1>f DEF LookupOrdered, Ops!LookupSeesPublished
  <2>. QED
    BY <2>2, <2>3, <2>4, <1>c, <1>u
<1>3. CASE Ops!LookupRefcnt
  <2>1. /\ seen.map \in OpsCase.Map
        /\ seen' = [map |-> seen.map, state |-> seen.state, value |-> seen.value,
                    refcnt |-> refcnt[seen.map], usercnt |-> seen.usercnt]
    BY <1>3, <1>s, <1>o DEF Ops!LookupRefcnt
  <2>2. opc = "count" /\ opc' = "count" /\ uvalue' = uvalue
    BY <1>3 DEF Ops!LookupRefcnt
  <2>3. SeenTyped'
    BY <2>1, <1>s, <1>t DEF SeenTyped, Ops!States
  <2>4. LookupOrdered' /\ Ops!LookupSeesPublished'
    BY <2>1, <2>2, <1>o, <1>f DEF LookupOrdered, Ops!LookupSeesPublished
  <2>. QED
    BY <2>2, <2>3, <2>4, <1>c, <1>u
<1>4. CASE Ops!LookupUsercnt
  <2>1. /\ seen.map \in OpsCase.Map
        /\ seen' = [map |-> seen.map, state |-> seen.state, value |-> seen.value,
                    refcnt |-> seen.refcnt, usercnt |-> usercnt[seen.map]]
    BY <1>4, <1>s, <1>o DEF Ops!LookupUsercnt
  <2>2. opc = "count" /\ opc' = "count" /\ uvalue' = uvalue
    BY <1>4 DEF Ops!LookupUsercnt
  <2>3. SeenTyped'
    BY <2>1, <1>s, <1>t DEF SeenTyped, Ops!States
  <2>4. LookupOrdered' /\ Ops!LookupSeesPublished'
    BY <2>1, <2>2, <1>o, <1>f DEF LookupOrdered, Ops!LookupSeesPublished
  <2>. QED
    BY <2>2, <2>3, <2>4, <1>c, <1>u
<1>5. CASE Ops!LookupReport
  <2>1. /\ opc = "count" /\ opc' = "done" /\ seen' = seen
        /\ uvalue' = [value |-> seen.value, state |-> seen.state,
                      refs |-> Ops!Report(seen.refcnt, seen.usercnt)]
    BY <1>5 DEF Ops!LookupReport
  <2>2. Ops!Report(seen.refcnt, seen.usercnt) \in Nat
    BY <1>s DEF Ops!Report
  <2>3. uvalue' \in [value : {"none", "zero", "user"}, state : Ops!States \cup {"none"},
                     refs : Nat]
    BY <2>1, <2>2, <1>s
  <2>4. LookupOrdered' /\ Ops!LookupSeesPublished'
    BY <2>1, <1>o DEF LookupOrdered, Ops!LookupSeesPublished
  <2>5. SeenTyped'
    BY <2>1 DEF OpsInv, SeenTyped, Ops!States
  <2>. QED
    BY <2>1, <2>3, <2>4, <2>5, <1>c
<1>6. CASE Ops!LookupReturn
  <2>1. /\ opc' = "idle"
        /\ seen' = [map |-> Null, state |-> "none", value |-> "none", refcnt |-> -1,
                    usercnt |-> -1]
        /\ uvalue' = [value |-> "none", state |-> "none", refs |-> 0]
    BY <1>6 DEF Ops!LookupReturn, Ops!NothingSeen, Ops!Unread, Ops!NoReply
  <2>2. SeenTyped' /\ LookupOrdered' /\ Ops!LookupSeesPublished'
    BY <2>1 DEF SeenTyped, LookupOrdered, Ops!LookupSeesPublished
  <2>3. uvalue' \in [value : {"none", "zero", "user"}, state : Ops!States \cup {"none"},
                     refs : Nat]
    BY <2>1
  <2>. QED
    BY <2>1, <2>2, <2>3, <1>c
<1>. QED
  BY <1>1, <1>2, <1>3, <1>4, <1>5, <1>6

\* What an accepted update of a link has found out.
LEMMA UpdateGuards ==
  ASSUME NEW l, NEW m, NEW e, Ops!link_update(l, m, e) = "ok"
  PROVE  /\ linkable[m] /\ state[m] = "READY"
         /\ olinked[l] # Null /\ desc[m] = desc[olinked[l]]
  BY DEF Ops!link_update, Ops!bpf_struct_ops_valid_to_reg

\* The three steps of a link, in the form LinkSteps takes.
LEMMA LinkStepForms ==
  ASSUME OpsInv, NEW l \in OpsCase.Links, NEW m \in OpsCase.Map
  PROVE  /\ Ops!CreateLink(l, m) =>
              refcnt' = [k \in OpsCase.Map |-> refcnt[k] + (IF k = m THEN 1 ELSE 0)
                                                 - (IF k = olinked[l] THEN 1 ELSE 0)]
         /\ Ops!Detach(l) =>
              refcnt' = [k \in OpsCase.Map |-> refcnt[k] + (IF k = Null THEN 1 ELSE 0)
                                                 - (IF k = olinked[l] THEN 1 ELSE 0)]
<1>1. refcnt \in [OpsCase.Map -> Nat] /\ olinked \in [OpsCase.Links -> OpsCase.Map \cup {Null}]
  BY DEF OpsInv, Ops!TypeOK
<1>2. ASSUME Ops!CreateLink(l, m)
      PROVE  refcnt' = [k \in OpsCase.Map |-> refcnt[k] + (IF k = m THEN 1 ELSE 0)
                                                 - (IF k = olinked[l] THEN 1 ELSE 0)]
  <2>1. olinked[l] = Null /\ refcnt' = [refcnt EXCEPT ![m] = @ + 1]
    BY <1>2 DEF Ops!CreateLink
  <2>2. ASSUME NEW k \in OpsCase.Map
        PROVE  refcnt'[k] = refcnt[k] + (IF k = m THEN 1 ELSE 0) - (IF k = olinked[l] THEN 1 ELSE 0)
    <3>1. k # olinked[l] /\ refcnt[k] \in Nat
      BY <2>1, <1>1, OpsConstants
    <3>2. refcnt'[k] = IF k = m THEN refcnt[k] + 1 ELSE refcnt[k]
      BY <2>1, <1>1
    <3>. QED
      BY <3>1, <3>2
  <2>3. refcnt' = [k \in OpsCase.Map |-> refcnt'[k]]
    BY <2>1, <1>1
  <2>. QED
    BY <2>2, <2>3
<1>3. ASSUME Ops!Detach(l)
      PROVE  refcnt' = [k \in OpsCase.Map |-> refcnt[k] + (IF k = Null THEN 1 ELSE 0)
                                                 - (IF k = olinked[l] THEN 1 ELSE 0)]
  <2>1. olinked[l] # Null /\ refcnt' = [refcnt EXCEPT ![olinked[l]] = @ - 1]
    BY <1>3 DEF Ops!Detach
  <2>2. ASSUME NEW k \in OpsCase.Map
        PROVE  refcnt'[k] = refcnt[k] + (IF k = Null THEN 1 ELSE 0)
                                      - (IF k = olinked[l] THEN 1 ELSE 0)
    <3>1. k # Null /\ refcnt[k] \in Nat
      BY <1>1, OpsConstants
    <3>2. refcnt'[k] = IF k = olinked[l] THEN refcnt[k] - 1 ELSE refcnt[k]
      BY <2>1, <1>1
    <3>. QED
      BY <3>1, <3>2
  <2>3. refcnt' = [k \in OpsCase.Map |-> refcnt'[k]]
    BY <2>1, <1>1
  <2>. QED
    BY <2>2, <2>3
<1>. QED
  BY <1>2, <1>3

LEMMA OpsInvStep == OpsInv /\ Ops!Next => OpsInv'
<1>. SUFFICES ASSUME OpsInv, Ops!Next  PROVE  OpsInv'
  OBVIOUS
<1>1. ASSUME NEW m \in OpsCase.Map, NEW d \in OpsCase.Desc, NEW attr \in Ops!Attrs,
             Ops!Create(m, d, attr)
      PROVE  OpsInv'
  BY <1>1, CreateStep
<1>2. ASSUME NEW m \in OpsCase.Map,
             \/ Ops!Open(m) \/ Ops!Close(m) \/ Ops!Write(m) \/ Ops!Publish(m) \/ Ops!Delete(m)
             \/ Ops!Get(m) \/ Ops!Put(m)
      PROVE  OpsInv'
  BY <1>2, HolderSteps
<1>3. ASSUME NEW m \in OpsCase.Map, Ops!LookupState(m)  PROVE  OpsInv'
  BY <1>3, LookupSteps
<1>4. ASSUME NEW l \in OpsCase.Links, NEW m \in OpsCase.Map, Ops!CreateLink(l, m)
      PROVE  OpsInv'
  <2>1. /\ linkable[m] /\ state[m] = "READY" /\ olinked' = [olinked EXCEPT ![l] = m]
        /\ UNCHANGED <<desc, linkable, state, written, usercnt, gets, opc, seen, uvalue>>
    BY <1>4 DEF Ops!CreateLink, Ops!bpf_struct_ops_valid_to_reg, Ops!readVars
  <2>. QED
    BY <2>1, <1>4, LinkStepForms, LinkSteps
<1>5. ASSUME NEW l \in OpsCase.Links, NEW m \in OpsCase.Map, NEW e \in OpsCase.Map \cup {Null},
             Ops!UpdateLink(l, m, e)
      PROVE  OpsInv'
  <2>1. /\ linkable[m] /\ state[m] = "READY"
    BY <1>5, UpdateGuards DEF Ops!UpdateLink
  <2>2. /\ olinked' = [olinked EXCEPT ![l] = m]
        /\ refcnt' = [k \in OpsCase.Map |-> refcnt[k] + (IF k = m THEN 1 ELSE 0)
                                              - (IF k = olinked[l] THEN 1 ELSE 0)]
        /\ UNCHANGED <<desc, linkable, state, written, usercnt, gets, opc, seen, uvalue>>
    BY <1>5 DEF Ops!UpdateLink, Ops!readVars
  <2>. QED
    BY <2>1, <2>2, LinkSteps
<1>6. ASSUME NEW l \in OpsCase.Links, Ops!Detach(l)  PROVE  OpsInv'
  <2>1. /\ olinked' = [olinked EXCEPT ![l] = Null] /\ olinked[l] # Null
        /\ UNCHANGED <<desc, linkable, state, written, usercnt, gets, opc, seen, uvalue>>
    BY <1>6 DEF Ops!Detach, Ops!readVars
  <2>2. olinked[l] \in OpsCase.Map
    BY <2>1 DEF OpsInv, Ops!TypeOK
  <2>. QED
    BY <2>1, <2>2, <1>6, LinkStepForms, LinkSteps
<1>7. CASE Ops!LookupCopy \/ Ops!LookupRefcnt \/ Ops!LookupUsercnt \/ Ops!LookupReport
           \/ Ops!LookupReturn
  BY <1>7, LookupSteps
<1>. QED
  BY <1>1, <1>2, <1>3, <1>4, <1>5, <1>6, <1>7, Zenon DEF Ops!Next

LEMMA OpsInvKept == OpsInv /\ UNCHANGED opsVars => OpsInv'
  BY DEF OpsInv, opsVars, Ops!TypeOK, Ops!States, SeenTyped, Refs, Ops!LinksTo, MapsOrdered,
         Ops!LinksHoldReady, LookupOrdered, Ops!LookupSeesPublished

LEMMA OpsInvPartsInit == PartsInit => OpsInv
  BY OpsInvInit DEF PartsInit

LEMMA OpsInvPartsNext == OpsInv /\ [PartsNext]_allVars => OpsInv'
<1>1. ASSUME OpsInv, PartsNext  PROVE  (part = "ops" /\ Ops!Next) \/ UNCHANGED opsVars
  BY <1>1 DEF PartsNext
<1>2. UNCHANGED allVars => UNCHANGED opsVars
  BY DEF allVars
<1>. QED
  BY <1>1, <1>2, OpsInvStep, OpsInvKept

\* bpf_struct_ops.c, for every number of maps, links and references: no link holds a map
\* that is unpublished, not made for links or being freed, and a lookup that finds the map
\* published returns the user's whole value, and none of it if not.
THEOREM PublicationIsWhole == PartsSpec => []PublishedIsWhole
<1>1. OpsInv => PublishedIsWhole
  BY DEF OpsInv, PublishedIsWhole
<1>. QED
  BY <1>1, OpsInvPartsInit, OpsInvPartsNext, PTL DEF PartsSpec
-----------------------------------------------------------------------------
(* struct_ops: what no step does *)

Gone == \A m \in OpsCase.Map : desc[m] # Null /\ refcnt[m] = 0 => refcnt'[m] = 0

SameType ==
  \A l \in OpsCase.Links : olinked[l] # Null /\ olinked'[l] # Null
                             => desc[olinked'[l]] = desc[olinked[l]]

\* Who adds to a map's counter holds one of its references already, or has just counted one.
LEMMA GoneStep == OpsInv /\ Ops!Next => Gone
<1>. SUFFICES ASSUME OpsInv, Ops!Next, NEW k \in OpsCase.Map, desc[k] # Null, refcnt[k] = 0
              PROVE  refcnt'[k] = 0
  BY DEF Gone
<1>t. /\ usercnt \in [OpsCase.Map -> Nat] /\ gets \in [OpsCase.Map -> Nat]
      /\ refcnt \in [OpsCase.Map -> Nat]
      /\ olinked \in [OpsCase.Links -> OpsCase.Map \cup {Null}]
  BY DEF OpsInv, Ops!TypeOK
<1>0. usercnt[k] = 0 /\ gets[k] = 0
  <2>1. refcnt[k] = usercnt[k] + gets[k] + Cardinality(Ops!LinksTo(k))
    BY DEF OpsInv, Refs
  <2>2. Cardinality(Ops!LinksTo(k)) \in Nat
    BY LinksCounted
  <2>. QED
    BY <1>t, <2>1, <2>2
<1>l. \A l \in OpsCase.Links : olinked[l] # k
  BY LinkedIsCounted, OpsConstants
<1>i. state[k] # "INUSE"
  BY <1>0 DEF OpsInv, MapsOrdered
<1>1. ASSUME NEW m \in OpsCase.Map, NEW d \in OpsCase.Desc, NEW attr \in Ops!Attrs,
             Ops!Create(m, d, attr)
      PROVE  refcnt'[k] = 0
  BY <1>1, <1>t DEF Ops!Create
<1>2. ASSUME NEW m \in OpsCase.Map,
             \/ Ops!Open(m) \/ Ops!Close(m) \/ Ops!Write(m) \/ Ops!Publish(m) \/ Ops!Delete(m)
             \/ Ops!Get(m) \/ Ops!Put(m) \/ Ops!LookupState(m)
      PROVE  refcnt'[k] = 0
  BY <1>2, <1>t, <1>0, <1>i
     DEF Ops!Open, Ops!Close, Ops!Write, Ops!Publish, Ops!Delete, Ops!Get, Ops!inc_not_zero,
         Ops!Put, Ops!Held, Ops!LookupState, Ops!mapVars
<1>4. ASSUME NEW l \in OpsCase.Links, NEW m \in OpsCase.Map, Ops!CreateLink(l, m)
      PROVE  refcnt'[k] = 0
  BY <1>4, <1>t, <1>0 DEF Ops!CreateLink
<1>5. ASSUME NEW l \in OpsCase.Links, NEW m \in OpsCase.Map, NEW e \in OpsCase.Map \cup {Null},
             Ops!UpdateLink(l, m, e)
      PROVE  refcnt'[k] = 0
  BY <1>5, <1>t, <1>0, <1>l DEF Ops!UpdateLink
<1>6. ASSUME NEW l \in OpsCase.Links, Ops!Detach(l)  PROVE  refcnt'[k] = 0
  BY <1>6, <1>t, <1>l DEF Ops!Detach
<1>7. CASE Ops!LookupCopy \/ Ops!LookupRefcnt \/ Ops!LookupUsercnt \/ Ops!LookupReport
           \/ Ops!LookupReturn
  BY <1>7 DEF Ops!LookupCopy, Ops!LookupRefcnt, Ops!LookupUsercnt, Ops!LookupReport,
              Ops!LookupReturn, Ops!mapVars
<1>. QED
  BY <1>1, <1>2, <1>4, <1>5, <1>6, <1>7, Zenon DEF Ops!Next

LEMMA SameTypeStep == OpsInv /\ Ops!Next => SameType
<1>. SUFFICES ASSUME OpsInv, Ops!Next, NEW j \in OpsCase.Links, olinked[j] # Null,
                     olinked'[j] # Null
              PROVE  desc[olinked'[j]] = desc[olinked[j]]
  BY DEF SameType
<1>t. olinked \in [OpsCase.Links -> OpsCase.Map \cup {Null}]
  BY DEF OpsInv, Ops!TypeOK
<1>4. ASSUME NEW l \in OpsCase.Links, NEW m \in OpsCase.Map, Ops!CreateLink(l, m)
      PROVE  desc[olinked'[j]] = desc[olinked[j]]
  BY <1>4, <1>t DEF Ops!CreateLink
<1>5. ASSUME NEW l \in OpsCase.Links, NEW m \in OpsCase.Map, NEW e \in OpsCase.Map \cup {Null},
             Ops!UpdateLink(l, m, e)
      PROVE  desc[olinked'[j]] = desc[olinked[j]]
  <2>1. desc[m] = desc[olinked[l]] /\ olinked' = [olinked EXCEPT ![l] = m]
    BY <1>5, UpdateGuards DEF Ops!UpdateLink
  <2>. QED
    BY <2>1, <1>t
<1>6. ASSUME NEW l \in OpsCase.Links, Ops!Detach(l)
      PROVE  desc[olinked'[j]] = desc[olinked[j]]
  BY <1>6, <1>t DEF Ops!Detach
<1>7. ASSUME olinked' = olinked  PROVE  desc[olinked'[j]] = desc[olinked[j]]
  BY <1>7
<1>. QED
  BY <1>4, <1>5, <1>6, <1>7
     DEF Ops!Next, Ops!Create, Ops!Open, Ops!Close, Ops!Write, Ops!Publish, Ops!Delete, Ops!Get,
         Ops!inc_not_zero, Ops!Put, Ops!LookupState, Ops!LookupCopy, Ops!LookupRefcnt, Ops!LookupUsercnt,
         Ops!LookupReport, Ops!LookupReturn

\* bpf_struct_ops.c: no late get, link or descriptor brings a map back whose last reference
\* is gone, and updating a link never changes the type of the operations behind it.
THEOREM LifetimesAreKept == PartsSpec => LifetimesKept
<1>1. ASSUME OpsInv, [PartsNext]_allVars  PROVE  [Gone]_(Ops!vars) /\ [SameType]_(Ops!vars)
  <2>1. CASE Ops!Next
    BY <1>1, <2>1, GoneStep, SameTypeStep
  <2>2. CASE UNCHANGED opsVars
    BY <2>2 DEF opsVars, Ops!vars, Ops!mapVars, Ops!readVars
  <2>. QED
    BY <1>1, <2>1, <2>2 DEF PartsNext, allVars
<1>2. PartsSpec => [][Gone]_(Ops!vars) /\ [][SameType]_(Ops!vars)
  BY <1>1, OpsInvPartsInit, OpsInvPartsNext, PTL DEF PartsSpec
<1>. QED
  BY <1>2 DEF LifetimesKept, Ops!GoneStaysGone, Ops!LinkKeepsType, Gone, SameType
-----------------------------------------------------------------------------
(* Unsigned arithmetic *)

\* Quotient and remainder.
LEMMA DivModFacts ==
  ASSUME NEW N \in Nat \ {0}, NEW n \in Nat
  PROVE  \E q \in Nat, r \in 0 .. N - 1 : q = n \div N /\ r = n % N /\ n = N * q + r
<1>. DEFINE q == n \div N
            r == n % N
<1>0. n \in Int
  OBVIOUS
<1>1. q \in Int /\ r \in 0 .. N - 1 /\ n = N * q + r
  BY <1>0
<1>. HIDE DEF q, r
<1>2. ASSUME q < 0  PROVE  FALSE
  <2>1. q + 1 <= 0
    BY <1>1, <1>2
  <2>2. N * (q + 1) <= N * 0
    BY <1>1, <2>1
  <2>3. N * (q + 1) = N * q + N
    BY <1>1
  <2>. QED
    BY <1>1, <2>2, <2>3
<1>3. q \in Nat
  BY <1>1, <1>2
<1>4. q = n \div N /\ r = n % N
  BY DEF q, r
<1>5. r \in 0 .. N - 1 /\ n = N * q + r
  BY <1>1
<1>. QED
  BY <1>3, <1>4, <1>5, Zenon

LEMMA DivModUnique ==
  ASSUME NEW N \in Nat \ {0}, NEW a \in 0 .. N - 1, NEW b \in Nat
  PROVE  (b * N + a) % N = a
<1>. DEFINE n == b * N + a
<1>1. n \in Nat
  OBVIOUS
<1>2. PICK q \in Nat, r \in 0 .. N - 1 : q = n \div N /\ r = n % N /\ n = N * q + r
  <2>. HIDE DEF n
  <2>. QED
    BY <1>1, DivModFacts, Zenon
<1>3. N * q + r = N * b + a
  BY <1>2
<1>4. ASSUME q < b  PROVE  FALSE
  <2>1. q + 1 <= b
    BY <1>2, <1>4
  <2>2. N * (q + 1) <= N * b
    BY <1>2, <2>1
  <2>3. N * (q + 1) = N * q + N
    BY <1>2
  <2>. QED
    BY <1>2, <1>3, <2>2, <2>3
<1>5. ASSUME b < q  PROVE  FALSE
  <2>1. b + 1 <= q
    BY <1>2, <1>5
  <2>2. N * (b + 1) <= N * q
    BY <1>2, <2>1
  <2>3. N * (b + 1) = N * b + N
    OBVIOUS
  <2>. QED
    BY <1>2, <1>3, <2>2, <2>3
<1>6. q = b
  BY <1>2, <1>4, <1>5
<1>7. r = a
  BY <1>2, <1>3, <1>6
<1>. QED
  BY <1>2, <1>7 DEF n

\* A value below the word is its own remainder.
LEMMA Fits ==
  ASSUME NEW W \in Nat \ {0}, NEW n \in Nat, n < W
  PROVE  n % W = n
<1>1. n \in 0 .. W - 1 /\ 0 \in Nat /\ 0 * W + n = n
  OBVIOUS
<1>. QED
  BY <1>1, DivModUnique

\* A counter kept modulo the word goes up and down with the number it counts.
LEMMA CounterUp ==
  ASSUME NEW W \in Nat \ {0}, NEW n \in Nat
  PROVE  ((n % W) + 1) % W = (n + 1) % W
<1>1. PICK q \in Nat, r \in 0 .. W - 1 : q = n \div W /\ r = n % W /\ n = W * q + r
  BY DivModFacts, Zenon
<1>2. CASE r + 1 < W
  <2>1. r + 1 \in 0 .. W - 1 /\ r + 1 \in Nat /\ n + 1 = q * W + (r + 1)
    BY <1>1, <1>2
  <2>2. (r + 1) % W = r + 1
    BY <2>1, <1>2, Fits
  <2>3. (q * W + (r + 1)) % W = r + 1
    BY <2>1, <1>1, DivModUnique
  <2>4. (r + 1) % W = (n + 1) % W
    BY <2>1, <2>2, <2>3
  <2>. QED
    BY <2>4, <1>1
<1>3. CASE r + 1 = W
  <2>1. 0 \in 0 .. W - 1 /\ q + 1 \in Nat /\ n + 1 = (q + 1) * W + 0
    BY <1>1, <1>3
  <2>2. ((q + 1) * W + 0) % W = 0
    BY <2>1, DivModUnique
  <2>3. (1 * W + 0) % W = 0 /\ 1 * W + 0 = r + 1
    <3>1. 1 \in Nat
      OBVIOUS
    <3>2. (1 * W + 0) % W = 0
      BY <2>1, <3>1, DivModUnique
    <3>. QED
      BY <3>2, <1>3
  <2>4. (r + 1) % W = (n + 1) % W
    BY <2>1, <2>2, <2>3
  <2>. QED
    BY <2>4, <1>1
<1>. QED
  BY <1>1, <1>2, <1>3

LEMMA CounterDown ==
  ASSUME NEW W \in Nat \ {0}, NEW n \in Nat, n >= 1
  PROVE  ((n % W) + W - 1) % W = (n - 1) % W
<1>1. PICK q \in Nat, r \in 0 .. W - 1 : q = n \div W /\ r = n % W /\ n = W * q + r
  BY DivModFacts, Zenon
<1>2. CASE r >= 1
  <2>1. r - 1 \in 0 .. W - 1 /\ n - 1 = q * W + (r - 1) /\ 1 * W + (r - 1) = r + W - 1
    BY <1>1, <1>2
  <2>2. (q * W + (r - 1)) % W = r - 1
    BY <2>1, <1>1, DivModUnique
  <2>3. (1 * W + (r - 1)) % W = r - 1
    <3>1. 1 \in Nat
      OBVIOUS
    <3>. QED
      BY <3>1, <2>1, DivModUnique
  <2>4. (r + W - 1) % W = (n - 1) % W
    BY <2>1, <2>2, <2>3
  <2>. QED
    BY <2>4, <1>1
<1>3. CASE r = 0
  <2>0. q >= 1
    BY <1>1, <1>3
  <2>1. W - 1 \in 0 .. W - 1 /\ q - 1 \in Nat /\ n - 1 = (q - 1) * W + (W - 1) /\ r + W - 1 = W - 1
    BY <1>1, <1>3, <2>0
  <2>2. ((q - 1) * W + (W - 1)) % W = W - 1
    BY <2>1, DivModUnique
  <2>3. (W - 1) % W = W - 1
    BY <2>1, Fits
  <2>4. (r + W - 1) % W = (n - 1) % W
    BY <2>1, <2>2, <2>3
  <2>. QED
    BY <2>4, <1>1
<1>. QED
  BY <1>1, <1>2, <1>3

\* round_up() that does not wrap gives a slot of the value's size or more, by less than the
\* alignment.
LEMMA RoundUpFits ==
  ASSUME NEW W \in Nat \ {0}, NEW A \in Nat \ {0}, NEW x \in Nat, x + A - 1 < W
  PROVE  LET up == (((x + A - 1) % W) \div A) * A
         IN  up \in Nat /\ x <= up /\ up <= x + A - 1 /\ up = ((x + A - 1) \div A) * A
<1>. DEFINE y == x + A - 1
<1>1. y \in Nat /\ y < W /\ x <= y
  OBVIOUS
<1>2. y % W = y
  <2>. HIDE DEF y
  <2>. QED
    BY <1>1, Fits
<1>3. PICK q \in Nat, r \in 0 .. A - 1 : q = y \div A /\ r = y % A /\ y = A * q + r
  <2>. HIDE DEF y
  <2>. QED
    BY <1>1, DivModFacts, Zenon
<1>4. x + A - 1 = q * A + r
  BY <1>3
<1>5. q * A \in Nat
  BY <1>3
<1>6. x <= q * A /\ q * A <= x + A - 1
  <2>. DEFINE p == q * A
  <2>. HIDE DEF p
  <2>1. p \in Nat /\ x + A - 1 = p + r
    BY <1>4, <1>5 DEF p
  <2>2. x <= p /\ p <= x + A - 1
    BY <2>1, <1>3
  <2>. QED
    BY <2>2 DEF p
<1>. QED
  BY <1>2, <1>3, <1>5, <1>6, Zenon DEF y

LEMMA ProductsOrdered ==
  ASSUME NEW a \in Nat, NEW b \in Nat, NEW m \in Nat, NEW n \in Nat, a <= b, m <= n
  PROVE  a * m <= b * n
<1>1. a * m <= b * m
  OBVIOUS
<1>2. b * m <= b * n
  OBVIOUS
<1>3. a * m \in Nat /\ b * m \in Nat /\ b * n \in Nat
  OBVIOUS
<1>. QED
  BY <1>1, <1>2, <1>3
-----------------------------------------------------------------------------
(* hashtab.c: the element counts *)

HashStep == {"idle", "alloc", "count", "tally", "insert", "remove", "uncount", "untally"}

\* CPUs that will add an element: they passed is_map_full() and have not inserted yet.
Pending == {c \in HashCase.Cpu : hpc[c] \in {"count", "tally", "insert"} /\ replacing[c] = FALSE}

\* A CPU in a call holds the bucket of its key, and nobody else does; whether the key is in
\* the table stays what the CPU found when it took the bucket.
BucketsHeld ==
  \A c \in HashCase.Cpu :
    /\ hpc[c] # "idle" => hkey[c] \in HashCase.Key
    /\ hpc[c] \in {"alloc", "count", "tally", "insert"} => (replacing[c] = TRUE <=> hkey[c] \in elems)
    /\ hpc[c] = "remove" => hkey[c] \in elems
    /\ \A d \in HashCase.Cpu : hpc[c] # "idle" /\ hpc[d] # "idle" /\ hkey[c] = hkey[d] => c = d

\* The elements and the ones about to come leave max_entries behind by at most one per CPU
\* but the first.
RoomKept ==
  Cardinality(elems) + Cardinality(Pending) <= HashCase.MaxEntries + Cardinality(HashCase.Cpu) - 1

HashInv ==
  /\ hmap \in Hash!Maps
  /\ Hash!TypeOK
  /\ count = Cardinality(elems) + Cardinality(Hash!InFlight)
  /\ nrElems = (Cardinality(elems) + Cardinality(Hash!Listed)) % HashCase.Word
  /\ BucketsHeld
  /\ RoomKept

LEMMA HashConstants ==
  /\ HashCase.MaxEntries \in Nat \ {0} /\ HashCase.NodeSize \in Nat
  /\ HashCase.ValueSizes \subseteq 0 .. HashCase.Word - 1
  /\ IsFiniteSet(HashCase.Cpu) /\ IsFiniteSet(HashCase.Key)
  /\ Cardinality(HashCase.Cpu) \in Nat
  /\ HashCase.Word \in Nat \ {0}
<1>1. /\ HashCase.MaxEntries \in Nat \ {0} /\ HashCase.NodeSize \in Nat
      /\ HashCase.ValueSizes \subseteq 0 .. HashCase.Word - 1
      /\ IsFiniteSet(HashCase.Cpu) /\ IsFiniteSet(HashCase.Key)
  BY PartsAssumption, SameCounts DEF Hash!HashAssumption, Hash!U32
<1>2. HashCase.Word \in Nat \ {0}
  BY PartsAssumption DEF Hash!SizeAssumption
<1>. QED
  BY <1>1, <1>2, FS_CardinalityType

LEMMA HashFinite ==
  ASSUME elems \subseteq HashCase.Key
  PROVE  /\ IsFiniteSet(elems) /\ Cardinality(elems) \in Nat
         /\ IsFiniteSet(Hash!InFlight) /\ Cardinality(Hash!InFlight) \in Nat
         /\ IsFiniteSet(Hash!Listed) /\ Cardinality(Hash!Listed) \in Nat
         /\ IsFiniteSet(Pending) /\ Cardinality(Pending) \in Nat
<1>1. IsFiniteSet(elems)
  BY HashConstants, FS_Subset
<1>2. IsFiniteSet(Hash!InFlight) /\ IsFiniteSet(Hash!Listed) /\ IsFiniteSet(Pending)
  BY HashConstants, FS_Subset DEF Hash!InFlight, Hash!Listed, Pending
<1>. QED
  BY <1>1, <1>2, FS_CardinalityType

LEMMA HashInvInit == Hash!Init => HashInv
<1>. SUFFICES ASSUME Hash!Init  PROVE  HashInv
  OBVIOUS
<1>1. replacing \in [HashCase.Cpu -> BOOLEAN]
  BY Zenon DEF Hash!Init
<1>2. Hash!TypeOK
  BY <1>1, HashConstants DEF Hash!Init, Hash!TypeOK, Hash!U32
<1>3. elems = {} /\ Hash!InFlight = {} /\ Hash!Listed = {} /\ Pending = {}
  BY DEF Hash!Init, Hash!InFlight, Hash!Listed, Pending
<1>4. /\ Cardinality(elems) = 0 /\ Cardinality(Hash!InFlight) = 0
      /\ Cardinality(Hash!Listed) = 0 /\ Cardinality(Pending) = 0
  BY <1>3, FS_EmptySet
<1>5. count = 0 /\ nrElems = 0 /\ hmap \in Hash!Maps
  BY DEF Hash!Init
<1>6. 0 % HashCase.Word = 0
  BY HashConstants, Fits
<1>7. BucketsHeld
  BY DEF Hash!Init, BucketsHeld
<1>8. RoomKept
  BY <1>4, HashConstants DEF RoomKept
<1>9. /\ count = Cardinality(elems) + Cardinality(Hash!InFlight)
      /\ nrElems = (Cardinality(elems) + Cardinality(Hash!Listed)) % HashCase.Word
  BY <1>4, <1>5, <1>6
<1>. QED
  BY <1>2, <1>5, <1>7, <1>8, <1>9 DEF HashInv

LEMMA HashTyped ==
  ASSUME HashInv
  PROVE  /\ elems \subseteq HashCase.Key /\ count \in Nat /\ nrElems \in 0 .. HashCase.Word - 1
         /\ hpc \in [HashCase.Cpu -> HashStep]
         /\ hkey \in [HashCase.Cpu -> HashCase.Key \cup {NoKey}]
         /\ replacing \in [HashCase.Cpu -> BOOLEAN]
  BY DEF HashInv, Hash!TypeOK, Hash!U32, HashStep

\* A CPU takes the bucket of a key nobody holds.
LEMMA BucketStep ==
  ASSUME HashInv, NEW c \in HashCase.Cpu, NEW k \in HashCase.Key,
         Hash!Update(c, k) \/ Hash!Delete(c, k)
  PROVE  HashInv'
<1>t. /\ hpc \in [HashCase.Cpu -> HashStep]
      /\ hkey \in [HashCase.Cpu -> HashCase.Key \cup {NoKey}]
      /\ replacing \in [HashCase.Cpu -> BOOLEAN]
  BY HashTyped
<1>f. /\ hpc[c] = "idle" /\ (\A d \in HashCase.Cpu : hkey[d] # k)
      /\ hkey' = [hkey EXCEPT ![c] = k]
      /\ hmap' = hmap /\ elems' = elems /\ count' = count /\ nrElems' = nrElems
  BY DEF Hash!Update, Hash!Delete, Hash!Bucket
<1>p. \/ /\ hpc' = [hpc EXCEPT ![c] = "alloc"]
         /\ \/ k \in elems /\ replacing' = [replacing EXCEPT ![c] = TRUE]
            \/ k \notin elems /\ replacing' = [replacing EXCEPT ![c] = FALSE]
      \/ /\ hpc' = [hpc EXCEPT ![c] = "remove"] /\ k \in elems
         /\ replacing' = [replacing EXCEPT ![c] = FALSE]
  <2>1. CASE Hash!Update(c, k)
    <3>1. /\ hpc' = [hpc EXCEPT ![c] = "alloc"]
          /\ replacing' = [replacing EXCEPT ![c] = "update" = "update" /\ k \in elems]
      BY <2>1 DEF Hash!Update, Hash!Bucket
    <3>2. CASE k \in elems
      <4>1. ("update" = "update" /\ k \in elems) = TRUE
        BY <3>2
      <4>. QED
        BY <3>1, <3>2, <4>1, Zenon
    <3>3. CASE k \notin elems
      <4>1. ("update" = "update" /\ k \in elems) = FALSE
        BY <3>3
      <4>. QED
        BY <3>1, <3>3, <4>1, Zenon
    <3>. QED
      BY <3>2, <3>3
  <2>2. CASE Hash!Delete(c, k)
    <3>1. /\ hpc' = [hpc EXCEPT ![c] = "remove"] /\ k \in elems
          /\ replacing' = [replacing EXCEPT ![c] = "delete" = "update" /\ k \in elems]
      BY <2>2 DEF Hash!Delete, Hash!Bucket
    <3>2. ("delete" = "update" /\ k \in elems) = FALSE
      OBVIOUS
    <3>. QED
      BY <3>1, <3>2, Zenon
  <2>. QED
    BY <2>1, <2>2
<1>1. Hash!TypeOK'
  BY <1>t, <1>f, <1>p DEF HashInv, Hash!TypeOK, Hash!U32, HashStep
<1>2. Hash!InFlight' = Hash!InFlight /\ Hash!Listed' = Hash!Listed
  BY <1>t, <1>f, <1>p DEF Hash!InFlight, Hash!Listed
<1>3. Pending' = Pending
  BY <1>t, <1>f, <1>p DEF Pending
<1>4. BucketsHeld'
  BY <1>t, <1>f, <1>p DEF HashInv, BucketsHeld
<1>5. hmap' \in Hash!Maps'
  BY <1>f DEF HashInv
<1>. QED
  BY <1>1, <1>2, <1>3, <1>4, <1>5, <1>f DEF HashInv, RoomKept

\* A CPU that is refused leaves its bucket as it found it.
LEMMA RefuseStep ==
  ASSUME HashInv, NEW c \in HashCase.Cpu, Hash!Refuse(c)
  PROVE  HashInv'
<1>t. /\ hpc \in [HashCase.Cpu -> HashStep]
      /\ hkey \in [HashCase.Cpu -> HashCase.Key \cup {NoKey}]
      /\ replacing \in [HashCase.Cpu -> BOOLEAN]
  BY HashTyped
<1>f. /\ hpc[c] = "alloc" /\ hpc' = [hpc EXCEPT ![c] = "idle"]
      /\ hkey' = [hkey EXCEPT ![c] = NoKey] /\ replacing' = [replacing EXCEPT ![c] = FALSE]
      /\ hmap' = hmap /\ elems' = elems /\ count' = count /\ nrElems' = nrElems
  BY DEF Hash!Refuse, Hash!Unlock
<1>1. Hash!TypeOK'
  BY <1>t, <1>f DEF HashInv, Hash!TypeOK, Hash!U32, HashStep
<1>2. Hash!InFlight' = Hash!InFlight /\ Hash!Listed' = Hash!Listed
  BY <1>t, <1>f DEF Hash!InFlight, Hash!Listed
<1>3. Pending' = Pending
  BY <1>t, <1>f DEF Pending
<1>4. BucketsHeld'
  BY <1>t, <1>f DEF HashInv, BucketsHeld
<1>5. hmap' \in Hash!Maps'
  BY <1>f DEF HashInv
<1>. QED
  BY <1>1, <1>2, <1>3, <1>4, <1>5, <1>f DEF HashInv, RoomKept

\* What is_map_full() answers, whichever counter the map has.
LEMMA FullMeans ==
  ASSUME HashInv
  PROVE  Hash!IsMapFull <=> count >= HashCase.MaxEntries
  BY HashTyped, HashConstants DEF Hash!IsMapFull

\* The CPUs that are admitted together are at most all of them, and the count was below the
\* limit when the last one asked.
LEMMA AdmitStep ==
  ASSUME HashInv, NEW c \in HashCase.Cpu, Hash!Admit(c)
  PROVE  HashInv'
<1>t. /\ elems \subseteq HashCase.Key /\ count \in Nat
      /\ hpc \in [HashCase.Cpu -> HashStep]
      /\ hkey \in [HashCase.Cpu -> HashCase.Key \cup {NoKey}]
      /\ replacing \in [HashCase.Cpu -> BOOLEAN]
  BY HashTyped
<1>f. /\ hpc[c] = "alloc" /\ hpc' = [hpc EXCEPT ![c] = "count"]
      /\ hkey' = hkey /\ replacing' = replacing
      /\ hmap' = hmap /\ elems' = elems /\ count' = count /\ nrElems' = nrElems
  BY DEF Hash!Admit, Hash!Goto
<1>1. Hash!TypeOK'
  BY <1>t, <1>f DEF HashInv, Hash!TypeOK, Hash!U32, HashStep
<1>2. Hash!InFlight' = Hash!InFlight /\ Hash!Listed' = Hash!Listed
  BY <1>t, <1>f DEF Hash!InFlight, Hash!Listed
<1>4. BucketsHeld'
  BY <1>t, <1>f DEF HashInv, BucketsHeld
<1>5. hmap' \in Hash!Maps'
  BY <1>f DEF HashInv
<1>6. RoomKept'
  <2>1. CASE replacing[c] = TRUE
    <3>1. Pending' = Pending
      BY <1>t, <1>f, <2>1 DEF Pending
    <3>. QED
      BY <3>1, <1>f DEF HashInv, RoomKept
  <2>2. CASE replacing[c] = FALSE
    <3>. DEFINE Counting == {d \in HashCase.Cpu : hpc'[d] \in {"count", "tally"}}
    <3>1. IsFiniteSet(Counting) /\ Cardinality(Counting) <= Cardinality(HashCase.Cpu)
      BY HashConstants, FS_Subset
    <3>2. Pending' \subseteq Hash!InFlight \cup Counting
      BY <1>t, <1>f DEF Pending, Hash!InFlight
    <3>. HIDE DEF Counting
    <3>3. /\ IsFiniteSet(elems) /\ Cardinality(elems) \in Nat
          /\ IsFiniteSet(Hash!InFlight) /\ Cardinality(Hash!InFlight) \in Nat
      BY <1>t, HashFinite
    <3>4. IsFiniteSet(Hash!InFlight \cap Counting)
      BY <3>1, <3>3, FS_Intersection
    <3>5. /\ Cardinality(Counting) \in Nat /\ Cardinality(Hash!InFlight \cap Counting) \in Nat
      BY <3>1, <3>4, FS_CardinalityType
    <3>6. /\ IsFiniteSet(Hash!InFlight \cup Counting)
          /\ Cardinality(Hash!InFlight \cup Counting)
               = Cardinality(Hash!InFlight) + Cardinality(Counting)
                   - Cardinality(Hash!InFlight \cap Counting)
      BY <3>1, <3>3, FS_Union
    <3>7. /\ IsFiniteSet(Pending')
          /\ Cardinality(Pending') <= Cardinality(Hash!InFlight \cup Counting)
      BY <3>2, <3>6, FS_Subset
    <3>8. Cardinality(Pending') \in Nat
      BY <3>7, FS_CardinalityType
    <3>9. count < HashCase.MaxEntries
      BY <2>2, <1>t, FullMeans, HashConstants DEF Hash!Admit
    <3>10. count = Cardinality(elems) + Cardinality(Hash!InFlight)
      BY DEF HashInv
    <3>11. /\ Cardinality(elems) + Cardinality(Hash!InFlight) <= HashCase.MaxEntries - 1
           /\ HashCase.MaxEntries \in Nat /\ Cardinality(HashCase.Cpu) \in Nat
      BY <3>9, <3>10, <1>t, HashConstants
    <3>12. Cardinality(elems) + Cardinality(Pending')
             <= HashCase.MaxEntries + Cardinality(HashCase.Cpu) - 1
      BY <3>1, <3>3, <3>5, <3>6, <3>7, <3>8, <3>11
    <3>. QED
      BY <3>12, <1>f DEF RoomKept
  <2>. QED
    BY <1>t, <2>1, <2>2
<1>. QED
  BY <1>1, <1>2, <1>4, <1>5, <1>6, <1>f DEF HashInv

\* map->elem_count follows the elements and the CPUs between it and them, up to the word.
LEMMA CountStep ==
  ASSUME HashInv, NEW c \in HashCase.Cpu, Hash!Count(c)
  PROVE  HashInv'
<1>t. /\ elems \subseteq HashCase.Key /\ count \in Nat
      /\ hpc \in [HashCase.Cpu -> HashStep]
      /\ hkey \in [HashCase.Cpu -> HashCase.Key \cup {NoKey}]
      /\ replacing \in [HashCase.Cpu -> BOOLEAN]
  BY HashTyped
<1>f. /\ hpc[c] = "count" /\ hpc' = [hpc EXCEPT ![c] = "tally"]
      /\ hkey' = hkey /\ replacing' = replacing
      /\ hmap' = hmap /\ elems' = elems /\ count' = count
      /\ nrElems' = (nrElems + 1) % HashCase.Word
  BY DEF Hash!Count, Hash!Goto, Hash!IncElemCount
<1>n. /\ IsFiniteSet(Hash!Listed) /\ Cardinality(Hash!Listed) \in Nat
      /\ Cardinality(elems) \in Nat
  BY <1>t, HashFinite
<1>1. Hash!Listed' = Hash!Listed \cup {c} /\ c \notin Hash!Listed
  BY <1>t, <1>f DEF Hash!Listed, HashStep
<1>2. Cardinality(Hash!Listed') = Cardinality(Hash!Listed) + 1
  BY <1>1, <1>n, FS_AddElement
<1>3. /\ nrElems' = (Cardinality(elems') + Cardinality(Hash!Listed')) % HashCase.Word
      /\ nrElems' \in 0 .. HashCase.Word - 1
  <2>. DEFINE x == Cardinality(elems) + Cardinality(Hash!Listed)
  <2>1. nrElems = x % HashCase.Word
    BY DEF HashInv
  <2>2. x \in Nat /\ x + 1 \in Nat
    BY <1>n
  <2>3. Cardinality(elems') + Cardinality(Hash!Listed') = x + 1
    BY <1>2, <1>n, <1>f
  <2>. HIDE DEF x
  <2>4. nrElems' = (x + 1) % HashCase.Word
    BY <2>1, <2>2, <1>f, HashConstants, CounterUp
  <2>5. (x + 1) % HashCase.Word \in 0 .. HashCase.Word - 1
    BY <2>2, HashConstants, DivModFacts
  <2>. QED
    BY <2>3, <2>4, <2>5
<1>4. Hash!TypeOK'
  BY <1>t, <1>f, <1>3 DEF HashInv, Hash!TypeOK, Hash!U32, HashStep
<1>5. Hash!InFlight' = Hash!InFlight
  BY <1>t, <1>f DEF Hash!InFlight, HashStep
<1>6. Pending' = Pending
  BY <1>t, <1>f DEF Pending
<1>7. BucketsHeld'
  BY <1>t, <1>f DEF HashInv, BucketsHeld
<1>8. hmap' \in Hash!Maps'
  BY <1>f DEF HashInv
<1>. QED
  BY <1>3, <1>4, <1>5, <1>6, <1>7, <1>8, <1>f DEF HashInv, RoomKept

LEMMA TallyStep ==
  ASSUME HashInv, NEW c \in HashCase.Cpu, Hash!Tally(c)
  PROVE  HashInv'
<1>t. /\ elems \subseteq HashCase.Key /\ count \in Nat
      /\ hpc \in [HashCase.Cpu -> HashStep]
      /\ hkey \in [HashCase.Cpu -> HashCase.Key \cup {NoKey}]
      /\ replacing \in [HashCase.Cpu -> BOOLEAN]
  BY HashTyped
<1>f. /\ hpc[c] = "tally" /\ hpc' = [hpc EXCEPT ![c] = "insert"]
      /\ hkey' = hkey /\ replacing' = replacing
      /\ hmap' = hmap /\ elems' = elems /\ count' = count + 1 /\ nrElems' = nrElems
  BY DEF Hash!Tally, Hash!Goto, Hash!IncCount
<1>1. Hash!TypeOK'
  BY <1>t, <1>f DEF HashInv, Hash!TypeOK, Hash!U32, HashStep
<1>2. count' = Cardinality(elems') + Cardinality(Hash!InFlight')
  <2>1. Hash!InFlight' = Hash!InFlight \cup {c} /\ c \notin Hash!InFlight
    BY <1>t, <1>f DEF Hash!InFlight, HashStep
  <2>2. /\ IsFiniteSet(Hash!InFlight) /\ Cardinality(Hash!InFlight) \in Nat
        /\ Cardinality(elems) \in Nat
    BY <1>t, HashFinite
  <2>3. Cardinality(Hash!InFlight') = Cardinality(Hash!InFlight) + 1
    BY <2>1, <2>2, FS_AddElement
  <2>4. count = Cardinality(elems) + Cardinality(Hash!InFlight)
    BY DEF HashInv
  <2>. QED
    BY <2>2, <2>3, <2>4, <1>f
<1>3. Hash!Listed' = Hash!Listed
  BY <1>t, <1>f DEF Hash!Listed, HashStep
<1>4. Pending' = Pending
  BY <1>t, <1>f DEF Pending
<1>5. BucketsHeld'
  BY <1>t, <1>f DEF HashInv, BucketsHeld
<1>6. hmap' \in Hash!Maps'
  BY <1>f DEF HashInv
<1>. QED
  BY <1>1, <1>2, <1>3, <1>4, <1>5, <1>6, <1>f DEF HashInv, RoomKept

\* A new element takes the place its CPU had among those in flight and those listed; one
\* that replaces another stays among them until the other is uncounted.
LEMMA InsertStep ==
  ASSUME HashInv, NEW c \in HashCase.Cpu, Hash!Insert(c)
  PROVE  HashInv'
<1>t. /\ elems \subseteq HashCase.Key /\ count \in Nat
      /\ hpc \in [HashCase.Cpu -> HashStep]
      /\ hkey \in [HashCase.Cpu -> HashCase.Key \cup {NoKey}]
      /\ replacing \in [HashCase.Cpu -> BOOLEAN]
  BY HashTyped
<1>f. /\ hpc[c] = "insert" /\ elems' = elems \cup {hkey[c]}
      /\ hmap' = hmap /\ count' = count /\ nrElems' = nrElems
  BY DEF Hash!Insert
<1>k. hkey[c] \in HashCase.Key /\ (replacing[c] = TRUE <=> hkey[c] \in elems)
  BY <1>f DEF HashInv, BucketsHeld
<1>n. /\ IsFiniteSet(elems) /\ Cardinality(elems) \in Nat
      /\ IsFiniteSet(Hash!InFlight) /\ Cardinality(Hash!InFlight) \in Nat
      /\ IsFiniteSet(Hash!Listed) /\ Cardinality(Hash!Listed) \in Nat
      /\ IsFiniteSet(Pending) /\ Cardinality(Pending) \in Nat
  BY <1>t, HashFinite
<1>m. hmap' \in Hash!Maps'
  BY <1>f DEF HashInv
<1>c. /\ count = Cardinality(elems) + Cardinality(Hash!InFlight)
      /\ nrElems = (Cardinality(elems) + Cardinality(Hash!Listed)) % HashCase.Word
  BY DEF HashInv
<1>1. CASE replacing[c] = TRUE
  <2>f. hpc' = [hpc EXCEPT ![c] = "uncount"] /\ hkey' = hkey /\ replacing' = replacing
    BY <1>1 DEF Hash!Insert, Hash!Goto
  <2>e. elems' = elems
    BY <1>1, <1>f, <1>k
  <2>1. Hash!TypeOK'
    BY <1>t, <1>f, <2>f, <2>e DEF HashInv, Hash!TypeOK, Hash!U32, HashStep
  <2>2. Hash!InFlight' = Hash!InFlight /\ Hash!Listed' = Hash!Listed
    BY <1>t, <1>f, <2>f DEF Hash!InFlight, Hash!Listed
  <2>3. Pending' = Pending
    BY <1>t, <1>f, <1>1, <2>f DEF Pending
  <2>4. BucketsHeld'
    BY <1>t, <1>f, <2>f, <2>e DEF HashInv, BucketsHeld
  <2>. QED
    BY <2>1, <2>2, <2>3, <2>4, <2>e, <1>f, <1>m DEF HashInv, RoomKept
<1>2. CASE replacing[c] = FALSE
  <2>f. /\ hpc' = [hpc EXCEPT ![c] = "idle"] /\ hkey' = [hkey EXCEPT ![c] = NoKey]
        /\ replacing' = [replacing EXCEPT ![c] = FALSE]
    BY <1>2 DEF Hash!Insert, Hash!Unlock
  <2>e. hkey[c] \notin elems
    BY <1>2, <1>k
  <2>1. Hash!TypeOK'
    BY <1>t, <1>f, <1>k, <2>f DEF HashInv, Hash!TypeOK, Hash!U32, HashStep
  <2>2. Hash!InFlight' = Hash!InFlight \ {c} /\ c \in Hash!InFlight
    BY <1>t, <1>f, <2>f DEF Hash!InFlight
  <2>l. Hash!Listed' = Hash!Listed \ {c} /\ c \in Hash!Listed
    BY <1>t, <1>f, <2>f DEF Hash!Listed
  <2>3. Pending' = Pending \ {c} /\ c \in Pending
    BY <1>t, <1>f, <1>2, <2>f DEF Pending
  <2>4. BucketsHeld'
    BY <1>t, <1>f, <1>k, <2>f DEF HashInv, BucketsHeld
  <2>5. Cardinality(elems') = Cardinality(elems) + 1
    BY <2>e, <1>f, <1>n, FS_AddElement
  <2>6. Cardinality(Hash!InFlight') = Cardinality(Hash!InFlight) - 1
    BY <2>2, <1>n, FS_RemoveElement
  <2>7. Cardinality(Pending') = Cardinality(Pending) - 1
    BY <2>3, <1>n, FS_RemoveElement
  <2>8. count' = Cardinality(elems') + Cardinality(Hash!InFlight')
    BY <2>5, <2>6, <1>n, <1>c, <1>f
  <2>10. Cardinality(Hash!Listed') = Cardinality(Hash!Listed) - 1
    BY <2>l, <1>n, FS_RemoveElement
  <2>11. Cardinality(elems') + Cardinality(Hash!Listed')
           = Cardinality(elems) + Cardinality(Hash!Listed)
    BY <2>5, <2>10, <1>n
  <2>12. nrElems' = (Cardinality(elems') + Cardinality(Hash!Listed')) % HashCase.Word
    BY <2>11, <1>c, <1>f
  <2>9. Cardinality(elems') + Cardinality(Pending') = Cardinality(elems) + Cardinality(Pending)
    BY <2>5, <2>7, <1>n
  <2>. QED
    BY <2>1, <2>4, <2>8, <2>9, <2>12, <1>f, <1>m DEF HashInv, RoomKept
<1>. QED
  BY <1>t, <1>1, <1>2

LEMMA RemoveStep ==
  ASSUME HashInv, NEW c \in HashCase.Cpu, Hash!Remove(c)
  PROVE  HashInv'
<1>t. /\ elems \subseteq HashCase.Key /\ count \in Nat
      /\ hpc \in [HashCase.Cpu -> HashStep]
      /\ hkey \in [HashCase.Cpu -> HashCase.Key \cup {NoKey}]
      /\ replacing \in [HashCase.Cpu -> BOOLEAN]
  BY HashTyped
<1>f. /\ hpc[c] = "remove" /\ elems' = elems \ {hkey[c]}
      /\ hpc' = [hpc EXCEPT ![c] = "uncount"] /\ hkey' = hkey /\ replacing' = replacing
      /\ hmap' = hmap /\ count' = count /\ nrElems' = nrElems
  BY DEF Hash!Remove, Hash!Goto
<1>k. hkey[c] \in elems
  BY <1>f DEF HashInv, BucketsHeld
<1>n. /\ IsFiniteSet(elems) /\ Cardinality(elems) \in Nat
      /\ IsFiniteSet(Hash!InFlight) /\ Cardinality(Hash!InFlight) \in Nat
      /\ IsFiniteSet(Hash!Listed) /\ Cardinality(Hash!Listed) \in Nat
      /\ IsFiniteSet(Pending) /\ Cardinality(Pending) \in Nat
  BY <1>t, HashFinite
<1>m. hmap' \in Hash!Maps'
  BY <1>f DEF HashInv
<1>1. Hash!TypeOK'
  BY <1>t, <1>f DEF HashInv, Hash!TypeOK, Hash!U32, HashStep
<1>2. Hash!InFlight' = Hash!InFlight \cup {c} /\ c \notin Hash!InFlight
  BY <1>t, <1>f DEF Hash!InFlight
<1>l. Hash!Listed' = Hash!Listed \cup {c} /\ c \notin Hash!Listed
  BY <1>t, <1>f DEF Hash!Listed
<1>3. Pending' = Pending
  BY <1>t, <1>f DEF Pending
<1>4. BucketsHeld'
  BY <1>t, <1>f, <1>k DEF HashInv, BucketsHeld
<1>5. Cardinality(elems') = Cardinality(elems) - 1
  BY <1>k, <1>f, <1>n, FS_RemoveElement
<1>6. Cardinality(Hash!InFlight') = Cardinality(Hash!InFlight) + 1
  BY <1>2, <1>n, FS_AddElement
<1>10. Cardinality(Hash!Listed') = Cardinality(Hash!Listed) + 1
  BY <1>l, <1>n, FS_AddElement
<1>7. /\ count = Cardinality(elems) + Cardinality(Hash!InFlight)
      /\ nrElems = (Cardinality(elems) + Cardinality(Hash!Listed)) % HashCase.Word
  BY DEF HashInv
<1>11. Cardinality(elems') + Cardinality(Hash!Listed') = Cardinality(elems) + Cardinality(Hash!Listed)
  BY <1>5, <1>10, <1>n
<1>12. nrElems' = (Cardinality(elems') + Cardinality(Hash!Listed')) % HashCase.Word
  BY <1>7, <1>11, <1>f
<1>8. count' = Cardinality(elems') + Cardinality(Hash!InFlight')
  BY <1>5, <1>6, <1>7, <1>n, <1>f
<1>9. RoomKept'
  BY <1>3, <1>5, <1>n, HashConstants DEF HashInv, RoomKept
<1>. QED
  BY <1>1, <1>4, <1>8, <1>9, <1>12, <1>f, <1>m DEF HashInv

LEMMA UncountStep ==
  ASSUME HashInv, NEW c \in HashCase.Cpu, Hash!Uncount(c)
  PROVE  HashInv'
<1>t. /\ elems \subseteq HashCase.Key /\ count \in Nat
      /\ hpc \in [HashCase.Cpu -> HashStep]
      /\ hkey \in [HashCase.Cpu -> HashCase.Key \cup {NoKey}]
      /\ replacing \in [HashCase.Cpu -> BOOLEAN]
  BY HashTyped
<1>f. /\ hpc[c] = "uncount" /\ hpc' = [hpc EXCEPT ![c] = "untally"]
      /\ hkey' = hkey /\ replacing' = replacing
      /\ hmap' = hmap /\ elems' = elems /\ count' = count
      /\ nrElems' = (nrElems + HashCase.Word - 1) % HashCase.Word
  BY DEF Hash!Uncount, Hash!Goto, Hash!DecElemCount
<1>n. /\ IsFiniteSet(Hash!Listed) /\ Cardinality(Hash!Listed) \in Nat
      /\ Cardinality(elems) \in Nat
  BY <1>t, HashFinite
<1>1. Hash!Listed' = Hash!Listed \ {c} /\ c \in Hash!Listed
  BY <1>t, <1>f DEF Hash!Listed, HashStep
<1>2. /\ Cardinality(Hash!Listed') = Cardinality(Hash!Listed) - 1
      /\ Cardinality(Hash!Listed) # 0
  BY <1>1, <1>n, FS_RemoveElement, FS_EmptySet
<1>3. /\ nrElems' = (Cardinality(elems') + Cardinality(Hash!Listed')) % HashCase.Word
      /\ nrElems' \in 0 .. HashCase.Word - 1
  <2>. DEFINE x == Cardinality(elems) + Cardinality(Hash!Listed)
  <2>1. nrElems = x % HashCase.Word
    BY DEF HashInv
  <2>2. x \in Nat /\ x >= 1 /\ x - 1 \in Nat
    BY <1>2, <1>n
  <2>3. Cardinality(elems') + Cardinality(Hash!Listed') = x - 1
    BY <1>2, <1>n, <1>f
  <2>. HIDE DEF x
  <2>4. nrElems' = (x - 1) % HashCase.Word
    BY <2>1, <2>2, <1>f, HashConstants, CounterDown
  <2>5. (x - 1) % HashCase.Word \in 0 .. HashCase.Word - 1
    BY <2>2, HashConstants, DivModFacts
  <2>. QED
    BY <2>3, <2>4, <2>5
<1>4. Hash!TypeOK'
  BY <1>t, <1>f, <1>3 DEF HashInv, Hash!TypeOK, Hash!U32, HashStep
<1>5. Hash!InFlight' = Hash!InFlight
  BY <1>t, <1>f DEF Hash!InFlight, HashStep
<1>6. Pending' = Pending
  BY <1>t, <1>f DEF Pending
<1>7. BucketsHeld'
  BY <1>t, <1>f DEF HashInv, BucketsHeld
<1>8. hmap' \in Hash!Maps'
  BY <1>f DEF HashInv
<1>. QED
  BY <1>3, <1>4, <1>5, <1>6, <1>7, <1>8, <1>f DEF HashInv, RoomKept

LEMMA UntallyStep ==
  ASSUME HashInv, NEW c \in HashCase.Cpu, Hash!Untally(c)
  PROVE  HashInv'
<1>t. /\ elems \subseteq HashCase.Key /\ count \in Nat
      /\ hpc \in [HashCase.Cpu -> HashStep]
      /\ hkey \in [HashCase.Cpu -> HashCase.Key \cup {NoKey}]
      /\ replacing \in [HashCase.Cpu -> BOOLEAN]
  BY HashTyped
<1>f. /\ hpc[c] = "untally" /\ hpc' = [hpc EXCEPT ![c] = "idle"]
      /\ hkey' = [hkey EXCEPT ![c] = NoKey] /\ replacing' = [replacing EXCEPT ![c] = FALSE]
      /\ hmap' = hmap /\ elems' = elems /\ count' = count - 1 /\ nrElems' = nrElems
  BY DEF Hash!Untally, Hash!Unlock, Hash!DecCount
<1>n. /\ IsFiniteSet(Hash!InFlight) /\ Cardinality(Hash!InFlight) \in Nat
      /\ Cardinality(elems) \in Nat
  BY <1>t, HashFinite
<1>1. Hash!InFlight' = Hash!InFlight \ {c} /\ c \in Hash!InFlight
  BY <1>t, <1>f DEF Hash!InFlight, HashStep
<1>2. /\ Cardinality(Hash!InFlight') = Cardinality(Hash!InFlight) - 1
      /\ Cardinality(Hash!InFlight) # 0
  BY <1>1, <1>n, FS_RemoveElement, FS_EmptySet
<1>3. count = Cardinality(elems) + Cardinality(Hash!InFlight)
  BY DEF HashInv
<1>4. count - 1 \in Nat /\ count' = Cardinality(elems') + Cardinality(Hash!InFlight')
  BY <1>2, <1>3, <1>n, <1>f
<1>5. Hash!Listed' = Hash!Listed
  BY <1>t, <1>f DEF Hash!Listed, HashStep
<1>6. Hash!TypeOK'
  BY <1>t, <1>f, <1>4 DEF HashInv, Hash!TypeOK, Hash!U32, HashStep
<1>7. Pending' = Pending
  BY <1>t, <1>f DEF Pending
<1>8. BucketsHeld'
  BY <1>t, <1>f DEF HashInv, BucketsHeld
<1>9. hmap' \in Hash!Maps'
  BY <1>f DEF HashInv
<1>. QED
  BY <1>4, <1>5, <1>6, <1>7, <1>8, <1>9, <1>f DEF HashInv, RoomKept

LEMMA HashInvStep == HashInv /\ Hash!Next => HashInv'
  BY BucketStep, RefuseStep, AdmitStep, CountStep, TallyStep, InsertStep, RemoveStep,
     UncountStep, UntallyStep
     DEF Hash!Next

LEMMA HashInvKept == HashInv /\ UNCHANGED hashVars => HashInv'
<1>. SUFFICES ASSUME HashInv, UNCHANGED hashVars  PROVE  HashInv'
  OBVIOUS
<1>1. /\ hmap' = hmap /\ elems' = elems /\ count' = count /\ nrElems' = nrElems /\ hpc' = hpc
      /\ hkey' = hkey /\ replacing' = replacing
  BY DEF hashVars
<1>2. Hash!InFlight' = Hash!InFlight /\ Hash!Listed' = Hash!Listed /\ Pending' = Pending
  BY <1>1 DEF Hash!InFlight, Hash!Listed, Pending
<1>3. Hash!TypeOK' /\ BucketsHeld' /\ hmap' \in Hash!Maps'
  BY <1>1 DEF HashInv, Hash!TypeOK, Hash!U32, BucketsHeld
<1>. QED
  BY <1>1, <1>2, <1>3 DEF HashInv, RoomKept

LEMMA HashInvPartsInit == PartsInit => HashInv
  BY HashInvInit DEF PartsInit

LEMMA HashInvPartsNext == HashInv /\ [PartsNext]_allVars => HashInv'
<1>1. PartsNext => Hash!Next \/ UNCHANGED hashVars
  BY DEF PartsNext
<1>2. UNCHANGED allVars => UNCHANGED hashVars
  BY DEF allVars
<1>. QED
  BY <1>1, <1>2, HashInvStep, HashInvKept

\* hashtab.c, for every number of CPUs, keys and entries: an update is refused only when the
\* elements and the updates under way use all entries.
THEOREM RefusalsAreJust == PartsSpec => RefusedOnlyWhenFull
<1>. DEFINE Just == \A c \in HashCase.Cpu :
       Hash!Refuse(c) =>
         Hash!Cardinality(elems) + Hash!Cardinality(Hash!InFlight) >= HashCase.MaxEntries
<1>1. HashInv => [Just]_(Hash!vars)
  <2>. SUFFICES ASSUME HashInv, NEW c \in HashCase.Cpu, Hash!Refuse(c)
                PROVE  Hash!Cardinality(elems) + Hash!Cardinality(Hash!InFlight)
                         >= HashCase.MaxEntries
    OBVIOUS
  <2>1. count >= HashCase.MaxEntries
    BY FullMeans DEF Hash!Refuse
  <2>. QED
    BY <2>1, SameCounts DEF HashInv
<1>. HIDE DEF Just
<1>2. PartsSpec => [][Just]_(Hash!vars)
  BY <1>1, HashInvPartsInit, HashInvPartsNext, PTL DEF PartsSpec
<1>. QED
  BY <1>2 DEF RefusedOnlyWhenFull, Hash!RefusedOnlyWhenFull, Just
-----------------------------------------------------------------------------
(* hashtab.c: the memory accounted for *)

LEMMA HashSizes ==
  /\ HashCase.Align \in Nat \ {0} /\ HashCase.PcpuMin \in Nat /\ HashCase.KmallocMax \in Nat
  /\ HashCase.ElemHeader \in Nat /\ HashCase.NrCpus \in Nat \ {0}
  /\ HashCase.NrCpus * HashCase.PcpuMin < HashCase.Word
  /\ HashCase.KmallocMax + HashCase.Align <= HashCase.Word
  BY PartsAssumption DEF Hash!SizeAssumption

\* round_up() gives a natural number, wrapped or not.
LEMMA RoundUpTyped ==
  ASSUME NEW x \in Nat
  PROVE  Hash!RoundUp(x) \in Nat
<1>. DEFINE y == x + HashCase.Align - 1
            z == y % HashCase.Word
<1>1. y \in Nat
  BY HashSizes
<1>. HIDE DEF y
<1>2. z \in Nat
  BY <1>1, HashConstants, DivModFacts
<1>. HIDE DEF z
<1>3. z \div HashCase.Align \in Nat
  BY <1>2, HashSizes, DivModFacts
<1>4. (z \div HashCase.Align) * HashCase.Align \in Nat
  BY <1>3, HashSizes
<1>. QED
  BY <1>4 DEF Hash!RoundUp, y, z

\* What the creation check leaves of value sizes: the slot holds the value, and the copies of
\* all CPUs fit a word.
LEMMA AcceptedSizes ==
  ASSUME hmap \in Hash!Maps
  PROVE  /\ hmap.value_size \in Nat
         /\ Hash!RoundUp(hmap.value_size) \in Nat
         /\ hmap.value_size <= Hash!RoundUp(hmap.value_size)
         /\ hmap.type = "PERCPU_HASH" => Hash!RoundUp(hmap.value_size) <= HashCase.PcpuMin
<1>1. PICK a \in Hash!Attr, b \in BOOLEAN :
        hmap = [type |-> a.type, value_size |-> a.value_size, percpuCounter |-> b]
  BY DEF Hash!Maps
<1>2. hmap.type = a.type /\ hmap.value_size = a.value_size
  BY <1>1
<1>3. a \in [type : {"HASH", "PERCPU_HASH"}, key_size : {4}, value_size : HashCase.ValueSizes,
             max_entries : {HashCase.MaxEntries}, flags : {{"NO_PREALLOC"}}]
      /\ Hash!HtabAllocCheck(a)
  BY <1>1 DEF Hash!Attr
<1>4. a.value_size \in Nat /\ a.key_size = 4
  BY <1>3, HashConstants
<1>5. /\ a.key_size + a.value_size < HashCase.KmallocMax - HashCase.ElemHeader
      /\ a.type = "PERCPU_HASH" => Hash!RoundUp(a.value_size) <= HashCase.PcpuMin
  BY <1>3 DEF Hash!HtabAllocCheck
<1>6. a.value_size + HashCase.Align - 1 < HashCase.Word
  BY <1>4, <1>5, HashSizes, HashConstants
<1>7. Hash!RoundUp(a.value_size) \in Nat /\ a.value_size <= Hash!RoundUp(a.value_size)
  BY <1>4, <1>6, HashSizes, HashConstants, RoundUpFits DEF Hash!RoundUp
<1>. QED
  BY <1>2, <1>4, <1>5, <1>7

LEMMA UsageFollows == HashInv => Hash!UsageCovers
<1>. SUFFICES ASSUME HashInv  PROVE  Hash!UsageCovers
  OBVIOUS
<1>. DEFINE H == Hash!HtabElemSize
            E == Cardinality(elems)
            NS == HashCase.NodeSize
            RU == Hash!RoundUp(hmap.value_size)
            N == HashCase.NrCpus
            P == RU * N
            V == N * hmap.value_size
<1>a. /\ hmap.value_size \in Nat /\ RU \in Nat /\ hmap.value_size <= RU
      /\ hmap.type = "PERCPU_HASH" => RU <= HashCase.PcpuMin
  BY AcceptedSizes DEF HashInv
<1>b. elems \subseteq HashCase.Key /\ count \in Nat
  BY HashTyped
<1>c. E \in Nat /\ E <= count
  <2>1. Cardinality(elems) \in Nat /\ Cardinality(Hash!InFlight) \in Nat
    BY <1>b, HashFinite
  <2>. QED
    BY <2>1 DEF HashInv
<1>d. Hash!Cardinality(elems) = E
  BY SameCounts
<1>e. NS \in Nat /\ N \in Nat \ {0} /\ HashCase.ElemHeader \in Nat
  BY HashConstants, HashSizes
<1>f. H \in Nat
  <2>1. 4 \in Nat
    OBVIOUS
  <2>2. Hash!RoundUp(4) \in Nat
    BY <2>1, RoundUpTyped
  <2>. QED
    BY <2>2, <1>a, <1>e DEF Hash!HtabElemSize
<1>. HIDE DEF H, E, NS, RU, N
<1>1. CASE hmap.type # "PERCPU_HASH"
  <2>1. Hash!MemUsage(count) = (H + NS) * count + 0
    BY <1>1 DEF Hash!MemUsage, H, NS
  <2>2. H + 0 \in Nat /\ H + NS \in Nat /\ H + 0 <= H + NS
    BY <1>e, <1>f
  <2>3. (H + 0) * E <= (H + NS) * count
    BY <2>2, <1>b, <1>c, ProductsOrdered
  <2>4. E * (H + 0) = (H + 0) * E /\ (H + NS) * count + 0 = (H + NS) * count
    BY <2>2, <1>b, <1>c
  <2>5. Hash!MemUsage(count) >= E * (H + 0)
    BY <2>1, <2>2, <2>3, <2>4, <1>b, <1>c
  <2>. QED
    BY <2>5, <1>1, <1>d DEF Hash!UsageCovers, H
<1>2. CASE hmap.type = "PERCPU_HASH"
  <2>1. P \in Nat /\ V \in Nat /\ V <= P
    <3>1. hmap.value_size * N <= RU * N
      BY <1>a, <1>e
    <3>. QED
      BY <3>1, <1>a, <1>e
  <2>2. P < HashCase.Word
    <3>1. RU * N <= HashCase.PcpuMin * N
      BY <1>2, <1>a, <1>e, HashSizes
    <3>2. HashCase.PcpuMin * N < HashCase.Word
      BY <1>e, HashSizes DEF N
    <3>. QED
      BY <3>1, <3>2, <1>a, <1>e, HashSizes, HashConstants
  <2>3. P % HashCase.Word = P
    <3>. HIDE DEF P
    <3>. QED
      BY <2>1, <2>2, HashConstants, Fits
  <2>4. Hash!MemUsage(count) = (H + NS) * count + (2 * NS * count + P * count)
    <3>1. Hash!MemUsage(count)
            = (H + NS) * count + (2 * NS * count + (P % HashCase.Word) * count)
      BY <1>2 DEF Hash!MemUsage, H, NS, P, RU, N
    <3>. QED
      BY <3>1, <2>3
  <2>. HIDE DEF P, V
  <2>5. (H + V) * E <= (H + P) * count
    <3>1. H + V \in Nat /\ H + P \in Nat /\ H + V <= H + P
      BY <2>1, <1>f
    <3>. QED
      BY <3>1, <1>b, <1>c, ProductsOrdered
  <2>6. (H + P) * count <= (H + NS) * count + (2 * NS * count + P * count)
    <3>1. (H + P) * count = H * count + P * count /\ (H + NS) * count = H * count + NS * count
      BY <2>1, <1>b, <1>e, <1>f
    <3>2. /\ H * count \in Nat /\ P * count \in Nat /\ NS * count \in Nat
          /\ 2 * NS * count \in Nat
      BY <2>1, <1>b, <1>e, <1>f
    <3>. QED
      BY <3>1, <3>2
  <2>7. Hash!MemUsage(count) >= E * (H + V)
    <3>1. /\ (H + V) * E \in Nat /\ (H + P) * count \in Nat
          /\ (H + NS) * count + (2 * NS * count + P * count) \in Nat
          /\ E * (H + V) = (H + V) * E
      BY <2>1, <1>b, <1>c, <1>e, <1>f
    <3>. QED
      BY <3>1, <2>4, <2>5, <2>6
  <2>. QED
    BY <2>7, <1>2, <1>d DEF Hash!UsageCovers, H, V, N
<1>. QED
  BY <1>1, <1>2

LEMMA HashAccounting ==
  HashInv => Hash!TypeOK /\ Hash!CountExact /\ Hash!OvershootBounded /\ Hash!UsageCovers
<1>. SUFFICES ASSUME HashInv
              PROVE  Hash!TypeOK /\ Hash!CountExact /\ Hash!OvershootBounded
  BY UsageFollows
<1>1. Cardinality(elems) \in Nat /\ Cardinality(Pending) \in Nat
  BY HashTyped, HashFinite
<1>2. Hash!OvershootBounded
  BY <1>1, SameCounts, HashConstants DEF HashInv, RoomKept, Hash!OvershootBounded
<1>. QED
  BY <1>2, SameCounts DEF HashInv, Hash!CountExact

\* The counters of every part, for every number of elements, CPUs, keys, maps and links: the
\* storage's charge, the hash map's element counts, their limit and the memory they stand for,
\* and the references of struct_ops maps.
THEOREM AccountsAreExact == PartsSpec => []AccountingExact
<1>1. PartsInit => ChargeInv
  BY ChargeInvInit DEF PartsInit
<1>2. ChargeInv /\ [PartsNext]_allVars => ChargeInv'
  <2>1. PartsNext => Next \/ UNCHANGED vars
    BY DEF PartsNext
  <2>2. UNCHANGED allVars => UNCHANGED vars
    BY DEF allVars
  <2>. QED
    BY <2>1, <2>2, ChargeInvStep
<1>3. OpsInv => Ops!TypeOK /\ Ops!RefsExact
  BY SameCounts DEF OpsInv, Ops!RefsExact, Refs
<1>4. ChargeInv /\ HashInv /\ OpsInv => AccountingExact
  BY <1>3, ChargeInvMeans, HashAccounting DEF AccountingExact
<1>. QED
  BY <1>1, <1>2, <1>4, OpsInvPartsInit, OpsInvPartsNext, HashInvPartsInit, HashInvPartsNext, PTL
     DEF PartsSpec
-----------------------------------------------------------------------------
(* arraymap.c: walks, addresses and exchanges *)

LEMMA ArrayConstants ==
  /\ ArrayCase.Word \in Nat \ {0} /\ ArrayCase.Align \in Nat \ {0}
  /\ 2 * ArrayCase.Align <= ArrayCase.Word
  /\ ArrayCase.ValueSizes \subseteq 0 .. ArrayCase.Word - 1
  /\ ArrayCase.Entries \subseteq 0 .. ArrayCase.Word - 1
  /\ ArrayCase.Pow2 \subseteq Nat /\ ArrayCase.Word \in ArrayCase.Pow2
  /\ NoKey \notin Nat /\ NoEnt \notin Nat
  BY PartsAssumption DEF Array!SizeAssumption, Array!ArrayAssumption, Array!U32

\* What array_map_alloc_check() leaves: the rounded size holds the value.
LEMMA ArrayAccepted ==
  ASSUME NEW a \in Array!Attr
  PROVE  /\ a.value_size \in Nat /\ a.max_entries \in 1 .. ArrayCase.Word - 1
         /\ Array!RoundUp(a.value_size) \in Nat /\ a.value_size <= Array!RoundUp(a.value_size)
         /\ a.value_size >= 1
<1>1. /\ a.value_size \in ArrayCase.ValueSizes /\ a.max_entries \in ArrayCase.Entries
      /\ Array!ArrayAllocCheck(a)
  BY DEF Array!Attr
<1>2. a.max_entries # 0 /\ a.value_size # 0 /\ a.value_size <= Array!IntMax
  BY <1>1 DEF Array!ArrayAllocCheck
<1>3. a.value_size \in Nat /\ a.max_entries \in 1 .. ArrayCase.Word - 1 /\ a.value_size >= 1
  BY <1>1, <1>2, ArrayConstants
<1>4. a.value_size + ArrayCase.Align - 1 < ArrayCase.Word
  BY <1>2, <1>3, ArrayConstants DEF Array!IntMax
<1>5. Array!RoundUp(a.value_size) \in Nat /\ a.value_size <= Array!RoundUp(a.value_size)
  BY <1>3, <1>4, ArrayConstants, RoundUpFits DEF Array!RoundUp
<1>. QED
  BY <1>3, <1>5

\* The mask keeps every index below max_entries.
LEMMA MaskKeeps ==
  ASSUME NEW n \in 1 .. ArrayCase.Word - 1, NEW i \in 0 .. n - 1
  PROVE  i % Array!MaskSize(n) = i
<1>. DEFINE T == {p \in ArrayCase.Pow2 : p >= n}
            P(p) == p >= n /\ \A q \in ArrayCase.Pow2 : q >= n => p <= q
            M == CHOOSE p \in ArrayCase.Pow2 : P(p)
<1>1. T \subseteq Nat /\ T # {}
  BY ArrayConstants
<1>2. PICK x \in T : \A y \in T : x <= y
  <2>. HIDE DEF T
  <2>. QED
    BY <1>1, LeastNatural
<1>3. x \in ArrayCase.Pow2 /\ P(x)
  BY <1>2
<1>. HIDE DEF P
<1>4. M \in ArrayCase.Pow2 /\ P(M)
  BY <1>3, Zenon
<1>5. Array!MaskSize(n) = M
  BY DEF Array!MaskSize, P
<1>. HIDE DEF M
<1>6. M \in Nat \ {0} /\ i \in Nat /\ i < M
  BY <1>4, ArrayConstants DEF P
<1>. QED
  BY <1>5, <1>6, Fits

\* An array, as the code's fields are set for an accepted request.
ArrayOK(a) ==
  /\ a.value_size \in Nat /\ a.value_size >= 1
  /\ a.max_entries \in 1 .. ArrayCase.Word - 1
  /\ a.elem_size \in Nat /\ a.value_size <= a.elem_size
  /\ a.elem_size = Array!RoundUp(a.value_size)

LEMMA ArrayMade ==
  ASSUME NEW a \in Array!Attr
  PROVE  ArrayOK(Array!Array(a))
  BY ArrayAccepted DEF ArrayOK, Array!Array

\* Below max_entries an element is where its index says.
LEMMA LookupPlace ==
  ASSUME NEW a, ArrayOK(a), NEW i \in 0 .. a.max_entries - 1
  PROVE  Array!Lookup(a, i) = a.elem_size * i
<1>1. ~ (i >= a.max_entries)
  BY DEF ArrayOK
<1>2. i % Array!MaskSize(a.max_entries) = i
  BY MaskKeeps DEF ArrayOK
<1>. QED
  BY <1>1, <1>2 DEF Array!Lookup

\* The walk is at the key it returned last; a patched offset is inside the one element; the
\* array behind an inner map was accepted as equal to the one in front.
ArrayInv ==
  /\ ArrayOK(amap) /\ ArrayOK(inner)
  /\ Array!MetaEqual(amap, inner)
  /\ visited \in Seq(Nat) /\ Len(visited) <= amap.max_entries
  /\ \A n \in 1 .. Len(visited) : visited[n] = n - 1
  /\ key = IF Len(visited) = 0 THEN NoKey ELSE Len(visited) - 1
  /\ direct # NoEnt => amap.max_entries = 1 /\ direct \in Nat /\ direct < amap.value_size

LEMMA ArrayInvInit == Array!Init => ArrayInv
<1>. SUFFICES ASSUME Array!Init  PROVE  ArrayInv
  OBVIOUS
<1>1. PICK a \in Array!Attr : amap = Array!Array(a)
  BY DEF Array!Init
<1>2. ArrayOK(amap) /\ inner = amap /\ key = NoKey /\ visited = << >> /\ direct = NoEnt
  BY <1>1, ArrayMade DEF Array!Init
<1>3. Array!MetaEqual(amap, inner)
  BY <1>2 DEF Array!MetaEqual
<1>4. visited \in Seq(Nat) /\ Len(visited) = 0
  BY <1>2
<1>. QED
  BY <1>2, <1>3, <1>4 DEF ArrayInv, ArrayOK

\* Where the next call of bpf_array_get_next_key() leads.
LEMMA NextKeyFrom ==
  ASSUME ArrayInv
  PROVE  Array!GetNextKey(amap, key) =
           IF Len(visited) = amap.max_entries THEN NoEnt ELSE Len(visited)
<1>1. /\ Len(visited) \in Nat /\ Len(visited) <= amap.max_entries
      /\ amap.max_entries \in 1 .. ArrayCase.Word - 1
  BY DEF ArrayInv, ArrayOK
<1>2. CASE Len(visited) = 0
  <2>1. key = NoKey
    BY <1>2 DEF ArrayInv
  <2>2. ArrayCase.Word - 1 >= amap.max_entries
    BY <1>1, ArrayConstants
  <2>. QED
    BY <1>1, <1>2, <2>1, <2>2 DEF Array!GetNextKey
<1>3. CASE Len(visited) # 0
  <2>1. key = Len(visited) - 1 /\ key \in Nat
    BY <1>1, <1>3 DEF ArrayInv
  <2>2. key # NoKey
    BY <2>1, ArrayConstants
  <2>3. ~ (key >= amap.max_entries)
    BY <1>1, <2>1
  <2>4. Array!GetNextKey(amap, key)
          = IF key = amap.max_entries - 1 THEN NoEnt ELSE (key + 1) % ArrayCase.Word
    BY <2>2, <2>3 DEF Array!GetNextKey
  <2>5. CASE Len(visited) = amap.max_entries
    BY <2>1, <2>4, <2>5, <1>1
  <2>6. CASE Len(visited) # amap.max_entries
    <3>1. key + 1 = Len(visited) /\ key # amap.max_entries - 1 /\ key + 1 < ArrayCase.Word
      BY <1>1, <2>1, <2>6, ArrayConstants
    <3>2. (key + 1) % ArrayCase.Word = key + 1
      BY <3>1, <2>1, ArrayConstants, Fits
    <3>. QED
      BY <3>1, <3>2, <2>4, <2>6
  <2>. QED
    BY <2>5, <2>6
<1>. QED
  BY <1>2, <1>3

LEMMA ArrayInvStep == ArrayInv /\ Array!Next => ArrayInv'
<1>. SUFFICES ASSUME ArrayInv, Array!Next  PROVE  ArrayInv'
  OBVIOUS
<1>1. CASE Array!NextKey
  <2>1. /\ Array!GetNextKey(amap, key) # NoEnt /\ key' = Array!GetNextKey(amap, key)
        /\ visited' = Append(visited, Array!GetNextKey(amap, key))
        /\ amap' = amap /\ inner' = inner /\ direct' = direct
    BY <1>1 DEF Array!NextKey
  <2>2. /\ visited \in Seq(Nat) /\ Len(visited) \in Nat /\ Len(visited) <= amap.max_entries
        /\ amap.max_entries \in Nat /\ \A n \in 1 .. Len(visited) : visited[n] = n - 1
    BY DEF ArrayInv, ArrayOK
  <2>3. Len(visited) # amap.max_entries /\ key' = Len(visited)
        /\ visited' = Append(visited, Len(visited))
    BY <2>1, NextKeyFrom
  <2>4. visited' \in Seq(Nat) /\ Len(visited') = Len(visited) + 1
    BY <2>2, <2>3
  <2>5. ASSUME NEW n \in 1 .. Len(visited')  PROVE  visited'[n] = n - 1
    <3>1. CASE n = Len(visited) + 1
      BY <3>1, <2>2, <2>3
    <3>2. CASE n \in 1 .. Len(visited)
      <4>1. visited'[n] = visited[n]
        BY <3>2, <2>2, <2>3
      <4>. QED
        BY <4>1, <3>2, <2>2
    <3>. QED
      BY <3>1, <3>2, <2>2, <2>4
  <2>6. Len(visited') <= amap'.max_entries
    BY <2>1, <2>2, <2>3, <2>4
  <2>7. key' = IF Len(visited') = 0 THEN NoKey ELSE Len(visited') - 1
    BY <2>2, <2>3, <2>4
  <2>8. ArrayOK(amap)' /\ ArrayOK(inner)' /\ Array!MetaEqual(amap, inner)'
    BY <2>1 DEF ArrayInv, ArrayOK, Array!MetaEqual
  <2>9. direct' # NoEnt => amap'.max_entries = 1 /\ direct' \in Nat /\ direct' < amap'.value_size
    BY <2>1 DEF ArrayInv
  <2>. QED
    BY <2>4, <2>5, <2>6, <2>7, <2>8, <2>9 DEF ArrayInv
<1>2. CASE Array!Restart
  <2>1. /\ key' = NoKey /\ visited' = << >> /\ amap' = amap /\ inner' = inner /\ direct' = direct
    BY <1>2 DEF Array!Restart
  <2>2. visited' \in Seq(Nat) /\ Len(visited') = 0
    BY <2>1
  <2>3. ArrayOK(amap)' /\ ArrayOK(inner)' /\ Array!MetaEqual(amap, inner)'
    BY <2>1 DEF ArrayInv, ArrayOK, Array!MetaEqual
  <2>4. direct' # NoEnt => amap'.max_entries = 1 /\ direct' \in Nat /\ direct' < amap'.value_size
    BY <2>1 DEF ArrayInv
  <2>. QED
    BY <2>1, <2>2, <2>3, <2>4 DEF ArrayInv, ArrayOK
<1>3. ASSUME NEW off \in ArrayCase.ValueSizes, Array!Patch(off)  PROVE  ArrayInv'
  <2>1. /\ amap.max_entries = 1 /\ off < amap.value_size /\ direct' = off /\ off \in Nat
        /\ amap' = amap /\ inner' = inner /\ key' = key /\ visited' = visited
    BY <1>3, ArrayConstants DEF Array!Patch, Array!DirectValueAddr
  <2>. QED
    BY <2>1 DEF ArrayInv, ArrayOK, Array!MetaEqual
<1>4. ASSUME NEW a \in Array!Attr, Array!Exchange(a)  PROVE  ArrayInv'
  <2>1. /\ Array!MetaEqual(amap, Array!Array(a)) /\ inner' = Array!Array(a)
        /\ amap' = amap /\ key' = key /\ visited' = visited /\ direct' = direct
    BY <1>4 DEF Array!Exchange
  <2>2. Array!MetaEqual(amap, inner)'
    BY <2>1 DEF Array!MetaEqual
  <2>3. ArrayOK(inner)'
    BY <2>1, ArrayMade DEF ArrayOK
  <2>4. ArrayOK(amap)'
    BY <2>1 DEF ArrayInv, ArrayOK
  <2>. QED
    BY <2>1, <2>2, <2>3, <2>4 DEF ArrayInv
<1>. QED
  BY <1>1, <1>2, <1>3, <1>4 DEF Array!Next

LEMMA ArrayInvKept == ArrayInv /\ UNCHANGED arrayVars => ArrayInv'
  BY DEF ArrayInv, ArrayOK, Array!MetaEqual, arrayVars

LEMMA ArrayMeans ==
  ArrayInv => /\ Array!WalkIsExact /\ Array!ElementsDisjoint
              /\ Array!DirectRoundTrip /\ Array!InlinedLookupSafe
<1>. SUFFICES ASSUME ArrayInv
              PROVE  /\ Array!WalkIsExact /\ Array!ElementsDisjoint
                     /\ Array!DirectRoundTrip /\ Array!InlinedLookupSafe
  OBVIOUS
<1>a. ArrayOK(amap) /\ ArrayOK(inner)
  BY DEF ArrayInv
<1>b. /\ amap.value_size \in Nat /\ amap.elem_size \in Nat /\ amap.value_size <= amap.elem_size
      /\ amap.max_entries \in 1 .. ArrayCase.Word - 1 /\ amap.max_entries \in Nat
  BY <1>a, ArrayConstants DEF ArrayOK
<1>1. Array!WalkIsExact
  <2>1. /\ visited \in Seq(Nat) /\ Len(visited) \in Nat /\ Len(visited) <= amap.max_entries
        /\ \A n \in 1 .. Len(visited) : visited[n] = n - 1
    BY DEF ArrayInv
  <2>2. visited = [n \in 1 .. Len(visited) |-> n - 1]
    BY <2>1
  <2>3. Array!GetNextKey(amap, key) = NoEnt <=> Len(visited) = amap.max_entries
    BY <2>1, NextKeyFrom, ArrayConstants
  <2>. QED
    BY <2>1, <2>2, <2>3 DEF Array!WalkIsExact
<1>2. Array!ElementsDisjoint
  <2>. SUFFICES ASSUME NEW i \in 0 .. amap.max_entries - 1, NEW j \in 0 .. amap.max_entries - 1,
                       i < j
                PROVE  /\ Array!Lookup(amap, i) + amap.value_size <= Array!Lookup(amap, j)
                       /\ Array!Lookup(amap, j) + amap.value_size
                            <= amap.elem_size * amap.max_entries
    BY DEF Array!ElementsDisjoint
  <2>. DEFINE es == amap.elem_size
              vs == amap.value_size
              me == amap.max_entries
  <2>1. es \in Nat /\ vs \in Nat /\ vs <= es /\ me \in Nat /\ i \in Nat /\ j \in Nat
        /\ i + 1 <= j /\ j + 1 <= me
    BY <1>b
  <2>2. Array!Lookup(amap, i) = es * i /\ Array!Lookup(amap, j) = es * j
    BY <1>a, LookupPlace
  <2>. HIDE DEF es, vs, me
  <2>3. es * (i + 1) <= es * j /\ es * (j + 1) <= es * me
    BY <2>1, ProductsOrdered
  <2>4. es * (i + 1) = es * i + es /\ es * (j + 1) = es * j + es
    BY <2>1
  <2>5. es * i \in Nat /\ es * j \in Nat /\ es * me \in Nat
    BY <2>1
  <2>6. es * i + vs <= es * j /\ es * j + vs <= es * me
    BY <2>1, <2>3, <2>4, <2>5
  <2>. QED
    BY <2>2, <2>6 DEF es, vs, me
<1>3. Array!DirectRoundTrip
  <2>1. direct # NoEnt => direct \in Nat /\ direct < amap.value_size /\ direct < amap.elem_size
                          /\ amap.max_entries = 1
    BY <1>b DEF ArrayInv
  <2>. QED
    BY <2>1 DEF Array!DirectRoundTrip, Array!DirectValueMeta
<1>4. Array!InlinedLookupSafe
  <2>. SUFFICES ASSUME "INNER_MAP" \notin amap.flags, NEW i \in 0 .. amap.max_entries - 1
                PROVE  Array!Lookup(inner, i) = Array!Lookup(amap, i)
    BY DEF Array!InlinedLookupSafe
  <2>1. amap.value_size = inner.value_size /\ amap.max_entries = inner.max_entries
    BY DEF ArrayInv, Array!MetaEqual
  <2>2. amap.elem_size = inner.elem_size
    BY <2>1, <1>a DEF ArrayOK
  <2>3. i \in 0 .. inner.max_entries - 1
    BY <2>1
  <2>. QED
    BY <2>2, <2>3, <1>a, LookupPlace
<1>. QED
  BY <1>1, <1>2, <1>3, <1>4

LEMMA ArrayInvPartsInit == PartsInit => ArrayInv
  BY ArrayInvInit DEF PartsInit

LEMMA ArrayInvPartsNext == ArrayInv /\ [PartsNext]_allVars => ArrayInv'
<1>1. PartsNext => Array!Next \/ UNCHANGED arrayVars
  BY DEF PartsNext
<1>2. UNCHANGED allVars => UNCHANGED arrayVars
  BY DEF allVars
<1>. QED
  BY <1>1, <1>2, ArrayInvStep, ArrayInvKept
-----------------------------------------------------------------------------
(* syscall.c with the creation checks: the sizes of buffers *)

PerCpuType == {"PERCPU_ARRAY", "PERCPU_HASH", "LRU_PERCPU_HASH"}

LEMMA AttrConstants ==
  /\ AttrCase.Word \in Nat \ {0} /\ AttrCase.Align \in Nat \ {0} /\ AttrCase.PcpuMin \in Nat
  /\ AttrCase.KmallocMax \in Nat /\ AttrCase.ElemHeader \in Nat /\ AttrCase.NrCpus \in Nat \ {0}
  /\ 2 * AttrCase.Align <= AttrCase.Word
  /\ AttrCase.NrCpus * AttrCase.PcpuMin < AttrCase.Word
  /\ AttrCase.KmallocMax + AttrCase.Align <= AttrCase.Word
  /\ AttrCase.Sizes \subseteq 0 .. AttrCase.Word - 1
  BY PartsAssumption DEF Attr!SizeAssumption, Attr!AttrAssumption, Attr!U32

\* A map's sizes, as the creation checks leave them: rounding up does not wrap, and a per-CPU
\* value fits the unit the allocator hands out.
Sized(m) ==
  /\ m.value_size \in Nat /\ m.value_size + AttrCase.Align - 1 < AttrCase.Word
  /\ m.type \in PerCpuType => Attr!RoundUp(m.value_size) <= AttrCase.PcpuMin

LEMMA CheckedIsSized ==
  ASSUME NEW a \in Attr!Attrs, Attr!AllocCheck(a)
  PROVE  Sized(a)
<1>1. /\ a.value_size \in Nat /\ a.key_size \in Nat
      /\ a.type \in Attr!ArrayType \cup Attr!HashType
  BY AttrConstants DEF Attr!Attrs
<1>2. CASE a.type \in Attr!ArrayType
  <2>1. /\ a.value_size <= Attr!IntMax
        /\ a.type = "PERCPU_ARRAY" => Attr!RoundUp(a.value_size) <= AttrCase.PcpuMin
    BY <1>2 DEF Attr!AllocCheck, Attr!ArrayAllocCheck
  <2>2. a.value_size + AttrCase.Align - 1 < AttrCase.Word
    BY <2>1, <1>1, AttrConstants DEF Attr!IntMax
  <2>3. a.type \in PerCpuType => a.type = "PERCPU_ARRAY"
    BY <1>2 DEF PerCpuType, Attr!ArrayType
  <2>. QED
    BY <2>1, <2>2, <2>3, <1>1 DEF Sized
<1>3. CASE a.type \notin Attr!ArrayType
  <2>1. /\ a.key_size + a.value_size < AttrCase.KmallocMax - AttrCase.ElemHeader
        /\ a.type \in {"PERCPU_HASH", "LRU_PERCPU_HASH"}
             => Attr!RoundUp(a.value_size) <= AttrCase.PcpuMin
    BY <1>3 DEF Attr!AllocCheck, Attr!HtabAllocCheck
  <2>2. a.value_size + AttrCase.Align - 1 < AttrCase.Word
    BY <2>1, <1>1, AttrConstants
  <2>3. a.type \in PerCpuType => a.type \in {"PERCPU_HASH", "LRU_PERCPU_HASH"}
    BY <1>3 DEF PerCpuType, Attr!ArrayType
  <2>. QED
    BY <2>1, <2>2, <2>3, <1>1 DEF Sized
<1>. QED
  BY <1>2, <1>3

CpuFlags == {"CPU", "ALL_CPUS"}

\* Every map was sized by the checks, and an operation's buffer and CPU were settled against
\* the map it runs on.
AttrInv ==
  /\ cmap # Attr!None => Sized(cmap)
  /\ op # Attr!None => /\ cmap # Attr!None
                       /\ op.buffer = Attr!MapValueSize(cmap, op.flags)
                       /\ op.flags \cap CpuFlags # {} =>
                            cmap.type \in PerCpuType /\ op.cpu < AttrCase.NrCpus

LEMMA AttrInvInit == Attr!Init => AttrInv
  BY DEF Attr!Init, AttrInv

LEMMA AttrInvKept == AttrInv /\ UNCHANGED attrVars => AttrInv'
  BY DEF AttrInv, Sized, Attr!None, attrVars, Attr!MapValueSize, Attr!RoundUp, Attr!IsFdMap

LEMMA AttrInvStep == AttrInv /\ Attr!Next => AttrInv'
<1>. SUFFICES ASSUME AttrInv, Attr!Next  PROVE  AttrInv'
  OBVIOUS
<1>1. ASSUME NEW a \in Attr!Attrs, Attr!Create(a)  PROVE  AttrInv'
  <2>1. /\ cmap = Attr!None /\ Attr!AllocCheck(a) /\ op' = op
        /\ cmap' = [a EXCEPT !.flags = Attr!RetainPermanent(a.flags)]
    BY <1>1 DEF Attr!Create
  <2>2. op' = Attr!None
    BY <2>1 DEF AttrInv
  <2>3. Sized(a)
    BY <2>1, CheckedIsSized
  <2>4. cmap'.value_size = a.value_size /\ cmap'.type = a.type
    BY <2>1 DEF Attr!Attrs
  <2>5. Sized(cmap)'
    BY <2>3, <2>4 DEF Sized, Attr!RoundUp
  <2>. QED
    BY <2>2, <2>5 DEF AttrInv, Attr!None
<1>2. ASSUME NEW kind, NEW flags, NEW cpu, Attr!Operate(kind, flags, cpu)  PROVE  AttrInv'
  <2>1. /\ cmap # Attr!None /\ Attr!CheckOpFlags(cmap, flags, cpu, Attr!Allowed[kind])
        /\ op' = [type |-> kind, flags |-> flags, cpu |-> cpu,
                  buffer |-> Attr!MapValueSize(cmap, flags)]
        /\ cmap' = cmap
    BY <1>2 DEF Attr!Operate
  <2>2. flags \cap CpuFlags # {} => cmap.type \in PerCpuType /\ cpu < AttrCase.NrCpus
    BY <2>1, AttrConstants
       DEF Attr!CheckOpFlags, CpuFlags, PerCpuType, Attr!SupportsCpuFlags
  <2>3. op'.flags = flags /\ op'.cpu = cpu /\ op'.buffer = Attr!MapValueSize(cmap, flags)
    BY <2>1
  <2>4. Attr!MapValueSize(cmap, flags) = Attr!MapValueSize(cmap, op.flags)'
    BY <2>1, <2>3 DEF Attr!MapValueSize, Attr!RoundUp, Attr!IsFdMap
  <2>5. Sized(cmap)'
    BY <2>1 DEF AttrInv, Sized, Attr!RoundUp
  <2>. QED
    BY <2>1, <2>2, <2>3, <2>4, <2>5 DEF AttrInv, Attr!None
<1>. QED
  BY <1>1, <1>2 DEF Attr!Next

\* The size an operation's buffer has for a map all of whose CPUs have a value: the exact
\* product.
LEMMA PerCpuProduct ==
  ASSUME NEW m, Sized(m), m.type \in PerCpuType
  PROVE  (Attr!RoundUp(m.value_size) * AttrCase.NrCpus) % AttrCase.Word =
           AttrCase.NrCpus * ((m.value_size + AttrCase.Align - 1) \div AttrCase.Align)
             * AttrCase.Align
<1>. DEFINE up == Attr!RoundUp(m.value_size)
            q == (m.value_size + AttrCase.Align - 1) \div AttrCase.Align
            A == AttrCase.Align
            N == AttrCase.NrCpus
            W == AttrCase.Word
            U == AttrCase.PcpuMin
            y == m.value_size + AttrCase.Align - 1
<1>1. up \in Nat /\ up = q * A
  BY AttrConstants, RoundUpFits DEF Sized, Attr!RoundUp
<1>2. up <= U
  BY DEF Sized
<1>3. y \in Nat
  BY AttrConstants DEF Sized
<1>4. q \in Nat
  <2>. HIDE DEF y
  <2>1. y \div A \in Nat
    BY <1>3, AttrConstants, DivModFacts
  <2>. QED
    BY <2>1 DEF y
<1>5. A \in Nat /\ N \in Nat /\ U \in Nat /\ W \in Nat \ {0} /\ N * U < W
  BY AttrConstants
<1>. HIDE DEF up, q, A, N, W, U, y
<1>6. up * N \in Nat /\ up * N <= N * U
  BY <1>1, <1>2, <1>5
<1>7. N * U \in Nat
  BY <1>5
<1>8. up * N < W
  BY <1>5, <1>6, <1>7
<1>9. (up * N) % W = up * N
  BY <1>5, <1>6, <1>8, Fits
<1>10. up * N = N * q * A
  BY <1>1, <1>4, <1>5
<1>. QED
  BY <1>9, <1>10 DEF up, q, A, N, W

LEMMA AttrMeans ==
  AttrInv => Attr!SlotHoldsValue /\ Attr!BufferExact /\ Attr!CpuFlagInRange
<1>. SUFFICES ASSUME AttrInv
              PROVE  Attr!SlotHoldsValue /\ Attr!BufferExact /\ Attr!CpuFlagInRange
  OBVIOUS
<1>1. Attr!SlotHoldsValue
  <2>. SUFFICES ASSUME cmap # Attr!None
                PROVE  Attr!RoundUp(cmap.value_size) >= cmap.value_size
    BY DEF Attr!SlotHoldsValue
  <2>1. cmap.value_size \in Nat /\ cmap.value_size + AttrCase.Align - 1 < AttrCase.Word
    BY DEF AttrInv, Sized
  <2>2. /\ Attr!RoundUp(cmap.value_size) \in Nat
        /\ cmap.value_size <= Attr!RoundUp(cmap.value_size)
    BY <2>1, AttrConstants, RoundUpFits DEF Attr!RoundUp
  <2>. QED
    BY <2>1, <2>2
<1>2. Attr!CpuFlagInRange
  BY DEF AttrInv, Attr!CpuFlagInRange, Attr!PerCpu, CpuFlags, PerCpuType
<1>3. Attr!BufferExact
  <2>. SUFFICES ASSUME op # Attr!None
                PROVE  op.buffer =
                         IF op.flags \cap CpuFlags # {} THEN cmap.value_size
                         ELSE IF Attr!PerCpu
                              THEN AttrCase.NrCpus
                                     * ((cmap.value_size + AttrCase.Align - 1) \div AttrCase.Align)
                                     * AttrCase.Align
                         ELSE IF Attr!IsFdMap(cmap.type) THEN 4
                         ELSE cmap.value_size
    BY DEF Attr!BufferExact, CpuFlags
  <2>1. op.buffer = Attr!MapValueSize(cmap, op.flags) /\ Sized(cmap)
    BY DEF AttrInv
  <2>2. CASE op.flags \cap CpuFlags # {}
    BY <2>1, <2>2 DEF Attr!MapValueSize, CpuFlags
  <2>3. CASE op.flags \cap CpuFlags = {} /\ Attr!PerCpu
    <3>1. cmap.type \in PerCpuType
      BY <2>3 DEF Attr!PerCpu, PerCpuType
    <3>2. op.buffer = (Attr!RoundUp(cmap.value_size) * AttrCase.NrCpus) % AttrCase.Word
      BY <2>1, <2>3, <3>1 DEF Attr!MapValueSize, CpuFlags, PerCpuType
    <3>. QED
      BY <2>1, <2>3, <3>1, <3>2, PerCpuProduct
  <2>4. CASE op.flags \cap CpuFlags = {} /\ ~ Attr!PerCpu
    BY <2>1, <2>4 DEF Attr!MapValueSize, CpuFlags, Attr!PerCpu
  <2>. QED
    BY <2>2, <2>3, <2>4
<1>. QED
  BY <1>1, <1>2, <1>3

LEMMA AttrInvPartsInit == PartsInit => AttrInv
  BY AttrInvInit DEF PartsInit

LEMMA AttrInvPartsNext == AttrInv /\ [PartsNext]_allVars => AttrInv'
<1>1. PartsNext => Attr!Next \/ UNCHANGED attrVars
  BY DEF PartsNext
<1>2. UNCHANGED allVars => UNCHANGED attrVars
  BY DEF allVars
<1>. QED
  BY <1>1, <1>2, AttrInvStep, AttrInvKept

\* For every word size, alignment and limit that lie as the source's do, every value size and
\* every number of entries and CPUs: walks, element addresses, direct addresses, inlined
\* lookups and operation buffers stay inside their objects.
THEOREM AddressesInBounds == PartsSpec => []MemoryInBounds
<1>1. ArrayInv /\ AttrInv => MemoryInBounds
  BY ArrayMeans, AttrMeans DEF MemoryInBounds
<1>. QED
  BY <1>1, ArrayInvPartsInit, ArrayInvPartsNext, AttrInvPartsInit, AttrInvPartsNext, PTL
     DEF PartsSpec
-----------------------------------------------------------------------------
(* syscall.c, the life of a program: load, verification, attachment *)

\* attach_type_to_prog_type() answers with a type that has the hook in its row, or with none.
LEMMA HookOwned ==
  ASSUME NEW h
  PROVE  \/ /\ Prog!HookProgType(h) = "UNSPEC"
            /\ \A t \in DOMAIN Prog!HookTable : h \notin Prog!HookTable[t]
         \/ /\ Prog!HookProgType(h) \in DOMAIN Prog!HookTable
            /\ h \in Prog!HookTable[Prog!HookProgType(h)]
<1>. DEFINE P(t) == h \in Prog!HookTable[t]
            D == DOMAIN Prog!HookTable
<1>1. Prog!HookProgType(h) = IF \E t \in D : P(t) THEN CHOOSE t \in D : P(t) ELSE "UNSPEC"
  BY DEF Prog!HookProgType
<1>. HIDE DEF P, D
<1>2. CASE \E t \in D : P(t)
  <2>1. (CHOOSE t \in D : P(t)) \in D /\ P(CHOOSE t \in D : P(t))
    BY <1>2, Zenon
  <2>. QED
    BY <1>1, <1>2, <2>1 DEF P, D
<1>3. CASE ~ \E t \in D : P(t)
  BY <1>1, <1>3 DEF P, D
<1>. QED
  BY <1>2, <1>3

Owners ==
  {"CGROUP_SKB", "CGROUP_SOCK", "CGROUP_SOCK_ADDR", "SOCK_OPS", "CGROUP_DEVICE", "SK_MSG",
   "SK_SKB", "LIRC_MODE2", "FLOW_DISSECTOR", "CGROUP_SYSCTL", "CGROUP_SOCKOPT", "TRACING",
   "LSM", "SK_LOOKUP", "XDP", "SCHED_CLS"}

LEMMA OwnersAre == DOMAIN Prog!HookTable = Owners /\ "UNSPEC" \notin Owners
  BY DEF Prog!HookTable, Owners

\* The rows that the properties compare with the other tables, and what the remaining rows
\* leave out.
LEMMA HookRows ==
  ASSUME NEW t \in Owners, NEW h \in Prog!HookTable[t]
  PROVE  /\ h \in Prog!SockAddrHook => t = "CGROUP_SOCK_ADDR"
         /\ h \in {"CGROUP_INET_INGRESS", "CGROUP_INET_EGRESS"} => t = "CGROUP_SKB"
         /\ h \in {"CGROUP_INET_SOCK_CREATE", "CGROUP_INET_SOCK_RELEASE",
                   "CGROUP_INET4_POST_BIND", "CGROUP_INET6_POST_BIND"} => t = "CGROUP_SOCK"
         /\ h \in {"CGROUP_SETSOCKOPT", "CGROUP_GETSOCKOPT"} => t = "CGROUP_SOCKOPT"
         /\ h = "SK_LOOKUP" => t = "SK_LOOKUP"
         /\ h \in {"TCX_INGRESS", "TCX_EGRESS", "NETKIT_PRIMARY", "NETKIT_PEER"}
              => t = "SCHED_CLS"
         /\ h \notin {"PERF_EVENT", "NETFILTER"} \cup Prog!ProbeHook
         /\ h \in Prog!CgroupHook =>
              \/ t \in {"CGROUP_DEVICE", "CGROUP_SKB", "CGROUP_SOCK", "CGROUP_SOCK_ADDR",
                        "CGROUP_SOCKOPT", "CGROUP_SYSCTL", "SOCK_OPS"}
              \/ t = "LSM" /\ h = "LSM_CGROUP"
<1>1. CASE t \in {"CGROUP_SKB", "CGROUP_SOCK", "SOCK_OPS", "CGROUP_DEVICE"}
  BY <1>1 DEF Prog!HookTable, Prog!SockAddrHook, Prog!CgroupHook, Prog!ProbeHook
<1>2. CASE t = "CGROUP_SOCK_ADDR"
  BY <1>2 DEF Prog!HookTable, Prog!SockAddrHook, Prog!CgroupHook, Prog!ProbeHook
<1>3. CASE t \in {"SK_MSG", "SK_SKB", "LIRC_MODE2", "FLOW_DISSECTOR"}
  BY <1>3 DEF Prog!HookTable, Prog!SockAddrHook, Prog!CgroupHook, Prog!ProbeHook
<1>4. CASE t \in {"CGROUP_SYSCTL", "CGROUP_SOCKOPT", "LSM", "SK_LOOKUP", "XDP"}
  BY <1>4 DEF Prog!HookTable, Prog!SockAddrHook, Prog!CgroupHook, Prog!ProbeHook
<1>5. CASE t \in {"TRACING", "SCHED_CLS"}
  BY <1>5 DEF Prog!HookTable, Prog!SockAddrHook, Prog!CgroupHook, Prog!ProbeHook
<1>. QED
  BY <1>1, <1>2, <1>3, <1>4, <1>5 DEF Owners

\* What the load's checks leave of a program.
Accepted(p) ==
  /\ p.type # "TRACING" => p.hook \in Prog!LoadHooks(p.type)
  /\ Prog!NeedsNetAdmin(p.type) => "NET_ADMIN" \in p.caps
  /\ Prog!NeedsPerfmon(p.type) => "PERFMON" \in p.caps

\* A request keeps the fixed hook until the load; a program's attributes are settled before
\* its first link, so that every link's check still stands.
ProgInv ==
  /\ stage \in {"none", "requested", "fixed", "loaded", "refused"}
  /\ stage \in {"requested", "fixed"} => request \in Prog!Requests
  /\ stage = "fixed" => Prog!LoadFixup(request.type, request.hook) = request.hook
  /\ stage = "loaded" => Accepted(prog)
  /\ stage # "loaded" => hooks = {}
  /\ \A h \in hooks : Prog!AttachCheck(prog, h)

LEMMA ProgInvInit == Prog!Init => ProgInv
  BY DEF Prog!Init, ProgInv

LEMMA ProgInvKept == ProgInv /\ UNCHANGED progVars => ProgInv'
  BY DEF ProgInv, progVars, Accepted, Prog!AttachCheck, Prog!LoadFixup, Prog!LoadHooks,
         Prog!NeedsNetAdmin, Prog!NeedsPerfmon

\* Setting the hook a request left out twice changes nothing.
LEMMA FixupOnce ==
  ASSUME NEW t, NEW h \in Prog!AttachType
  PROVE  /\ Prog!LoadFixup(t, h) \in Prog!AttachType
         /\ Prog!LoadFixup(t, Prog!LoadFixup(t, h)) = Prog!LoadFixup(t, h)
<1>1. /\ "CGROUP_INET_SOCK_CREATE" \in Prog!AttachType
      /\ "SK_REUSEPORT_SELECT" \in Prog!AttachType
  BY DEF Prog!AttachType, Prog!CgroupHook
<1>. QED
  BY <1>1 DEF Prog!LoadFixup, Prog!Zero

LEMMA ProgInvStep == ProgInv /\ Prog!Next => ProgInv'
<1>. SUFFICES ASSUME ProgInv, Prog!Next  PROVE  ProgInv'
  OBVIOUS
<1>1. CASE Prog!Request
  BY <1>1 DEF Prog!Request, ProgInv
<1>2. CASE Prog!Fixup
  <2>1. /\ stage = "requested" /\ stage' = "fixed" /\ hooks' = hooks
        /\ request' = [request EXCEPT !.hook = Prog!LoadFixup(request.type, request.hook)]
    BY <1>2 DEF Prog!Fixup
  <2>2. request \in Prog!Requests /\ hooks = {}
    BY <2>1 DEF ProgInv
  <2>3. request.hook \in Prog!AttachType
    BY <2>2 DEF Prog!Requests
  <2>4. /\ Prog!LoadFixup(request.type, request.hook) \in Prog!AttachType
        /\ Prog!LoadFixup(request.type, Prog!LoadFixup(request.type, request.hook))
             = Prog!LoadFixup(request.type, request.hook)
    BY <2>3, FixupOnce
  <2>5. request' \in Prog!Requests
    BY <2>1, <2>2, <2>4 DEF Prog!Requests
  <2>6. /\ request'.type = request.type
        /\ request'.hook = Prog!LoadFixup(request.type, request.hook)
    BY <2>1, <2>2 DEF Prog!Requests
  <2>7. Prog!LoadFixup(request'.type, request'.hook) = request'.hook
    BY <2>4, <2>6
  <2>. QED
    BY <2>1, <2>2, <2>5, <2>7 DEF ProgInv, Prog!LoadFixup
<1>3. ASSUME NEW enforce \in BOOLEAN, Prog!Load(enforce)  PROVE  ProgInv'
  <2>1. /\ stage = "fixed" /\ stage' = "loaded" /\ hooks' = hooks
        /\ Prog!LoadCheck(request) /\ Prog!MayLoad(request)
        /\ prog' = [type |-> request.type, hook |-> request.hook, caps |-> request.caps,
                    dst |-> request.dst, enforce |-> enforce]
    BY <1>3 DEF Prog!Load
  <2>2. hooks = {}
    BY <2>1 DEF ProgInv
  <2>3. Accepted(request)
    BY <2>1 DEF Accepted, Prog!LoadCheck, Prog!MayLoad
  <2>4. prog'.type = request.type /\ prog'.hook = request.hook /\ prog'.caps = request.caps
    BY <2>1
  <2>5. Accepted(prog)'
    BY <2>3, <2>4 DEF Accepted, Prog!LoadHooks, Prog!NeedsNetAdmin, Prog!NeedsPerfmon
  <2>. QED
    BY <2>1, <2>2, <2>5 DEF ProgInv
<1>4. CASE Prog!Refuse
  BY <1>4 DEF Prog!Refuse, ProgInv
<1>5. ASSUME NEW hook \in Prog!AttachType, Prog!Attach(hook)  PROVE  ProgInv'
  <2>1. /\ stage = "loaded" /\ stage' = stage /\ prog' = prog /\ Prog!AttachCheck(prog, hook)
        /\ hooks' = hooks \cup {hook}
    BY <1>5 DEF Prog!Attach
  <2>2. Accepted(prog) /\ \A h \in hooks' : Prog!AttachCheck(prog, h)
    BY <2>1 DEF ProgInv
  <2>3. Accepted(prog)'
    BY <2>1, <2>2 DEF Accepted, Prog!LoadHooks, Prog!NeedsNetAdmin, Prog!NeedsPerfmon
  <2>4. \A h \in hooks' : Prog!AttachCheck(prog, h)'
    BY <2>1, <2>2 DEF Prog!AttachCheck
  <2>. QED
    BY <2>1, <2>3, <2>4 DEF ProgInv
<1>. QED
  BY <1>1, <1>2, <1>3, <1>4, <1>5 DEF Prog!Next

\* The hooks that the load binds are the ones that the attach table gives the type.
LEMMA LoadAgrees ==
  ASSUME NEW t \in {"CGROUP_SOCK", "CGROUP_SOCK_ADDR", "CGROUP_SOCKOPT", "SK_LOOKUP",
                    "CGROUP_SKB"},
         NEW h \in Prog!LoadHooks(t)
  PROVE  Prog!HookProgType(h) = t
<1>1. t \in Owners /\ h \in Prog!HookTable[t]
  BY DEF Prog!LoadHooks, Prog!HookTable, Owners
<1>2. Prog!HookProgType(h) \in Owners /\ h \in Prog!HookTable[Prog!HookProgType(h)]
  BY <1>1, HookOwned, OwnersAre
<1>3. /\ t = "CGROUP_SOCK_ADDR" => h \in Prog!SockAddrHook
      /\ t = "CGROUP_SKB" => h \in {"CGROUP_INET_INGRESS", "CGROUP_INET_EGRESS"}
      /\ t = "CGROUP_SOCK" => h \in {"CGROUP_INET_SOCK_CREATE", "CGROUP_INET_SOCK_RELEASE",
                                     "CGROUP_INET4_POST_BIND", "CGROUP_INET6_POST_BIND"}
      /\ t = "CGROUP_SOCKOPT" => h \in {"CGROUP_SETSOCKOPT", "CGROUP_GETSOCKOPT"}
      /\ t = "SK_LOOKUP" => h = "SK_LOOKUP"
  BY DEF Prog!LoadHooks
<1>. DEFINE u == Prog!HookProgType(h)
<1>4. u \in Owners /\ h \in Prog!HookTable[u]
  BY <1>2
<1>. HIDE DEF u
<1>5. u = t
  BY <1>3, <1>4, HookRows
<1>. QED
  BY <1>5 DEF u

\* What one link's check says of the program and the hook.
LEMMA CheckedHook ==
  ASSUME NEW p, NEW h, Accepted(p), Prog!AttachCheck(p, h)
  PROVE  /\ p.type = "EXT" \/ Prog!HookProgType(h) \in {p.type, "UNSPEC"}
         /\ h \in Prog!CgroupHook /\ p.type # "EXT" =>
              /\ Prog!IsCgroupProg(p.type, h)
              /\ (IF p.type = "LSM" THEN "PERFMON" ELSE "NET_ADMIN") \in p.caps
<1>1. CASE p.type \in {"CGROUP_SOCK", "CGROUP_SOCK_ADDR", "CGROUP_SOCKOPT", "SK_LOOKUP"}
  <2>1. h = p.hook
    BY <1>1 DEF Prog!AttachCheck
  <2>2. h \in Prog!LoadHooks(p.type)
    BY <1>1, <2>1 DEF Accepted
  <2>3. Prog!HookProgType(h) = p.type
    BY <1>1, <2>2, LoadAgrees
  <2>4. CASE p.type = "SK_LOOKUP"
    <3>1. h = "SK_LOOKUP"
      BY <2>2, <2>4 DEF Prog!LoadHooks
    <3>2. h \notin Prog!CgroupHook
      BY <3>1 DEF Prog!CgroupHook, Prog!SockAddrHook
    <3>. QED
      BY <2>3, <3>2
  <2>5. CASE p.type # "SK_LOOKUP"
    <3>1. Prog!IsCgroupProg(p.type, h) /\ "NET_ADMIN" \in p.caps /\ p.type # "LSM"
      BY <1>1, <2>5 DEF Accepted, Prog!IsCgroupProg, Prog!NeedsNetAdmin
    <3>. QED
      BY <2>3, <3>1
  <2>. QED
    BY <2>4, <2>5
<1>2. CASE p.type = "CGROUP_SKB"
  <2>1. "NET_ADMIN" \in p.caps /\ Prog!HookProgType(h) = p.type
    BY <1>2 DEF Prog!AttachCheck
  <2>. QED
    BY <1>2, <2>1 DEF Prog!IsCgroupProg
<1>3. CASE p.type = "EXT"
  BY <1>3
<1>4. CASE p.type \in {"NETFILTER", "PERF_EVENT", "TRACEPOINT", "KPROBE"}
  <2>1. h \in {"PERF_EVENT", "NETFILTER"} \cup Prog!ProbeHook
    BY <1>4 DEF Prog!AttachCheck
  <2>2. Prog!HookProgType(h) = "UNSPEC"
    BY <2>1, HookOwned, OwnersAre, HookRows
  <2>3. h \notin Prog!CgroupHook
    BY <2>1 DEF Prog!ProbeHook, Prog!CgroupHook, Prog!SockAddrHook
  <2>. QED
    BY <2>2, <2>3
<1>5. CASE p.type = "SCHED_CLS"
  <2>1. h \in {"TCX_INGRESS", "TCX_EGRESS", "NETKIT_PRIMARY", "NETKIT_PEER"}
    BY <1>5 DEF Prog!AttachCheck
  <2>2. Prog!HookProgType(h) \in {"SCHED_CLS", "UNSPEC"}
    BY <2>1, HookOwned, OwnersAre, HookRows
  <2>3. h \notin Prog!CgroupHook
    BY <2>1 DEF Prog!CgroupHook, Prog!SockAddrHook
  <2>. QED
    BY <1>5, <2>2, <2>3
<1>6. CASE p.type \notin {"CGROUP_SOCK", "CGROUP_SOCK_ADDR", "CGROUP_SOCKOPT", "SK_LOOKUP",
                          "CGROUP_SKB", "EXT", "NETFILTER", "PERF_EVENT", "TRACEPOINT",
                          "KPROBE", "SCHED_CLS"}
  <2>1. Prog!HookProgType(h) # "UNSPEC" /\ Prog!HookProgType(h) = p.type
    BY <1>6 DEF Prog!AttachCheck
  <2>2. p.type \in Owners /\ h \in Prog!HookTable[p.type]
    BY <2>1, HookOwned, OwnersAre
  <2>3. h \in Prog!CgroupHook =>
          \/ p.type \in {"CGROUP_DEVICE", "CGROUP_SYSCTL", "SOCK_OPS"}
          \/ p.type = "LSM" /\ h = "LSM_CGROUP"
    BY <1>6, <2>2, HookRows
  <2>4. p.type \in {"CGROUP_DEVICE", "CGROUP_SYSCTL", "SOCK_OPS"}
          => "NET_ADMIN" \in p.caps /\ p.type # "LSM"
    BY DEF Accepted, Prog!NeedsNetAdmin
  <2>5. p.type = "LSM" => "PERFMON" \in p.caps
    BY DEF Accepted, Prog!NeedsPerfmon
  <2>. QED
    BY <2>1, <2>3, <2>4, <2>5 DEF Prog!IsCgroupProg
<1>. QED
  BY <1>1, <1>2, <1>3, <1>4, <1>5, <1>6

LEMMA ProgMeans ==
  ProgInv => /\ Prog!LoadableIsAttachable /\ Prog!HookOwnerRespected /\ Prog!BoundToOneHook
             /\ Prog!CgroupHooksGuarded /\ Prog!LegacyLoadAccepted
<1>. SUFFICES ASSUME ProgInv
              PROVE  /\ Prog!LoadableIsAttachable /\ Prog!HookOwnerRespected
                     /\ Prog!BoundToOneHook /\ Prog!CgroupHooksGuarded
                     /\ Prog!LegacyLoadAccepted
  OBVIOUS
<1>1. Prog!LoadableIsAttachable
  <2>. SUFFICES ASSUME stage = "loaded", prog.type \in Prog!Strict \ {"SK_REUSEPORT"},
                       "NET_ADMIN" \in prog.caps
                PROVE  Prog!AttachCheck(prog, prog.hook)
    BY DEF Prog!LoadableIsAttachable
  <2>1. prog.type \in {"CGROUP_SOCK", "CGROUP_SOCK_ADDR", "CGROUP_SOCKOPT", "SK_LOOKUP",
                       "CGROUP_SKB", "NETFILTER"}
    BY DEF Prog!Strict, Prog!LoadHooks
  <2>2. prog.hook \in Prog!LoadHooks(prog.type)
    BY <2>1 DEF ProgInv, Accepted
  <2>3. CASE prog.type \in {"CGROUP_SOCK", "CGROUP_SOCK_ADDR", "CGROUP_SOCKOPT", "SK_LOOKUP"}
    BY <2>3 DEF Prog!AttachCheck
  <2>4. CASE prog.type = "CGROUP_SKB"
    <3>1. Prog!HookProgType(prog.hook) = prog.type
      BY <2>2, <2>4, LoadAgrees
    <3>. QED
      BY <2>4, <3>1 DEF Prog!AttachCheck
  <2>5. CASE prog.type = "NETFILTER"
    <3>1. prog.hook = "NETFILTER"
      BY <2>2, <2>5 DEF Prog!LoadHooks
    <3>. QED
      BY <2>5, <3>1 DEF Prog!AttachCheck
  <2>. QED
    BY <2>1, <2>3, <2>4, <2>5
<1>2. ASSUME NEW h \in hooks
      PROVE  /\ Prog!AttachCheck(prog, h)
             /\ prog.type = "EXT" \/ Prog!HookProgType(h) \in {prog.type, "UNSPEC"}
             /\ h \in Prog!CgroupHook /\ prog.type # "EXT" =>
                  /\ Prog!IsCgroupProg(prog.type, h)
                  /\ (IF prog.type = "LSM" THEN "PERFMON" ELSE "NET_ADMIN") \in prog.caps
  <2>1. Accepted(prog) /\ Prog!AttachCheck(prog, h)
    BY DEF ProgInv
  <2>. QED
    BY <2>1, CheckedHook
<1>3. Prog!HookOwnerRespected
  BY <1>2 DEF Prog!HookOwnerRespected
<1>4. Prog!CgroupHooksGuarded
  BY <1>2 DEF Prog!CgroupHooksGuarded
<1>5. Prog!BoundToOneHook
  BY <1>2 DEF Prog!BoundToOneHook, Prog!AttachCheck
<1>6. Prog!LegacyLoadAccepted
  BY DEF ProgInv, Prog!LegacyLoadAccepted, Prog!LoadFixup, Prog!LoadHooks, Prog!Zero
<1>. QED
  BY <1>1, <1>3, <1>4, <1>5, <1>6

LEMMA ProgInvPartsInit == PartsInit => ProgInv
  BY ProgInvInit DEF PartsInit

LEMMA ProgInvPartsNext == ProgInv /\ [PartsNext]_allVars => ProgInv'
<1>1. PartsNext => Prog!Next \/ UNCHANGED progVars
  BY DEF PartsNext
<1>2. UNCHANGED allVars => UNCHANGED progVars
  BY DEF allVars
<1>. QED
  BY <1>1, <1>2, ProgInvStep, ProgInvKept

\* syscall.c's six tables agree over the life of a program, however many links hold it.
THEOREM HooksAreRespected == PartsSpec => []HooksRespected
<1>1. ProgInv => HooksRespected
  BY ProgMeans DEF HooksRespected
<1>. QED
  BY <1>1, ProgInvPartsInit, ProgInvPartsNext, PTL DEF PartsSpec
-----------------------------------------------------------------------------
(* verifier.c: the check of a prototype *)

\* What check_btf_id_ok() asks of the word of one argument that it looks at.
WordOk(a) ==
  /\ a.base = "PTR_TO_BTF_ID" => a.word # 0
  /\ a.base = "PTR_TO_SPIN_LOCK" => a.word = Proto!Poison
  /\ ~ Proto!IsTyped(a) => (a.word # 0 => Proto!IsMem(a) /\ Proto!IsFixed(a))

Before(p, i) == \A j \in 1 .. (i - 1) : ~ Proto!IsTyped(p[j])

\* The loop of check_btf_id_ok(), which ends at the first typed pointer, as one condition on
\* the arguments up to that one.
LEMMA ScanIs ==
  ASSUME NEW p
  PROVE  Proto!check_btf_id_ok(p) <=> \A i \in Proto!Index : Before(p, i) => WordOk(p[i])
<1>. DEFINE Id(i) == p[i].base = "PTR_TO_BTF_ID"
            Lock(i) == p[i].base = "PTR_TO_SPIN_LOCK"
            Set(i) == p[i].word # 0
            Poisoned(i) == p[i].word = Proto!Poison
            Plain(i) == Set(i) => Proto!IsMem(p[i]) /\ Proto!IsFixed(p[i])
            One(i, rest) == IF Id(i) THEN Set(i) ELSE IF Lock(i) THEN Poisoned(i)
                            ELSE Plain(i) /\ rest
            Body(f) == [i \in 1 .. 6 |-> IF i = 6 THEN TRUE ELSE One(i, f[i + 1])]
            V5 == One(5, TRUE)
            V4 == One(4, V5)
            V3 == One(3, V4)
            V2 == One(2, V3)
            V1 == One(1, V2)
            g == [i \in 1 .. 6 |-> IF i = 6 THEN TRUE ELSE IF i = 5 THEN V5
                                   ELSE IF i = 4 THEN V4 ELSE IF i = 3 THEN V3
                                   ELSE IF i = 2 THEN V2 ELSE V1]
            scan == CHOOSE f : f = Body(f)
<1>1. Proto!check_btf_id_ok(p) = scan[1]
  BY DEF Proto!check_btf_id_ok
<1>. HIDE DEF Id, Lock, Set, Poisoned, Plain
<1>2. g = Body(g)
  <2>1. /\ g[2] = V2 /\ g[3] = V3 /\ g[4] = V4 /\ g[5] = V5 /\ g[6] = TRUE
    OBVIOUS
  <2>2. ASSUME NEW i \in 1 .. 6  PROVE  g[i] = Body(g)[i]
    <3>1. CASE i = 6
      BY <3>1
    <3>2. CASE i = 5
      <4>1. g[i] = V5 /\ Body(g)[i] = One(5, g[6])
        BY <3>2
      <4>. QED
        BY <4>1, <2>1
    <3>3. CASE i = 4
      <4>1. g[i] = V4 /\ Body(g)[i] = One(4, g[5])
        BY <3>3
      <4>. QED
        BY <4>1, <2>1
    <3>4. CASE i = 3
      <4>1. g[i] = V3 /\ Body(g)[i] = One(3, g[4])
        BY <3>4
      <4>. QED
        BY <4>1, <2>1
    <3>5. CASE i = 2
      <4>1. g[i] = V2 /\ Body(g)[i] = One(2, g[3])
        BY <3>5
      <4>. QED
        BY <4>1, <2>1, ZenonT(60)
    <3>6. CASE i = 1
      <4>1. g[i] = V1 /\ Body(g)[i] = One(1, g[2])
        BY <3>6
      <4>. QED
        BY <4>1, <2>1, ZenonT(60)
    <3>7. i = 1 \/ i = 2 \/ i = 3 \/ i = 4 \/ i = 5 \/ i = 6
      OBVIOUS
    <3>. HIDE DEF g, Body
    <3>. QED
      BY <3>1, <3>2, <3>3, <3>4, <3>5, <3>6, <3>7
  <2>. DEFINE E(i) == g[i]
              B(i) == IF i = 6 THEN TRUE ELSE One(i, g[i + 1])
  <2>3. \A i \in 1 .. 6 : E(i) = B(i)
    BY <2>2, ZenonT(60)
  <2>4. g = [i \in 1 .. 6 |-> E(i)] /\ Body(g) = [i \in 1 .. 6 |-> B(i)]
    BY Zenon
  <2>. HIDE DEF E, B, g, Body
  <2>. QED
    BY <2>3, <2>4
<1>3. scan = Body(scan)
  <2>. HIDE DEF g, Body
  <2>. QED
    BY <1>2, Zenon
<1>. HIDE DEF scan
<1>4. /\ scan[1] = One(1, scan[2]) /\ scan[2] = One(2, scan[3]) /\ scan[3] = One(3, scan[4])
      /\ scan[4] = One(4, scan[5]) /\ scan[5] = One(5, scan[6]) /\ scan[6] = TRUE
  <2>. DEFINE B(i) == IF i = 6 THEN TRUE ELSE One(i, scan[i + 1])
  <2>1. scan = [i \in 1 .. 6 |-> B(i)]
    BY <1>3
  <2>2. \A i \in 1 .. 6 : scan[i] = B(i)
    <3>. HIDE DEF B
    <3>. QED
      BY <2>1
  <2>3. /\ scan[1] = B(1) /\ scan[2] = B(2) /\ scan[3] = B(3)
        /\ scan[4] = B(4) /\ scan[5] = B(5) /\ scan[6] = B(6)
    <3>. HIDE DEF B
    <3>. QED
      BY <2>2
  <2>4. B(6) = TRUE
    OBVIOUS
  <2>5. B(1) = One(1, scan[2])
    OBVIOUS
  <2>6. B(2) = One(2, scan[3])
    OBVIOUS
  <2>7. B(3) = One(3, scan[4])
    OBVIOUS
  <2>8. B(4) = One(4, scan[5])
    OBVIOUS
  <2>9. B(5) = One(5, scan[6])
    OBVIOUS
  <2>. HIDE DEF One, B
  <2>. QED
    BY <2>3, <2>4, <2>5, <2>6, <2>7, <2>8, <2>9
<1>5. scan[1] <=> \A i \in 1 .. 5 : Before(p, i) => WordOk(p[i])
  <2>1. \A i \in 1 .. 5 : Proto!IsTyped(p[i]) <=> Id(i) \/ Lock(i)
    BY DEF Proto!IsTyped, Id, Lock
  <2>2. \A i \in 1 .. 5 : ~ (Id(i) /\ Lock(i))
    BY DEF Id, Lock
  <2>3. \A i \in 1 .. 5 : WordOk(p[i]) <=> /\ Id(i) => Set(i)
                                           /\ Lock(i) => Poisoned(i)
                                           /\ ~ Id(i) /\ ~ Lock(i) => Plain(i)
    BY <2>1 DEF WordOk, Id, Lock, Set, Poisoned, Plain
  <2>. DEFINE T(i) == Proto!IsTyped(p[i])
              W(i) == WordOk(p[i])
              Last(i, rest) == W(i) /\ (T(i) \/ rest)
  <2>4. \A i \in 1 .. 5 : \A rest \in BOOLEAN : One(i, rest) <=> Last(i, rest)
    BY <2>1, <2>2, <2>3
  <2>5. scan[6] = TRUE /\ scan[5] \in BOOLEAN /\ scan[4] \in BOOLEAN /\ scan[3] \in BOOLEAN
        /\ scan[2] \in BOOLEAN /\ scan[1] \in BOOLEAN
    <3>1. \A i, rest : One(i, rest) \in BOOLEAN
      <4>. SUFFICES ASSUME NEW i, NEW rest  PROVE  One(i, rest) \in BOOLEAN
        OBVIOUS
      <4>1. CASE Id(i)
        BY <4>1, Zenon DEF Set
      <4>2. CASE ~ Id(i) /\ Lock(i)
        BY <4>2, Zenon DEF Poisoned
      <4>3. CASE ~ Id(i) /\ ~ Lock(i)
        BY <4>3, Zenon
      <4>. QED
        BY <4>1, <4>2, <4>3
    <3>. HIDE DEF One
    <3>. QED
      BY <1>4, <3>1, ZenonT(60)
  <2>6. /\ scan[1] <=> Last(1, scan[2])
        /\ scan[2] <=> Last(2, scan[3])
        /\ scan[3] <=> Last(3, scan[4])
        /\ scan[4] <=> Last(4, scan[5])
        /\ scan[5] <=> Last(5, scan[6])
    <3>. HIDE DEF One, Last
    <3>1. 1 \in 1 .. 5 /\ 2 \in 1 .. 5 /\ 3 \in 1 .. 5 /\ 4 \in 1 .. 5 /\ 5 \in 1 .. 5
      OBVIOUS
    <3>. QED
      BY <1>4, <2>4, <2>5, <3>1, Zenon
  <2>7. /\ Before(p, 1)
        /\ Before(p, 2) <=> ~ T(1)
        /\ Before(p, 3) <=> ~ T(1) /\ ~ T(2)
        /\ Before(p, 4) <=> ~ T(1) /\ ~ T(2) /\ ~ T(3)
        /\ Before(p, 5) <=> ~ T(1) /\ ~ T(2) /\ ~ T(3) /\ ~ T(4)
    <3>. HIDE DEF T
    <3>1. \A i : Before(p, i) <=> \A j \in 1 .. (i - 1) : ~ T(j)
      BY DEF Before, T
    <3>. QED
      BY <3>1
  <2>8. (\A i \in 1 .. 5 : Before(p, i) => WordOk(p[i])) <=>
          /\ Before(p, 1) => W(1)
          /\ Before(p, 2) => W(2)
          /\ Before(p, 3) => W(3)
          /\ Before(p, 4) => W(4)
          /\ Before(p, 5) => W(5)
    <3>. DEFINE Q(i) == Before(p, i) => WordOk(p[i])
    <3>1. (\A i \in 1 .. 5 : Q(i)) <=> Q(1) /\ Q(2) /\ Q(3) /\ Q(4) /\ Q(5)
      <4>. HIDE DEF Q
      <4>. QED
        OBVIOUS
    <3>. QED
      BY <3>1
  <2>. HIDE DEF T, W
  <2>. QED
    BY <2>5, <2>6, <2>7, <2>8
<1>. QED
  BY <1>1, <1>5 DEF Proto!Index

LEMMA AtMostOne ==
  ASSUME NEW S \in SUBSET Proto!Index
  PROVE  Proto!Cardinality(S) <= 1 <=> \A i, j \in S : i = j
<1>1. Proto!Cardinality(S) = Cardinality(S)
  BY DEF Proto!Cardinality, Cardinality
<1>2. IsFiniteSet(1 .. 5)
  <2>1. 1 \in Int /\ 5 \in Int
    OBVIOUS
  <2>. QED
    BY <2>1, FS_Interval, Zenon
<1>3. IsFiniteSet(S) /\ Cardinality(S) \in Nat
  BY <1>2, FS_Subset, FS_CardinalityType DEF Proto!Index
<1>4. ASSUME Cardinality(S) <= 1, NEW i \in S, NEW j \in S  PROVE  i = j
  <2>1. CASE Cardinality(S) = 0
    BY <2>1, <1>3, FS_EmptySet
  <2>2. CASE Cardinality(S) = 1
    <3>1. PICK x : S = {x}
      BY <2>2, <1>3, FS_Singleton
    <3>. QED
      BY <3>1
  <2>. QED
    BY <1>3, <1>4, <2>1, <2>2
<1>5. ASSUME \A i, j \in S : i = j  PROVE  Cardinality(S) <= 1
  <2>1. CASE S = {}
    BY <2>1, FS_EmptySet
  <2>2. CASE S # {}
    <3>1. PICK x : S = {x}
      BY <2>2, <1>5
    <3>. QED
      BY <3>1, FS_Singleton
  <2>. QED
    BY <2>1, <2>2
<1>. QED
  BY <1>1, <1>4, <1>5

LEMMA LeastReleased ==
  ASSUME NEW S \in SUBSET Proto!Index, S # {}
  PROVE  Proto!Min(S) \in S
<1>. DEFINE P(x) == \A y \in S : x <= y
<1>1. S \subseteq Nat
  BY DEF Proto!Index
<1>2. \E x \in S : P(x)
  BY <1>1, LeastNatural
<1>3. Proto!Min(S) = CHOOSE x \in S : P(x)
  BY DEF Proto!Min
<1>. HIDE DEF P
<1>. QED
  BY <1>2, <1>3, Zenon

\* check_func_proto(), its five checks side by side, and the register that it records.
LEMMA CheckIs ==
  ASSUME NEW p
  PROVE  LET v == Proto!check_func_proto(p)
         IN  /\ v.ok <=> /\ Proto!check_raw_mode_ok(p) /\ Proto!check_arg_pair_ok(p)
                         /\ Proto!check_mem_arg_rw_flag_ok(p)
                         /\ \A i, j \in Proto!Released(p) : i = j
                         /\ Proto!check_btf_id_ok(p)
             /\ v.regno \in 0 .. 5
             /\ v.ok => Proto!Released(p) = IF v.regno = 0 THEN {} ELSE {v.regno}
<1>. DEFINE v == Proto!check_func_proto(p)
            rel == Proto!check_proto_release_reg(p)
            R == Proto!Released(p)
            Sized3 == /\ Proto!check_raw_mode_ok(p) /\ Proto!check_arg_pair_ok(p)
                      /\ Proto!check_mem_arg_rw_flag_ok(p)
            btf == Proto!check_btf_id_ok(p)
<1>1. R \in SUBSET Proto!Index
  BY DEF Proto!Released
<1>2. /\ rel.ok <=> \A i, j \in R : i = j
      /\ rel.regno = IF R = {} THEN 0 ELSE Proto!Min(R)
  <2>1. rel.ok <=> Proto!Cardinality(R) <= 1
    BY DEF Proto!check_proto_release_reg
  <2>2. rel.regno = IF R = {} THEN 0 ELSE Proto!Min(R)
    BY DEF Proto!check_proto_release_reg
  <2>3. Proto!Cardinality(R) <= 1 <=> \A i, j \in R : i = j
    <3>. HIDE DEF R
    <3>. QED
      BY <1>1, AtMostOne
  <2>. QED
    BY <2>1, <2>2, <2>3
<1>3. /\ Sized3 => v.ok = (rel.ok /\ btf) /\ v.regno = rel.regno
      /\ ~ Sized3 => v.ok = FALSE /\ v.regno = 0
  <2>1. v = [ok |-> (IF Sized3 THEN rel ELSE Proto!Unwritten).ok /\ btf,
             regno |-> (IF Sized3 THEN rel ELSE Proto!Unwritten).regno]
    BY DEF Proto!check_func_proto
  <2>2. Proto!Unwritten.ok = FALSE /\ Proto!Unwritten.regno = 0
    BY DEF Proto!Unwritten
  <2>. HIDE DEF Sized3, rel, btf, v
  <2>3. v.ok = ((IF Sized3 THEN rel ELSE Proto!Unwritten).ok /\ btf)
        /\ v.regno = (IF Sized3 THEN rel ELSE Proto!Unwritten).regno
    BY <2>1, Zenon
  <2>4. CASE Sized3
    BY <2>3, <2>4, Zenon
  <2>5. CASE ~ Sized3
    BY <2>2, <2>3, <2>5, Zenon
  <2>. QED
    BY <2>4, <2>5
<1>. HIDE DEF v, rel, R, Sized3, btf
<1>4. R # {} => Proto!Min(R) \in R
  BY <1>1, LeastReleased
<1>5. v.regno \in 0 .. 5
  <2>1. v.regno = 0 \/ v.regno \in R
    BY <1>2, <1>3, <1>4
  <2>2. R \subseteq 0 .. 5 /\ 0 \in 0 .. 5
    BY <1>1 DEF Proto!Index
  <2>. QED
    BY <2>1, <2>2, Zenon
<1>6. v.ok <=> Sized3 /\ (\A i, j \in R : i = j) /\ btf
  BY <1>2, <1>3
<1>7. v.ok => R = IF v.regno = 0 THEN {} ELSE {v.regno}
  <2>. SUFFICES ASSUME v.ok  PROVE  R = IF v.regno = 0 THEN {} ELSE {v.regno}
    OBVIOUS
  <2>1. (\A i, j \in R : i = j) /\ v.regno = IF R = {} THEN 0 ELSE Proto!Min(R)
    BY <1>2, <1>3, <1>6
  <2>2. CASE R = {}
    BY <2>1, <2>2
  <2>3. CASE R # {}
    <3>1. v.regno \in R /\ R = {v.regno}
      BY <1>4, <2>1, <2>3
    <3>2. v.regno # 0
      BY <3>1, <1>1 DEF Proto!Index
    <3>. QED
      BY <3>1, <3>2
  <2>. QED
    BY <2>2, <2>3
<1>. QED
  BY <1>5, <1>6, <1>7 DEF v, R, Sized3, btf

LEMMA BothOrNeither ==
  ASSUME NEW p, NEW k
  PROVE  Proto!NextIsSize(p, k) \in BOOLEAN /\ Proto!IsFixed(p[k]) \in BOOLEAN
<1>1. Proto!NextIsSize(p, k) \in BOOLEAN
  <2>. DEFINE A == k + 1 \in Proto!Index
              B == Proto!arg_type_is_mem_size(p[k + 1])
  <2>1. Proto!NextIsSize(p, k) = (A /\ B)
    BY DEF Proto!NextIsSize
  <2>. HIDE DEF A, B
  <2>. QED
    BY <2>1, Zenon
<1>2. Proto!IsFixed(p[k]) \in BOOLEAN
  <2>. DEFINE A == "MEM_FIXED_SIZE" \in p[k].flags
  <2>1. Proto!IsFixed(p[k]) = (A /\ TRUE)
    BY DEF Proto!IsFixed
  <2>. HIDE DEF A
  <2>. QED
    BY <2>1, Zenon
<1>. QED
  BY <1>1, <1>2

\* Every buffer has one source of its size and every size measures a buffer.
LEMMA PairsMean ==
  ASSUME NEW p, Proto!check_arg_pair_ok(p), NEW i \in Proto!Index
  PROVE  /\ Proto!IsMem(p[i]) =>
              ((Proto!IsFixed(p[i]) /\ p[i].word # 0) # Proto!NextIsSize(p, i))
         /\ Proto!IsMem(p[i]) => (Proto!IsFixed(p[i]) <=> p[i].word # 0)
         /\ Proto!arg_type_is_mem_size(p[i]) =>
              /\ i > 1 /\ Proto!IsMem(p[i - 1])
              /\ ~ Proto!IsFixed(p[i - 1]) /\ p[i - 1].word = 0
<1>. DEFINE N(k) == Proto!NextIsSize(p, k)
            F(k) == Proto!IsFixed(p[k])
            W(k) == p[k].word # 0
            M(k) == Proto!IsMem(p[k])
            Z(k) == Proto!arg_type_is_mem_size(p[k])
<1>1. \A k : N(k) \in BOOLEAN /\ F(k) \in BOOLEAN /\ W(k) \in BOOLEAN
  BY BothOrNeither, Zenon
<1>2. ~ Z(1) /\ \A k \in Proto!Index : ~ Proto!check_args_pair_invalid(p, k)
  BY DEF Proto!check_arg_pair_ok
<1>3. \A k \in Proto!Index : IF M(k) THEN W(k) # N(k) /\ N(k) # F(k) ELSE ~ N(k)
  BY <1>2, Zenon DEF Proto!check_args_pair_invalid
<1>4. \A k \in Proto!Index : N(k) <=> k + 1 \in Proto!Index /\ Z(k + 1)
  BY DEF Proto!NextIsSize
<1>. HIDE DEF N, F, W, M, Z
<1>5. /\ M(i) => ((F(i) /\ W(i)) # N(i))
      /\ M(i) => (F(i) <=> W(i))
  BY <1>1, <1>3, Zenon
<1>6. ASSUME Z(i)  PROVE  i > 1 /\ M(i - 1) /\ ~ F(i - 1) /\ ~ W(i - 1)
  <2>1. i > 1 /\ i - 1 \in Proto!Index /\ (i - 1) + 1 = i
    BY <1>2, <1>6 DEF Proto!Index
  <2>2. N(i - 1)
    BY <1>4, <1>6, <2>1
  <2>3. M(i - 1) /\ W(i - 1) # N(i - 1) /\ N(i - 1) # F(i - 1)
    BY <1>3, <2>1, <2>2
  <2>4. ~ W(i - 1) /\ ~ F(i - 1)
    BY <1>1, <2>2, <2>3, Zenon
  <2>. QED
    BY <2>1, <2>3, <2>4
<1>. QED
  BY <1>5, <1>6 DEF N, F, W, M, Z

\* What the five checks ask for is no more than a well-formed prototype has.
LEMMA WellFormedPasses ==
  ASSUME NEW p, Proto!WellFormed(p)
  PROVE  Proto!check_func_proto(p).ok
<1>1. Proto!check_raw_mode_ok(p)
  <2>. DEFINE S == {i \in Proto!Index : Proto!arg_type_is_raw_mem(p[i])}
  <2>1. \A i, j \in S : i = j
    BY DEF Proto!WellFormed
  <2>2. S \in SUBSET Proto!Index
    OBVIOUS
  <2>3. Proto!check_raw_mode_ok(p) <=> Proto!Cardinality(S) <= 1
    BY DEF Proto!check_raw_mode_ok
  <2>. HIDE DEF S
  <2>. QED
    BY <2>1, <2>2, <2>3, AtMostOne
<1>2. Proto!check_arg_pair_ok(p)
  <2>1. ~ Proto!arg_type_is_mem_size(p[1])
    BY DEF Proto!WellFormed, Proto!Index
  <2>2. ASSUME NEW i \in Proto!Index  PROVE  ~ Proto!check_args_pair_invalid(p, i)
    <3>1. CASE Proto!IsMem(p[i])
      <4>1. /\ Proto!IsFixed(p[i]) <=> p[i].word # 0
            /\ Proto!IsFixed(p[i]) <=> ~ Proto!NextIsSize(p, i)
        BY <3>1 DEF Proto!WellFormed
      <4>2. Proto!NextIsSize(p, i) \in BOOLEAN /\ Proto!IsFixed(p[i]) \in BOOLEAN
        BY BothOrNeither, Zenon
      <4>3. (p[i].word # 0) # Proto!NextIsSize(p, i)
            /\ Proto!NextIsSize(p, i) # Proto!IsFixed(p[i])
        BY <4>1, <4>2, Zenon
      <4>. QED
        BY <3>1, <4>3, Zenon DEF Proto!check_args_pair_invalid
    <3>2. CASE ~ Proto!IsMem(p[i])
      <4>1. ASSUME Proto!NextIsSize(p, i)  PROVE  FALSE
        <5>1. i + 1 \in Proto!Index /\ Proto!arg_type_is_mem_size(p[i + 1])
          BY <4>1 DEF Proto!NextIsSize
        <5>2. Proto!IsMem(p[(i + 1) - 1]) /\ (i + 1) - 1 = i
          BY <5>1 DEF Proto!WellFormed, Proto!Index
        <5>. QED
          BY <3>2, <5>2
      <4>. QED
        BY <3>2, <4>1 DEF Proto!check_args_pair_invalid
    <3>. QED
      BY <3>1, <3>2
  <2>. QED
    BY <2>1, <2>2 DEF Proto!check_arg_pair_ok
<1>3. Proto!check_mem_arg_rw_flag_ok(p)
  BY DEF Proto!WellFormed, Proto!check_mem_arg_rw_flag_ok
<1>4. \A i, j \in Proto!Released(p) : i = j
  BY DEF Proto!WellFormed, Proto!Released
<1>5. Proto!check_btf_id_ok(p)
  <2>1. ASSUME NEW i \in Proto!Index  PROVE  WordOk(p[i])
    BY DEF Proto!WellFormed, WordOk, Proto!IsTyped, Proto!Poison
  <2>. QED
    BY <2>1, ScanIs
<1>. QED
  BY <1>1, <1>2, <1>3, <1>4, <1>5, CheckIs

\* The result that is kept is the one of the prototype that is kept.
ProtoInv ==
  /\ DOMAIN fn = Proto!Index
  /\ ret = "none" => release_regno = 0
  /\ ret # "none" =>
       LET v == Proto!check_func_proto(fn)
       IN  release_regno = v.regno /\ ret = IF v.ok THEN "ok" ELSE "EINVAL"

LEMMA ProtoInvMeans ==
  ProtoInv => /\ Proto!TypeOK /\ Proto!SizesKnown /\ Proto!ReleaseRegIsUnique
              /\ Proto!WordHasOneReading /\ Proto!WellFormedAccepted
<1>. SUFFICES ASSUME ProtoInv
              PROVE  /\ Proto!TypeOK /\ Proto!SizesKnown /\ Proto!ReleaseRegIsUnique
                     /\ Proto!WordHasOneReading /\ Proto!WellFormedAccepted
  OBVIOUS
<1>. DEFINE v == Proto!check_func_proto(fn)
<1>1. /\ v.regno \in 0 .. 5
      /\ ret \in {"none", "ok", "EINVAL"}
      /\ ret = "none" => release_regno = 0
      /\ ret # "none" => release_regno = v.regno /\ (ret = "ok" <=> v.ok)
  <2>1. v.regno \in 0 .. 5
    BY CheckIs
  <2>. HIDE DEF v
  <2>. QED
    BY <2>1 DEF ProtoInv, v
<1>2. Proto!TypeOK
  <2>1. release_regno \in 0 .. 5
    BY <1>1
  <2>. QED
    BY <1>1, <2>1 DEF Proto!TypeOK, ProtoInv
<1>3. Proto!WellFormedAccepted
  BY <1>1, WellFormedPasses DEF Proto!WellFormedAccepted, Proto!Accepted
<1>4. ASSUME Proto!Accepted
      PROVE  /\ Proto!check_arg_pair_ok(fn) /\ Proto!check_btf_id_ok(fn)
             /\ Proto!Released(fn) = IF release_regno = 0 THEN {} ELSE {release_regno}
  <2>1. v.ok /\ release_regno = v.regno
    BY <1>1, <1>4 DEF Proto!Accepted
  <2>. QED
    BY <2>1, CheckIs
<1>5. Proto!ReleaseRegIsUnique
  BY <1>4 DEF Proto!ReleaseRegIsUnique
<1>6. Proto!SizesKnown
  BY <1>4, PairsMean, Zenon DEF Proto!SizesKnown
<1>7. Proto!WordHasOneReading
  <2>. SUFFICES ASSUME Proto!Accepted, NEW i \in Proto!Scanned
                PROVE  fn[i].word # 0 <=>
                         Proto!IsTyped(fn[i]) \/ (Proto!IsMem(fn[i]) /\ Proto!IsFixed(fn[i]))
    BY DEF Proto!WordHasOneReading
  <2>1. i \in Proto!Index /\ Before(fn, i)
    BY DEF Proto!Scanned, Before
  <2>2. WordOk(fn[i])
    BY <1>4, <2>1, ScanIs
  <2>3. Proto!IsMem(fn[i]) => (Proto!IsFixed(fn[i]) <=> fn[i].word # 0)
    BY <1>4, <2>1, PairsMean
  <2>. QED
    BY <2>2, <2>3 DEF WordOk, Proto!IsTyped, Proto!Poison
<1>. QED
  BY <1>2, <1>3, <1>5, <1>6, <1>7

LEMMA ProtoInvInit == Proto!HelperInit => ProtoInv
  BY DEF Proto!HelperInit, Proto!Init, ProtoInv

LEMMA ProtoInvKept == ProtoInv /\ UNCHANGED <<fn, release_regno, ret>> => ProtoInv'
<1>. DEFINE v(p) == Proto!check_func_proto(p)
<1>1. ProtoInv <=> /\ DOMAIN fn = Proto!Index
                   /\ ret = "none" => release_regno = 0
                   /\ ret # "none" => /\ release_regno = v(fn).regno
                                      /\ ret = IF v(fn).ok THEN "ok" ELSE "EINVAL"
  BY DEF ProtoInv
<1>2. ProtoInv' <=> /\ DOMAIN fn' = Proto!Index
                    /\ ret' = "none" => release_regno' = 0
                    /\ ret' # "none" => /\ release_regno' = v(fn').regno
                                        /\ ret' = IF v(fn').ok THEN "ok" ELSE "EINVAL"
  BY DEF ProtoInv
<1>. HIDE DEF v
<1>. QED
  BY <1>1, <1>2

LEMMA ProtoInvCheck ==
  ASSUME NEW p, DOMAIN p = Proto!Index, Proto!Check(p)
  PROVE  ProtoInv'
<1>. DEFINE v == Proto!check_func_proto(p)
<1>1. /\ fn' = p /\ release_regno' = v.regno /\ ret' = IF v.ok THEN "ok" ELSE "EINVAL"
  BY DEF Proto!Check
<1>2. Proto!check_func_proto(fn') = v
  BY <1>1
<1>. HIDE DEF v
<1>3. ret' # "none"
  BY <1>1
<1>. QED
  BY <1>1, <1>2, <1>3 DEF ProtoInv

LEMMA ArgsTyped ==
  ASSUME NEW p
  PROVE  DOMAIN Proto!ArgsOf(p) = Proto!Index
  BY DEF Proto!ArgsOf

LEMMA ProtoInvStep ==
  ASSUME ProtoInv, Proto!Next \/ Proto!HelperNext
  PROVE  ProtoInv'
<1>1. CASE Proto!Next
  <2>0. PICK U : \E k \in [U -> Kinds] :
          Proto!Check([i \in Proto!Index |-> IF i \in U THEN k[i] ELSE Proto!DontCare])
    BY <1>1 DEF Proto!Next
  <2>1. PICK k \in [U -> Kinds] :
          Proto!Check([i \in Proto!Index |-> IF i \in U THEN k[i] ELSE Proto!DontCare])
    BY <2>0
  <2>. DEFINE p == [i \in Proto!Index |-> IF i \in U THEN k[i] ELSE Proto!DontCare]
  <2>2. DOMAIN p = Proto!Index /\ Proto!Check(p)
    BY <2>1
  <2>. HIDE DEF p
  <2>. QED
    BY <2>2, ProtoInvCheck
<1>2. CASE Proto!HelperNext
  <2>1. PICK f : Proto!Call(f)
    BY <1>2 DEF Proto!HelperNext
  <2>2. CASE proto' = "NULL"
    BY <2>1, <2>2, ProtoInvKept DEF Proto!Call, Proto!vars
  <2>3. CASE proto' # "NULL"
    <3>1. Proto!Check(Proto!ArgsOf(proto'))
      BY <2>1, <2>3 DEF Proto!Call
    <3>. QED
      BY <3>1, ArgsTyped, ProtoInvCheck
  <2>. QED
    BY <2>2, <2>3
<1>. QED
  BY <1>1, <1>2
-----------------------------------------------------------------------------
(* helpers.c: the prototypes it hands out *)

\* The kinds of argument in the tables of helpers.c.
Written(a) == a.flags \cap {"MEM_WRITE", "MEM_RDONLY"} # {}
Measured(a) == /\ Proto!IsMem(a) /\ ~ Proto!IsFixed(a) /\ a.word = 0
               /\ Written(a) /\ ~ Proto!arg_type_is_release(a)
Fixed(a) == /\ Proto!IsMem(a) /\ Proto!IsFixed(a) /\ a.word # 0
            /\ Written(a) /\ ~ Proto!arg_type_is_release(a)
Measure(a) == Proto!arg_type_is_mem_size(a) /\ a.word = 0
Pointer(a) == a.base = "PTR_TO_BTF_ID" /\ a.flags = {} /\ a.word # 0
Inert(a) == /\ ~ Proto!IsMem(a) /\ ~ Proto!arg_type_is_mem_size(a) /\ ~ Proto!IsTyped(a)
            /\ ~ Proto!arg_type_is_release(a) /\ a.word = 0

\* A prototype of such arguments passes if each measured buffer is followed by its size.
LEMMA ShapesPass ==
  ASSUME NEW p,
         \A i \in Proto!Index : \/ Measured(p[i]) \/ Fixed(p[i]) \/ Measure(p[i])
                                \/ Pointer(p[i]) \/ Inert(p[i]),
         ~ Measure(p[1]), ~ Measured(p[5]),
         \A i \in 1 .. 4 : Measured(p[i]) <=> Measure(p[i + 1]),
         \A i, j \in Proto!Index : Proto!arg_type_is_raw_mem(p[i])
                                     /\ Proto!arg_type_is_raw_mem(p[j]) => i = j
  PROVE  Proto!check_func_proto(p).ok
<1>1. Proto!check_raw_mode_ok(p)
  <2>. DEFINE S == {i \in Proto!Index : Proto!arg_type_is_raw_mem(p[i])}
  <2>1. \A i, j \in S : i = j
    OBVIOUS
  <2>2. S \in SUBSET Proto!Index
    OBVIOUS
  <2>3. Proto!check_raw_mode_ok(p) <=> Proto!Cardinality(S) <= 1
    BY DEF Proto!check_raw_mode_ok
  <2>. HIDE DEF S
  <2>. QED
    BY <2>1, <2>2, <2>3, AtMostOne
<1>2. \A i \in Proto!Index : Proto!arg_type_is_mem_size(p[i]) <=> Measure(p[i])
  BY DEF Measured, Fixed, Measure, Pointer, Inert, Proto!arg_type_is_mem_size, Proto!IsMem
<1>3. \A i \in Proto!Index : Proto!NextIsSize(p, i) <=> Measured(p[i])
  <2>. SUFFICES ASSUME NEW i \in Proto!Index
                PROVE  Proto!NextIsSize(p, i) <=> Measured(p[i])
    OBVIOUS
  <2>1. CASE i = 5
    BY <2>1 DEF Proto!NextIsSize, Proto!Index
  <2>2. CASE i \in 1 .. 4
    <3>1. i + 1 \in Proto!Index
      BY <2>2 DEF Proto!Index
    <3>. QED
      BY <2>2, <3>1, <1>2 DEF Proto!NextIsSize
  <2>. QED
    BY <2>1, <2>2 DEF Proto!Index
<1>4. Proto!check_arg_pair_ok(p)
  <2>1. ~ Proto!arg_type_is_mem_size(p[1])
    BY <1>2 DEF Proto!Index
  <2>2. ASSUME NEW i \in Proto!Index  PROVE  ~ Proto!check_args_pair_invalid(p, i)
    <3>. DEFINE N == Proto!NextIsSize(p, i)
                F == Proto!IsFixed(p[i])
                W == p[i].word # 0
    <3>1. Proto!IsMem(p[i]) => (N <=> ~ F) /\ (W <=> F)
      BY <1>3 DEF Measured, Fixed, Measure, Pointer, Inert, Proto!arg_type_is_mem_size,
                  Proto!IsMem
    <3>2. ~ Proto!IsMem(p[i]) => ~ N
      BY <1>3 DEF Measured
    <3>3. N \in BOOLEAN /\ F \in BOOLEAN
      BY BothOrNeither
    <3>4. Proto!IsMem(p[i]) => W # N /\ N # F
      BY <3>1, <3>3, Zenon
    <3>. QED
      BY <3>2, <3>4, Zenon DEF Proto!check_args_pair_invalid
  <2>. QED
    BY <2>1, <2>2 DEF Proto!check_arg_pair_ok
<1>5. Proto!check_mem_arg_rw_flag_ok(p)
  BY DEF Proto!check_mem_arg_rw_flag_ok, Measured, Fixed, Measure, Pointer, Inert, Written,
         Proto!arg_type_is_mem_size, Proto!IsMem
<1>6. Proto!Released(p) = {}
  BY DEF Proto!Released, Measured, Fixed, Measure, Pointer, Inert, Proto!arg_type_is_release,
         Proto!arg_type_is_mem_size
<1>7. Proto!check_btf_id_ok(p)
  <2>1. ASSUME NEW i \in Proto!Index  PROVE  WordOk(p[i])
    BY DEF WordOk, Measured, Fixed, Measure, Pointer, Inert, Proto!IsTyped, Proto!IsMem,
           Proto!arg_type_is_mem_size
  <2>. QED
    BY <2>1, ScanIs
<1>. QED
  BY <1>1, <1>4, <1>5, <1>6, <1>7, CheckIs

\* Which table a prototype's arguments are in, as Declared() looks them up.
LEMMA Tables ==
  /\ DOMAIN Proto!MapArgs = {"map_lookup_elem", "map_update_elem", "map_delete_elem",
       "map_push_elem", "map_pop_elem", "map_peek_elem", "map_lookup_percpu_elem"}
  /\ DOMAIN Proto!StringArgs = {"get_current_comm", "strtol", "strtoul", "strncmp",
       "get_ns_current_pid_tgid"}
  /\ DOMAIN Proto!TaskArgs = {"spin_lock", "spin_unlock", "get_current_ancestor_cgroup_id",
       "event_output_data", "copy_from_user", "copy_from_user_task", "per_cpu_ptr",
       "this_cpu_ptr", "snprintf", "kptr_xchg"}
  BY DEF Proto!MapArgs, Proto!StringArgs, Proto!TaskArgs

\* The five arguments of a prototype that declares the sequence s.
LEMMA FiveArgs ==
  ASSUME NEW p, NEW s, Proto!Declared(p) = s, NEW i \in Proto!Index
  PROVE  Proto!ArgsOf(p)[i] = IF i <= Len(s) THEN s[i] ELSE Proto!DontCare
  BY DEF Proto!ArgsOf

LEMMA InertArgs ==
  /\ Inert(Proto!DontCare)
  /\ \A b \in {"CONST_MAP_PTR", "PTR_TO_MAP_KEY", "PTR_TO_MAP_VALUE", "ANYTHING",
               "PTR_TO_CONST_STR", "PTR_TO_CTX", "PTR_TO_PERCPU_BTF_ID"} : Inert(Proto!Plain(b))
  /\ Inert(Proto!Arg("PTR_TO_MAP_VALUE", {"MEM_UNINIT", "MEM_WRITE"}, 0))
  /\ \A b \in {"CONST_SIZE", "CONST_SIZE_OR_ZERO"} : Measure(Proto!Plain(b))
  BY DEF Inert, Measure, Proto!DontCare, Proto!Plain, Proto!Arg, Proto!IsMem, Proto!IsTyped,
         Proto!arg_type_is_mem_size, Proto!arg_type_is_release

LEMMA BufferArgs ==
  /\ Measured(Proto!UninitMem) /\ Fixed(Proto!FixedMem)
  /\ Pointer(Proto!Arg("PTR_TO_BTF_ID", {}, 2))
  /\ \A fs \in {{"MEM_RDONLY"}, {"PTR_MAYBE_NULL", "MEM_WRITE"},
                {"PTR_MAYBE_NULL", "MEM_RDONLY"}} :
       Measured(Proto!Mem(fs)) /\ ~ Proto!arg_type_is_raw_mem(Proto!Mem(fs))
<1>1. Measured(Proto!UninitMem)
  BY DEF Measured, Written, Proto!UninitMem, Proto!Mem, Proto!Arg, Proto!IsMem, Proto!IsFixed,
         Proto!arg_type_is_release
<1>2. Fixed(Proto!FixedMem)
  BY DEF Fixed, Written, Proto!FixedMem, Proto!Arg, Proto!IsMem, Proto!IsFixed,
         Proto!arg_type_is_release
<1>3. Pointer(Proto!Arg("PTR_TO_BTF_ID", {}, 2))
  BY DEF Pointer, Proto!Arg
<1>4. ASSUME NEW fs \in {{"MEM_RDONLY"}, {"PTR_MAYBE_NULL", "MEM_WRITE"},
                         {"PTR_MAYBE_NULL", "MEM_RDONLY"}}
      PROVE  Measured(Proto!Mem(fs)) /\ ~ Proto!arg_type_is_raw_mem(Proto!Mem(fs))
  <2>1. /\ "MEM_FIXED_SIZE" \notin fs /\ "OBJ_RELEASE" \notin fs /\ "MEM_UNINIT" \notin fs
        /\ fs \cap {"MEM_WRITE", "MEM_RDONLY"} # {}
    OBVIOUS
  <2>. QED
    BY <2>1 DEF Measured, Written, Proto!Mem, Proto!Arg, Proto!IsMem, Proto!IsFixed,
           Proto!arg_type_is_release, Proto!arg_type_is_raw_mem
<1>. QED
  BY <1>1, <1>2, <1>3, <1>4

\* The kinds exclude one another.
LEMMA KindsApart ==
  ASSUME NEW a
  PROVE  /\ Measured(a) => ~ Measure(a) /\ ~ Inert(a) /\ ~ Fixed(a) /\ ~ Pointer(a)
         /\ Inert(a) \/ Pointer(a) \/ Measure(a) =>
              ~ Measured(a) /\ ~ Proto!arg_type_is_raw_mem(a)
         /\ Inert(a) \/ Pointer(a) \/ Fixed(a) => ~ Measure(a)
         /\ Fixed(a) => ~ Measured(a)
  BY DEF Measured, Fixed, Measure, Inert, Pointer, Proto!IsMem, Proto!IsFixed,
         Proto!arg_type_is_mem_size, Proto!arg_type_is_raw_mem

LEMMA InertPass ==
  ASSUME NEW p, \A i \in Proto!Index : Inert(p[i])
  PROVE  Proto!check_func_proto(p).ok
<1>1. \A i \in Proto!Index : /\ ~ Measured(p[i]) /\ ~ Measure(p[i])
                             /\ ~ Proto!arg_type_is_raw_mem(p[i])
  BY KindsApart
<1>2. 1 \in Proto!Index /\ 5 \in Proto!Index /\ \A i \in 1 .. 4 : i \in Proto!Index
                                                                  /\ i + 1 \in Proto!Index
  BY DEF Proto!Index
<1>. QED
  BY <1>1, <1>2, ShapesPass

\* The same from the five arguments one by one.
LEMMA FivePass ==
  ASSUME NEW p,
         \A i \in {1, 2, 3, 4, 5} : \/ Measured(p[i]) \/ Fixed(p[i]) \/ Measure(p[i])
                                    \/ Pointer(p[i]) \/ Inert(p[i]),
         ~ Measure(p[1]), ~ Measured(p[5]),
         Measured(p[1]) <=> Measure(p[2]), Measured(p[2]) <=> Measure(p[3]),
         Measured(p[3]) <=> Measure(p[4]), Measured(p[4]) <=> Measure(p[5]),
         NEW r, \A i \in {1, 2, 3, 4, 5} : Proto!arg_type_is_raw_mem(p[i]) => i = r
  PROVE  Proto!check_func_proto(p).ok
<1>1. Proto!Index = {1, 2, 3, 4, 5} /\ 1 .. 4 = {1, 2, 3, 4}
  BY DEF Proto!Index
<1>2. \A i \in 1 .. 4 : Measured(p[i]) <=> Measure(p[i + 1])
  <2>. SUFFICES ASSUME NEW i \in 1 .. 4  PROVE  Measured(p[i]) <=> Measure(p[i + 1])
    OBVIOUS
  <2>1. CASE i = 1
    BY <2>1
  <2>2. CASE i = 2
    BY <2>2
  <2>3. CASE i = 3
    BY <2>3
  <2>4. CASE i = 4
    BY <2>4
  <2>. QED
    BY <2>1, <2>2, <2>3, <2>4
<1>. QED
  BY <1>1, <1>2, ShapesPass

\* The prototypes that declare buffers.
BufferProtos == {"get_current_comm", "copy_from_user", "strtol", "strtoul", "strncmp",
                 "get_ns_current_pid_tgid", "copy_from_user_task", "snprintf"}

LEMMA BuffersPass ==
  ASSUME NEW p \in BufferProtos
  PROVE  Proto!check_func_proto(Proto!ArgsOf(p)).ok
<1>. DEFINE q == Proto!ArgsOf(p)
            A(s, i) == IF i <= Len(s) THEN s[i] ELSE Proto!DontCare
<1>0. ASSUME NEW s, Proto!Declared(p) = s
      PROVE  /\ q[1] = A(s, 1) /\ q[2] = A(s, 2) /\ q[3] = A(s, 3)
             /\ q[4] = A(s, 4) /\ q[5] = A(s, 5)
  BY <1>0, FiveArgs DEF Proto!Index
<1>. HIDE DEF q
<1>1. CASE p = "get_current_comm"
  <2>. DEFINE s == <<Proto!UninitMem, Proto!Plain("CONST_SIZE")>>
  <2>1. Proto!Declared(p) = s
    BY <1>1, Tables DEF Proto!Declared, Proto!StringArgs
  <2>2. /\ q[1] = Proto!UninitMem
        /\ q[2] = Proto!Plain("CONST_SIZE")
        /\ q[3] = Proto!DontCare
        /\ q[4] = Proto!DontCare
        /\ q[5] = Proto!DontCare
    <3>1. /\ q[1] = A(s, 1) /\ q[2] = A(s, 2) /\ q[3] = A(s, 3)
          /\ q[4] = A(s, 4) /\ q[5] = A(s, 5)
      BY <1>0, <2>1
    <3>2. Len(s) = 2
      OBVIOUS
    <3>. QED
      BY <3>1, <3>2
  <2>3. /\ Measured(q[1]) /\ Measure(q[2]) /\ Inert(q[3])
        /\ Inert(q[4]) /\ Inert(q[5])
    BY <2>2, InertArgs, BufferArgs
  <2>4. \A i \in {1, 2, 3, 4, 5} : Proto!arg_type_is_raw_mem(q[i]) => i = 1
    BY <2>2, <2>3, BufferArgs, KindsApart
  <2>. QED
    BY <2>3, <2>4, KindsApart, FivePass DEF q
<1>2. CASE p = "copy_from_user"
  <2>. DEFINE s == <<Proto!UninitMem, Proto!Plain("CONST_SIZE_OR_ZERO"), Proto!Plain("ANYTHING")>>
  <2>1. Proto!Declared(p) = s
    BY <1>2, Tables DEF Proto!Declared, Proto!TaskArgs
  <2>2. /\ q[1] = Proto!UninitMem
        /\ q[2] = Proto!Plain("CONST_SIZE_OR_ZERO")
        /\ q[3] = Proto!Plain("ANYTHING")
        /\ q[4] = Proto!DontCare
        /\ q[5] = Proto!DontCare
    <3>1. /\ q[1] = A(s, 1) /\ q[2] = A(s, 2) /\ q[3] = A(s, 3)
          /\ q[4] = A(s, 4) /\ q[5] = A(s, 5)
      BY <1>0, <2>1
    <3>2. Len(s) = 3
      OBVIOUS
    <3>. QED
      BY <3>1, <3>2
  <2>3. /\ Measured(q[1]) /\ Measure(q[2]) /\ Inert(q[3])
        /\ Inert(q[4]) /\ Inert(q[5])
    BY <2>2, InertArgs, BufferArgs
  <2>4. \A i \in {1, 2, 3, 4, 5} : Proto!arg_type_is_raw_mem(q[i]) => i = 1
    BY <2>2, <2>3, BufferArgs, KindsApart
  <2>. QED
    BY <2>3, <2>4, KindsApart, FivePass DEF q
<1>3. CASE p = "strtol"
  <2>. DEFINE s == <<Proto!Mem({"MEM_RDONLY"}), Proto!Plain("CONST_SIZE"), Proto!Plain("ANYTHING"),
            Proto!FixedMem>>
  <2>1. Proto!Declared(p) = s
    BY <1>3, Tables DEF Proto!Declared, Proto!StringArgs
  <2>2. /\ q[1] = Proto!Mem({"MEM_RDONLY"})
        /\ q[2] = Proto!Plain("CONST_SIZE")
        /\ q[3] = Proto!Plain("ANYTHING")
        /\ q[4] = Proto!FixedMem
        /\ q[5] = Proto!DontCare
    <3>1. /\ q[1] = A(s, 1) /\ q[2] = A(s, 2) /\ q[3] = A(s, 3)
          /\ q[4] = A(s, 4) /\ q[5] = A(s, 5)
      BY <1>0, <2>1
    <3>2. Len(s) = 4
      OBVIOUS
    <3>. QED
      BY <3>1, <3>2
  <2>3. /\ Measured(q[1]) /\ Measure(q[2]) /\ Inert(q[3])
        /\ Fixed(q[4]) /\ Inert(q[5])
    BY <2>2, InertArgs, BufferArgs
  <2>4. \A i \in {1, 2, 3, 4, 5} : Proto!arg_type_is_raw_mem(q[i]) => i = 4
    BY <2>2, <2>3, BufferArgs, KindsApart
  <2>. QED
    BY <2>3, <2>4, KindsApart, FivePass DEF q
<1>4. CASE p = "strtoul"
  <2>. DEFINE s == <<Proto!Mem({"MEM_RDONLY"}), Proto!Plain("CONST_SIZE"), Proto!Plain("ANYTHING"),
            Proto!FixedMem>>
  <2>1. Proto!Declared(p) = s
    BY <1>4, Tables DEF Proto!Declared, Proto!StringArgs
  <2>2. /\ q[1] = Proto!Mem({"MEM_RDONLY"})
        /\ q[2] = Proto!Plain("CONST_SIZE")
        /\ q[3] = Proto!Plain("ANYTHING")
        /\ q[4] = Proto!FixedMem
        /\ q[5] = Proto!DontCare
    <3>1. /\ q[1] = A(s, 1) /\ q[2] = A(s, 2) /\ q[3] = A(s, 3)
          /\ q[4] = A(s, 4) /\ q[5] = A(s, 5)
      BY <1>0, <2>1
    <3>2. Len(s) = 4
      OBVIOUS
    <3>. QED
      BY <3>1, <3>2
  <2>3. /\ Measured(q[1]) /\ Measure(q[2]) /\ Inert(q[3])
        /\ Fixed(q[4]) /\ Inert(q[5])
    BY <2>2, InertArgs, BufferArgs
  <2>4. \A i \in {1, 2, 3, 4, 5} : Proto!arg_type_is_raw_mem(q[i]) => i = 4
    BY <2>2, <2>3, BufferArgs, KindsApart
  <2>. QED
    BY <2>3, <2>4, KindsApart, FivePass DEF q
<1>5. CASE p = "strncmp"
  <2>. DEFINE s == <<Proto!Mem({"MEM_RDONLY"}), Proto!Plain("CONST_SIZE"), Proto!Plain("PTR_TO_CONST_STR")>>
  <2>1. Proto!Declared(p) = s
    BY <1>5, Tables DEF Proto!Declared, Proto!StringArgs
  <2>2. /\ q[1] = Proto!Mem({"MEM_RDONLY"})
        /\ q[2] = Proto!Plain("CONST_SIZE")
        /\ q[3] = Proto!Plain("PTR_TO_CONST_STR")
        /\ q[4] = Proto!DontCare
        /\ q[5] = Proto!DontCare
    <3>1. /\ q[1] = A(s, 1) /\ q[2] = A(s, 2) /\ q[3] = A(s, 3)
          /\ q[4] = A(s, 4) /\ q[5] = A(s, 5)
      BY <1>0, <2>1
    <3>2. Len(s) = 3
      OBVIOUS
    <3>. QED
      BY <3>1, <3>2
  <2>3. /\ Measured(q[1]) /\ Measure(q[2]) /\ Inert(q[3])
        /\ Inert(q[4]) /\ Inert(q[5])
    BY <2>2, InertArgs, BufferArgs
  <2>4. \A i \in {1, 2, 3, 4, 5} : Proto!arg_type_is_raw_mem(q[i]) => i = 1
    BY <2>2, <2>3, BufferArgs, KindsApart
  <2>. QED
    BY <2>3, <2>4, KindsApart, FivePass DEF q
<1>6. CASE p = "get_ns_current_pid_tgid"
  <2>. DEFINE s == <<Proto!Plain("ANYTHING"), Proto!Plain("ANYTHING"), Proto!UninitMem,
            Proto!Plain("CONST_SIZE")>>
  <2>1. Proto!Declared(p) = s
    BY <1>6, Tables DEF Proto!Declared, Proto!StringArgs
  <2>2. /\ q[1] = Proto!Plain("ANYTHING")
        /\ q[2] = Proto!Plain("ANYTHING")
        /\ q[3] = Proto!UninitMem
        /\ q[4] = Proto!Plain("CONST_SIZE")
        /\ q[5] = Proto!DontCare
    <3>1. /\ q[1] = A(s, 1) /\ q[2] = A(s, 2) /\ q[3] = A(s, 3)
          /\ q[4] = A(s, 4) /\ q[5] = A(s, 5)
      BY <1>0, <2>1
    <3>2. Len(s) = 4
      OBVIOUS
    <3>. QED
      BY <3>1, <3>2
  <2>3. /\ Inert(q[1]) /\ Inert(q[2]) /\ Measured(q[3])
        /\ Measure(q[4]) /\ Inert(q[5])
    BY <2>2, InertArgs, BufferArgs
  <2>4. \A i \in {1, 2, 3, 4, 5} : Proto!arg_type_is_raw_mem(q[i]) => i = 3
    BY <2>2, <2>3, BufferArgs, KindsApart
  <2>. QED
    BY <2>3, <2>4, KindsApart, FivePass DEF q
<1>7. CASE p = "copy_from_user_task"
  <2>. DEFINE s == <<Proto!UninitMem, Proto!Plain("CONST_SIZE_OR_ZERO"), Proto!Plain("ANYTHING"),
            Proto!Arg("PTR_TO_BTF_ID", {}, 2), Proto!Plain("ANYTHING")>>
  <2>1. Proto!Declared(p) = s
    BY <1>7, Tables DEF Proto!Declared, Proto!TaskArgs
  <2>2. /\ q[1] = Proto!UninitMem
        /\ q[2] = Proto!Plain("CONST_SIZE_OR_ZERO")
        /\ q[3] = Proto!Plain("ANYTHING")
        /\ q[4] = Proto!Arg("PTR_TO_BTF_ID", {}, 2)
        /\ q[5] = Proto!Plain("ANYTHING")
    <3>1. /\ q[1] = A(s, 1) /\ q[2] = A(s, 2) /\ q[3] = A(s, 3)
          /\ q[4] = A(s, 4) /\ q[5] = A(s, 5)
      BY <1>0, <2>1
    <3>2. Len(s) = 5
      OBVIOUS
    <3>. QED
      BY <3>1, <3>2
  <2>3. /\ Measured(q[1]) /\ Measure(q[2]) /\ Inert(q[3])
        /\ Pointer(q[4]) /\ Inert(q[5])
    BY <2>2, InertArgs, BufferArgs
  <2>4. \A i \in {1, 2, 3, 4, 5} : Proto!arg_type_is_raw_mem(q[i]) => i = 1
    BY <2>2, <2>3, BufferArgs, KindsApart
  <2>. QED
    BY <2>3, <2>4, KindsApart, FivePass DEF q
<1>8. CASE p = "snprintf"
  <2>. DEFINE s == <<Proto!Mem({"PTR_MAYBE_NULL", "MEM_WRITE"}), Proto!Plain("CONST_SIZE_OR_ZERO"),
            Proto!Plain("PTR_TO_CONST_STR"), Proto!Mem({"PTR_MAYBE_NULL", "MEM_RDONLY"}),
            Proto!Plain("CONST_SIZE_OR_ZERO")>>
  <2>1. Proto!Declared(p) = s
    BY <1>8, Tables DEF Proto!Declared, Proto!TaskArgs
  <2>2. /\ q[1] = Proto!Mem({"PTR_MAYBE_NULL", "MEM_WRITE"})
        /\ q[2] = Proto!Plain("CONST_SIZE_OR_ZERO")
        /\ q[3] = Proto!Plain("PTR_TO_CONST_STR")
        /\ q[4] = Proto!Mem({"PTR_MAYBE_NULL", "MEM_RDONLY"})
        /\ q[5] = Proto!Plain("CONST_SIZE_OR_ZERO")
    <3>1. /\ q[1] = A(s, 1) /\ q[2] = A(s, 2) /\ q[3] = A(s, 3)
          /\ q[4] = A(s, 4) /\ q[5] = A(s, 5)
      BY <1>0, <2>1
    <3>2. Len(s) = 5
      OBVIOUS
    <3>. QED
      BY <3>1, <3>2
  <2>3. /\ Measured(q[1]) /\ Measure(q[2]) /\ Inert(q[3])
        /\ Measured(q[4]) /\ Measure(q[5])
    BY <2>2, InertArgs, BufferArgs
  <2>4. \A i \in {1, 2, 3, 4, 5} : Proto!arg_type_is_raw_mem(q[i]) => i = 1
    BY <2>2, <2>3, BufferArgs, KindsApart
  <2>. QED
    BY <2>3, <2>4, KindsApart, FivePass DEF q
<1>. QED
  BY <1>1, <1>2, <1>3, <1>4, <1>5, <1>6, <1>7, <1>8 DEF BufferProtos

\* Three prototypes lack the annotation that their typed pointer needs.
LEMMA UnannotatedRefused ==
  ASSUME NEW p \in {"spin_lock", "spin_unlock", "kptr_xchg"}
  PROVE  ~ Proto!check_func_proto(Proto!ArgsOf(p)).ok
<1>. DEFINE q == Proto!ArgsOf(p)
<1>1. CASE p \in {"spin_lock", "spin_unlock"}
  <2>1. Proto!Declared(p) = <<Proto!Plain("PTR_TO_SPIN_LOCK")>>
    BY <1>1, Tables DEF Proto!Declared, Proto!TaskArgs
  <2>2. q[1] = Proto!Plain("PTR_TO_SPIN_LOCK")
    BY <2>1, FiveArgs DEF Proto!Index
  <2>3. ~ WordOk(q[1]) /\ Before(q, 1)
    BY <2>2 DEF WordOk, Before, Proto!Plain, Proto!Arg, Proto!Poison
  <2>. HIDE DEF q
  <2>4. ~ Proto!check_btf_id_ok(q)
    BY <2>3, ScanIs DEF Proto!Index
  <2>. QED
    BY <2>4, CheckIs DEF q
<1>2. CASE p = "kptr_xchg"
  <2>. DEFINE s == <<Proto!Plain("KPTR_XCHG_DEST"),
                     Proto!Arg("PTR_TO_BTF_ID", {"PTR_MAYBE_NULL", "OBJ_RELEASE"}, 0)>>
  <2>1. Proto!Declared(p) = s
    BY <1>2, Tables DEF Proto!Declared, Proto!TaskArgs
  <2>2. /\ q[1] = Proto!Plain("KPTR_XCHG_DEST")
        /\ q[2] = Proto!Arg("PTR_TO_BTF_ID", {"PTR_MAYBE_NULL", "OBJ_RELEASE"}, 0)
    BY <2>1, FiveArgs DEF Proto!Index
  <2>3. ~ WordOk(q[2]) /\ ~ Proto!IsTyped(q[1])
    BY <2>2 DEF WordOk, Proto!IsTyped, Proto!Plain, Proto!Arg
  <2>. HIDE DEF q
  <2>4. Before(q, 2)
    BY <2>3 DEF Before
  <2>5. ~ Proto!check_btf_id_ok(q)
    BY <2>3, <2>4, ScanIs DEF Proto!Index
  <2>. QED
    BY <2>5, CheckIs DEF q
<1>. QED
  BY <1>1, <1>2

\* The others declare nothing that is checked.
LEMMA OthersPass ==
  ASSUME NEW p, p \notin BufferProtos,
         p \notin {"spin_lock", "spin_unlock", "kptr_xchg", "event_output_data"}
  PROVE  Proto!check_func_proto(Proto!ArgsOf(p)).ok
<1>. DEFINE Harmless(s) == \A i \in 1 .. Len(s) : Inert(s[i])
<1>1. ASSUME NEW s, Proto!Declared(p) = s, Len(s) \in Nat, Harmless(s)
      PROVE  Proto!check_func_proto(Proto!ArgsOf(p)).ok
  <2>1. \A i \in Proto!Index : Inert(Proto!ArgsOf(p)[i])
    BY <1>1, FiveArgs, InertArgs DEF Proto!Index
  <2>. QED
    BY <2>1, InertPass
<1>2. CASE p \in DOMAIN Proto!MapArgs
  <2>1. Proto!Declared(p) = Proto!MapArgs[p]
    BY <1>2, Tables DEF Proto!Declared
  <2>2. Len(Proto!MapArgs[p]) \in Nat /\ Harmless(Proto!MapArgs[p])
    <3>1. CASE p = "map_lookup_elem"
      BY <3>1, InertArgs DEF Proto!MapArgs
    <3>2. CASE p = "map_update_elem"
      BY <3>2, InertArgs DEF Proto!MapArgs
    <3>3. CASE p = "map_delete_elem"
      BY <3>3, InertArgs DEF Proto!MapArgs
    <3>4. CASE p = "map_push_elem"
      BY <3>4, InertArgs DEF Proto!MapArgs
    <3>5. CASE p = "map_pop_elem"
      BY <3>5, InertArgs DEF Proto!MapArgs
    <3>6. CASE p = "map_peek_elem"
      BY <3>6, InertArgs DEF Proto!MapArgs
    <3>7. CASE p = "map_lookup_percpu_elem"
      BY <3>7, InertArgs DEF Proto!MapArgs
    <3>. QED
      BY <1>2, Tables, <3>1, <3>2, <3>3, <3>4, <3>5, <3>6, <3>7
  <2>. HIDE DEF Harmless
  <2>. QED
    BY <1>1, <2>1, <2>2
<1>3. CASE p \in {"get_current_ancestor_cgroup_id", "per_cpu_ptr", "this_cpu_ptr"}
  <2>1. Proto!Declared(p) = Proto!TaskArgs[p]
    BY <1>3, Tables DEF Proto!Declared
  <2>2. Len(Proto!TaskArgs[p]) \in Nat /\ Harmless(Proto!TaskArgs[p])
    <3>1. CASE p = "get_current_ancestor_cgroup_id"
      BY <3>1, InertArgs DEF Proto!TaskArgs
    <3>2. CASE p = "per_cpu_ptr"
      BY <3>2, InertArgs DEF Proto!TaskArgs
    <3>3. CASE p = "this_cpu_ptr"
      BY <3>3, InertArgs DEF Proto!TaskArgs
    <3>. QED
      BY <1>3, <3>1, <3>2, <3>3
  <2>. HIDE DEF Harmless
  <2>. QED
    BY <1>1, <2>1, <2>2
<1>4. CASE /\ p \notin DOMAIN Proto!MapArgs
           /\ p \notin {"get_current_ancestor_cgroup_id", "per_cpu_ptr", "this_cpu_ptr"}
  <2>1. p \notin DOMAIN Proto!StringArgs /\ p \notin DOMAIN Proto!TaskArgs
    BY <1>4, Tables DEF BufferProtos
  <2>2. Proto!Declared(p) = << >>
    BY <1>4, <2>1 DEF Proto!Declared
  <2>3. Len(<< >>) \in Nat /\ Harmless(<< >>)
    OBVIOUS
  <2>. HIDE DEF Harmless
  <2>. QED
    BY <1>1, <2>2, <2>3
<1>. QED
  BY <1>2, <1>3, <1>4

Helpers == Proto!BaseHelpers \cup Proto!BpfHelpers \cup Proto!PerfmonHelpers

\* No alias leads to one of the three, or away from them.
LEMMA AliasesHarmless ==
  ASSUME NEW f \in Helpers, NEW s \in BOOLEAN
  PROVE  /\ Proto!ProtoOf(f, s) # "NULL" /\ Proto!ProtoOf(f, s) # "event_output_data"
         /\ Proto!ProtoOf(f, s) \in {"spin_lock", "spin_unlock", "kptr_xchg"} <=>
              f \in {"spin_lock", "spin_unlock", "kptr_xchg"}
         /\ f # "unspec"
<1>1. f # "NULL" /\ f # "event_output_data" /\ f # "unspec"
  BY Tables DEF Helpers, Proto!BaseHelpers, Proto!BpfHelpers, Proto!PerfmonHelpers
<1>2. Proto!ProtoOf(f, s) \in {f, "get_raw_smp_processor_id", "probe_read_user",
                               "probe_read_user_str", "get_task_stack_sleepable"}
  BY DEF Proto!ProtoOf
<1>3. f \in {"spin_lock", "spin_unlock", "kptr_xchg"} => Proto!ProtoOf(f, s) = f
  BY DEF Proto!ProtoOf
<1>. QED
  BY <1>1, <1>2, <1>3

\* Without CAP_PERFMON no name leads to a prototype that reads other memory.
LEMMA NoForeignReads ==
  ASSUME NEW f \in Proto!BaseHelpers \cup Proto!BpfHelpers, NEW s \in BOOLEAN
  PROVE  Proto!ProtoOf(f, s) \notin Proto!ReadsForeignMemory
<1>1. /\ f \notin {"trace_printk", "trace_vprintk", "get_task_stack"}
      /\ f \notin Proto!ReadsForeignMemory
  BY Tables DEF Proto!BaseHelpers, Proto!BpfHelpers, Proto!ReadsForeignMemory
<1>2. Proto!ProtoOf(f, s) \in {f, "get_raw_smp_processor_id"}
  BY <1>1 DEF Proto!ProtoOf
<1>. QED
  BY <1>1, <1>2 DEF Proto!ReadsForeignMemory

\* The prototype is the one of the helper asked for, and what was checked is its arguments.
HelperInv ==
  /\ caps \in SUBSET Proto!Capability /\ sleepable \in BOOLEAN
  /\ func_id = "unspec" => proto = "NULL"
  /\ func_id # "unspec" =>
       func_id \in Helpers /\ proto = Proto!bpf_base_func_proto(func_id, caps, sleepable)
  /\ part = "helpers" /\ ret # "none" => proto # "NULL" /\ fn = Proto!ArgsOf(proto)

LEMMA HelperInvInit == Proto!HelperInit => HelperInv
  BY DEF Proto!HelperInit, Proto!Init, HelperInv

LEMMA HelperInvKept == HelperInv /\ UNCHANGED <<part, protoVars>> => HelperInv'
<1>. DEFINE b(f, held, s) == Proto!bpf_base_func_proto(f, held, s)
            a(p) == Proto!ArgsOf(p)
<1>1. HelperInv <=> /\ caps \in SUBSET Proto!Capability /\ sleepable \in BOOLEAN
                    /\ func_id = "unspec" => proto = "NULL"
                    /\ func_id # "unspec" =>
                         func_id \in Helpers /\ proto = b(func_id, caps, sleepable)
                    /\ part = "helpers" /\ ret # "none" => proto # "NULL" /\ fn = a(proto)
  BY DEF HelperInv
<1>2. HelperInv' <=> /\ caps' \in SUBSET Proto!Capability /\ sleepable' \in BOOLEAN
                     /\ func_id' = "unspec" => proto' = "NULL"
                     /\ func_id' # "unspec" =>
                          func_id' \in Helpers /\ proto' = b(func_id', caps', sleepable')
                     /\ part' = "helpers" /\ ret' # "none" =>
                          proto' # "NULL" /\ fn' = a(proto')
  BY DEF HelperInv
<1>. HIDE DEF b, a
<1>. QED
  BY <1>1, <1>2 DEF protoVars

LEMMA HelperInvOther ==
  ASSUME HelperInv, part' # "helpers", UNCHANGED <<caps, sleepable, func_id, proto>>
  PROVE  HelperInv'
<1>1. Proto!bpf_base_func_proto(func_id, caps, sleepable)'
        = Proto!bpf_base_func_proto(func_id, caps, sleepable)
  BY DEF Proto!bpf_base_func_proto, Proto!ProtoOf
<1>. QED
  BY <1>1 DEF HelperInv

LEMMA HelperInvStep ==
  ASSUME HelperInv, part = "helpers", part' = part, Proto!HelperNext
  PROVE  HelperInv'
<1>1. PICK f \in Helpers : Proto!Call(f)
  BY DEF Proto!HelperNext, Helpers
<1>2. /\ func_id = "unspec" /\ func_id' = f /\ caps' = caps /\ sleepable' = sleepable
      /\ proto' = Proto!bpf_base_func_proto(f, caps, sleepable)
  BY <1>1 DEF Proto!Call
<1>3. ret = "none"
  BY <1>2 DEF HelperInv
<1>4. proto' = Proto!bpf_base_func_proto(func_id, caps, sleepable)'
  BY <1>2 DEF Proto!bpf_base_func_proto, Proto!ProtoOf
<1>5. ret' # "none" => proto' # "NULL" /\ fn' = Proto!ArgsOf(proto')
  <2>1. CASE proto' = "NULL"
    BY <1>1, <1>3, <2>1 DEF Proto!Call, Proto!vars
  <2>2. CASE proto' # "NULL"
    <3>1. Proto!Check(Proto!ArgsOf(proto'))
      BY <1>1, <2>2 DEF Proto!Call
    <3>2. fn' = Proto!ArgsOf(proto')
      BY <3>1 DEF Proto!Check
    <3>. QED
      BY <2>2, <3>2
  <2>. QED
    BY <2>1, <2>2
<1>6. func_id' # "unspec" /\ func_id' \in Helpers
  BY <1>1, <1>2, AliasesHarmless DEF HelperInv
<1>7. Proto!ArgsOf(proto)' = Proto!ArgsOf(proto')
  BY DEF Proto!ArgsOf
<1>. QED
  BY <1>2, <1>4, <1>5, <1>6, <1>7 DEF HelperInv

LEMMA HelpersMean ==
  ASSUME ProtoInv, HelperInv, part = "helpers"
  PROVE  Proto!HelpersWellFormed /\ Proto!ForeignReadsNeedBoth
<1>. DEFINE base == Proto!bpf_base_func_proto(func_id, caps, sleepable)
            named == Proto!ProtoOf(func_id, sleepable)
            three == {"spin_lock", "spin_unlock", "kptr_xchg"}
<1>1. ASSUME proto # "NULL"
      PROVE  /\ func_id \in Helpers /\ proto = named /\ sleepable \in BOOLEAN
             /\ \/ func_id \in Proto!BaseHelpers \cup Proto!BpfHelpers
                \/ "CAP_BPF" \in caps /\ "CAP_PERFMON" \in caps
  <2>1. func_id \in Helpers /\ proto = base /\ sleepable \in BOOLEAN
    BY <1>1 DEF HelperInv
  <2>. QED
    BY <1>1, <2>1 DEF Proto!bpf_base_func_proto
<1>2. Proto!ForeignReadsNeedBoth
  <2>. SUFFICES ASSUME proto \in Proto!ReadsForeignMemory  PROVE  caps = Proto!Capability
    BY DEF Proto!ForeignReadsNeedBoth
  <2>1. proto # "NULL"
    BY DEF Proto!ReadsForeignMemory
  <2>2. "CAP_BPF" \in caps /\ "CAP_PERFMON" \in caps
    BY <1>1, <2>1, NoForeignReads
  <2>. QED
    BY <2>2 DEF HelperInv, Proto!Capability
<1>3. Proto!HelpersWellFormed
  <2>. SUFFICES ASSUME ret # "none"  PROVE  Proto!Accepted <=> func_id \notin three
    BY DEF Proto!HelpersWellFormed
  <2>1. proto # "NULL" /\ fn = Proto!ArgsOf(proto)
    BY DEF HelperInv
  <2>2. /\ proto # "event_output_data"
        /\ proto \in three <=> func_id \in three
    BY <1>1, <2>1, AliasesHarmless
  <2>. DEFINE v == Proto!check_func_proto(fn)
  <2>3. v.ok <=> proto \notin three
    <3>1. CASE proto \in three
      <4>1. ~ Proto!check_func_proto(Proto!ArgsOf(proto)).ok
        BY <3>1, UnannotatedRefused
      <4>. QED
        BY <2>1, <3>1, <4>1
    <3>2. CASE proto \in BufferProtos
      <4>1. Proto!check_func_proto(Proto!ArgsOf(proto)).ok
        BY <3>2, BuffersPass
      <4>. QED
        BY <2>1, <3>2, <4>1 DEF BufferProtos
    <3>3. CASE proto \notin three /\ proto \notin BufferProtos
      <4>1. Proto!check_func_proto(Proto!ArgsOf(proto)).ok
        BY <2>2, <3>3, OthersPass
      <4>. QED
        BY <2>1, <3>3, <4>1
    <3>. QED
      BY <3>1, <3>2, <3>3
  <2>4. ret = IF v.ok THEN "ok" ELSE "EINVAL"
    BY DEF ProtoInv
  <2>. HIDE DEF v
  <2>. QED
    BY <2>2, <2>3, <2>4 DEF Proto!Accepted
<1>. QED
  BY <1>2, <1>3

\* For every set of argument types: an accepted prototype has one source for each size, one
\* released register and one reading of each word, no well-formed one is turned away, and of
\* the helpers' own prototypes only the three without their annotation are.
THEOREM PrototypesAreSound == PartsSpec => []PrototypesSound
<1>. DEFINE Inv == ProtoInv /\ HelperInv
<1>1. PartsInit => Inv
  BY ProtoInvInit, HelperInvInit DEF PartsInit
<1>2. Inv /\ [PartsNext]_allVars => Inv'
  <2>. SUFFICES ASSUME Inv, [PartsNext]_allVars  PROVE  Inv'
    OBVIOUS
  <2>1. CASE part = "protos" /\ Proto!Next /\ UNCHANGED <<part, caps, sleepable, func_id, proto>>
    BY <2>1, ProtoInvStep, HelperInvOther
  <2>2. CASE part = "helpers" /\ Proto!HelperNext /\ UNCHANGED part
    BY <2>2, ProtoInvStep, HelperInvStep
  <2>3. CASE UNCHANGED <<part, protoVars>>
    <3>1. UNCHANGED <<fn, release_regno, ret>>
      BY <2>3 DEF protoVars
    <3>. QED
      BY <2>3, <3>1, ProtoInvKept, HelperInvKept
  <2>4. PartsNext => \/ part = "protos" /\ Proto!Next
                          /\ UNCHANGED <<part, caps, sleepable, func_id, proto>>
                     \/ part = "helpers" /\ Proto!HelperNext /\ UNCHANGED part
                     \/ UNCHANGED <<part, protoVars>>
    BY DEF PartsNext
  <2>5. UNCHANGED allVars => UNCHANGED <<part, protoVars>>
    BY DEF allVars
  <2>. QED
    BY <2>1, <2>2, <2>3, <2>4, <2>5
<1>3. Inv => PrototypesSound
  BY ProtoInvMeans, HelpersMean DEF PrototypesSound
<1>. QED
  BY <1>1, <1>2, <1>3, PTL DEF PartsSpec
=============================================================================
