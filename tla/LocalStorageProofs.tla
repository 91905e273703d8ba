-------------------------- MODULE LocalStorageProofs --------------------------
(***************************************************************************)
(* For every set of maps, elements and readers and every cache size, the   *)
(* lookup cache of bpf_local_storage.c never holds an unlinked element,    *)
(* the index counts are exact, a slot is shared only when none is free,    *)
(* and the memory charged is what the linked elements cost.                *)
(***************************************************************************)
EXTENDS LocalStorage, FiniteSetTheorems, WellFoundedInduction, TLAPS
-----------------------------------------------------------------------------
(* Cache indices. *)

IdxTyped == /\ idx \in [Map -> Idx \cup {Null}]
            /\ usage \in [Idx -> Nat]

Users(i) == {m \in Map : idx[m] = i}

IdxInv == IdxTyped /\ UsageExact

\* A map that takes an index joins its users.
LEMMA CountsAfterGet ==
  ASSUME IdxInv, NEW m \in Map, idx[m] = Null, NEW k \in Idx,
         idx' = [idx EXCEPT ![m] = k], usage' = [usage EXCEPT ![k] = @ + 1]
  PROVE  IdxInv'
<1>0. k # Null
  BY LocalStorageAssumption DEF Idx
<1>1. IdxTyped'
  BY DEF IdxInv, IdxTyped
<1>2. ASSUME NEW i \in Idx  PROVE  usage'[i] = Cardinality(Users(i)')
  <2>1. IsFiniteSet(Users(i))
    BY FS_Subset, LocalStorageAssumption DEF Users
  <2>2. usage[i] = Cardinality(Users(i))
    BY DEF IdxInv, UsageExact, Users
  <2>3. m \notin Users(i)
    BY LocalStorageAssumption DEF Users, Idx
  <2>4. CASE i = k
    <3>1. Users(i)' = Users(i) \cup {m}
      BY <2>4 DEF Users, IdxInv, IdxTyped
    <3>2. usage'[i] = usage[i] + 1
      BY <2>4 DEF IdxInv, IdxTyped
    <3> QED  BY <2>1, <2>2, <2>3, <3>1, <3>2, FS_AddElement
  <2>5. CASE i # k
    <3>1. Users(i)' = Users(i)
      BY <2>5, <2>3 DEF Users, IdxInv, IdxTyped
    <3>2. usage'[i] = usage[i]
      BY <2>5 DEF IdxInv, IdxTyped
    <3> QED  BY <2>2, <3>1, <3>2
  <2> QED  BY <2>4, <2>5
<1> QED  BY <1>1, <1>2 DEF IdxInv, UsageExact, Users

\* A map that gives its index back leaves its users; the count was not zero.
LEMMA CountsAfterFree ==
  ASSUME IdxInv, NEW m \in Map, idx[m] # Null,
         idx' = [idx EXCEPT ![m] = Null], usage' = UsageWithout(idx[m])
  PROVE  IdxInv'
<1> DEFINE k == idx[m]
<1>0. k \in Idx /\ Null \notin Idx
  BY LocalStorageAssumption DEF IdxInv, IdxTyped, Idx
<1>1. ASSUME NEW i \in Idx
      PROVE  /\ usage'[i] = Cardinality(Users(i)')
             /\ usage'[i] \in Nat
  <2>1. IsFiniteSet(Users(i)) /\ IsFiniteSet(Users(i) \ {m})
    BY FS_Subset, FS_RemoveElement, LocalStorageAssumption DEF Users
  <2>2. usage[i] = Cardinality(Users(i)) /\ usage[i] \in Nat
    BY DEF IdxInv, IdxTyped, UsageExact, Users
  <2>3. Users(i)' = Users(i) \ {m}
    BY <1>0 DEF Users, IdxInv, IdxTyped
  <2>4. CASE i = k
    <3>1. m \in Users(i)
      BY <2>4 DEF Users
    <3>2. usage'[i] = usage[i] - 1
      BY <2>4, <1>0 DEF IdxInv, IdxTyped, UsageWithout
    <3>3. Cardinality(Users(i) \ {m}) = Cardinality(Users(i)) - 1
      BY <2>1, <3>1, FS_RemoveElement
    <3>4. Cardinality(Users(i) \ {m}) \in Nat
      BY <2>1, FS_CardinalityType
    <3> QED  BY <2>2, <2>3, <3>2, <3>3, <3>4
  <2>5. CASE i # k
    <3>1. Users(i) \ {m} = Users(i)
      BY <2>5 DEF Users
    <3>2. usage'[i] = usage[i]
      BY <2>5, <1>0 DEF IdxInv, IdxTyped, UsageWithout
    <3> QED  BY <2>2, <2>3, <3>1, <3>2
  <2> QED  BY <2>4, <2>5
<1>2. usage' = [i \in Idx |-> usage'[i]]
  BY <1>0 DEF IdxInv, IdxTyped, UsageWithout
<1>3. IdxTyped'
  BY <1>0, <1>1, <1>2 DEF IdxInv, IdxTyped
<1> QED  BY <1>1, <1>3 DEF IdxInv, UsageExact, Users

\* Every nonempty set of naturals has a least element.
Less == OpToRel(<, Nat)

LEMMA LessIsLess == \A x, y \in Nat : <<x, y>> \in Less <=> x < y
  BY DEF Less, OpToRel

LEMMA LeastNatural ==
  ASSUME NEW T, T \subseteq Nat, T # {}
  PROVE  \E x \in T : \A y \in T : x <= y
<1>1. IsWellFoundedOn(Less, Nat)
  BY NatLessThanWellFounded DEF Less
<1>2. PICK x \in T : \A y \in T : ~(<<y, x>> \in Less)
  BY <1>1, WFMin
<1>3. ASSUME NEW y \in T  PROVE  x <= y
  <2>1. x \in Nat /\ y \in Nat
    OBVIOUS
  <2>2. ~(y < x)
    BY <2>1, <1>2, LessIsLess
  <2> QED  BY <2>1, <2>2
<1> QED  BY <1>3

\* The scan of bpf_local_storage_cache_idx_get() ends with an index whose count
\* is the smallest.
LEMMA LeastUsedExists ==
  ASSUME IdxTyped
  PROVE  /\ LeastUsed \in Idx
         /\ \A j \in Idx : usage[LeastUsed] <= usage[j]
<1> DEFINE Counts == {usage[i] : i \in Idx}
           P(i) == /\ \A j \in Idx : usage[i] <= usage[j]
                   /\ \A j \in 0..(i - 1) : usage[i] < usage[j]
<1>1. 0 \in Idx /\ Idx \subseteq Nat
  BY LocalStorageAssumption DEF Idx
<1>2. Counts \subseteq Nat /\ Counts # {}
  BY <1>1 DEF IdxTyped
<1>3. PICK c \in Counts : \A d \in Counts : c <= d
  <2> HIDE DEF Counts
  <2> QED  BY <1>2, LeastNatural
<1> DEFINE Cheapest == {i \in Idx : usage[i] = c}
<1>4. Cheapest \subseteq Nat /\ Cheapest # {}
  BY <1>1
<1>5. PICK i \in Cheapest : \A j \in Cheapest : i <= j
  <2> HIDE DEF Cheapest
  <2> QED  BY <1>4, LeastNatural
<1>6. i \in Idx /\ usage[i] = c
  BY <1>5
<1>7. \A j \in Idx : usage[i] <= usage[j]
  BY <1>3, <1>6
<1>8. ASSUME NEW j \in 0..(i - 1)  PROVE  usage[i] < usage[j]
  <2>1. j \in Idx /\ j < i
    BY <1>6, LocalStorageAssumption DEF Idx
  <2>2. usage[j] # c
    BY <2>1, <1>5, <1>6, <1>1
  <2>3. usage[i] \in Nat /\ usage[j] \in Nat
    BY <2>1, <1>6 DEF IdxTyped
  <2>4. usage[i] <= usage[j]
    BY <2>1, <1>7
  <2> QED  BY <2>2, <2>3, <2>4, <1>6
<1>9. \E k \in Idx : P(k)
  BY <1>6, <1>7, <1>8
<1>10. LeastUsed = CHOOSE k \in Idx : P(k)
  BY DEF LeastUsed
<1> HIDE DEF P
<1>11. LeastUsed \in Idx /\ P(LeastUsed)
  BY <1>9, <1>10
<1> QED  BY <1>11 DEF P

\* Everything but cache_idx_get() and cache_idx_free() leaves the counts alone.
LEMMA IdxInvStep == IdxInv /\ [Next]_vars => IdxInv'
<1> SUFFICES ASSUME IdxInv, [Next]_vars  PROVE  IdxInv'
  OBVIOUS
<1>1. ASSUME NEW m \in Map, IdxGet(m)  PROVE  IdxInv'
  <2>1. LeastUsed \in Idx
    BY LeastUsedExists DEF IdxInv
  <2> QED  BY <1>1, <2>1, CountsAfterGet DEF IdxGet
<1>2. ASSUME NEW m \in Map, IdxFree(m)  PROVE  IdxInv'
  BY <1>2, CountsAfterFree DEF IdxFree
<1>3. CASE UNCHANGED <<idx, usage>>
  BY <1>3 DEF IdxInv, IdxTyped, UsageExact
<1>4. (\E m \in Map : IdxGet(m) \/ IdxFree(m)) \/ UNCHANGED <<idx, usage>>
  BY DEF Next, vars, Link, Unlink, Reclaim, Lookup, Walk, Publish
<1> QED  BY <1>1, <1>2, <1>3, <1>4

LEMMA IdxInvInit == Init => IdxInv
<1> SUFFICES ASSUME Init  PROVE  IdxInv
  OBVIOUS
<1>1. IdxTyped
  BY DEF Init, IdxTyped
<1>2. ASSUME NEW i \in Idx  PROVE  usage[i] = Cardinality({m \in Map : idx[m] = i})
  <2>1. {m \in Map : idx[m] = i} = {}
    BY LocalStorageAssumption DEF Init, Idx
  <2> QED  BY <2>1, FS_EmptySet DEF Init
<1> QED  BY <1>1, <1>2 DEF IdxInv, UsageExact

\* idx_usage_counts is, for every number of maps and slots, the number of maps
\* that use the slot (bpf_local_storage_cache_idx_get() and _free()); in
\* particular the unsigned counts never wrap.
THEOREM CountsExact == Spec => []UsageExact
<1>1. IdxInv => UsageExact
  BY DEF IdxInv
<1> QED  BY <1>1, IdxInvInit, IdxInvStep, PTL DEF Spec

LEMMA FreshIdxStep == IdxInv /\ [Next]_vars => [FreshIdx]_vars
<1> SUFFICES ASSUME IdxInv, [Next]_vars, NEW m \in Map,
                    idx[m] = Null, idx'[m] # Null,
                    NEW i \in Idx, usage[i] = 0,
                    NEW n \in Map
             PROVE  idx[n] # idx'[m]
  BY DEF FreshIdx
<1>1. PICK k \in Map : IdxGet(k) \/ IdxFree(k)
  <2>1. (\E k \in Map : IdxGet(k) \/ IdxFree(k)) \/ UNCHANGED idx
    BY DEF Next, vars, Link, Unlink, Reclaim, Lookup, Walk, Publish
  <2> QED  BY <2>1
<1>2. k = m /\ IdxGet(m)
  BY <1>1 DEF IdxGet, IdxFree, IdxInv, IdxTyped
<1>3. idx'[m] = LeastUsed
  BY <1>2 DEF IdxGet, IdxInv, IdxTyped
<1>4. LeastUsed \in Idx /\ usage[LeastUsed] = 0
  <2>1. LeastUsed \in Idx /\ usage[LeastUsed] <= usage[i]
    BY LeastUsedExists DEF IdxInv
  <2> QED  BY <2>1 DEF IdxInv, IdxTyped
<1>5. Users(LeastUsed) = {}
  <2>1. IsFiniteSet(Users(LeastUsed))
    BY FS_Subset, LocalStorageAssumption DEF Users
  <2>2. Cardinality(Users(LeastUsed)) = 0
    BY <1>4 DEF IdxInv, UsageExact, Users
  <2> QED  BY <2>1, <2>2, FS_EmptySet
<1> QED  BY <1>3, <1>5 DEF Users

\* A map never shares a lookup-cache slot while one is free, for every number of
\* maps and slots and every order of cache_idx_get() and cache_idx_free().
THEOREM FreeSlotsFirst == Spec => SharesOnlyWhenFull
<1> QED  BY IdxInvInit, IdxInvStep, FreshIdxStep, PTL DEF Spec, SharesOnlyWhenFull
-----------------------------------------------------------------------------
(* The lookup cache. *)

CacheTyped ==
  /\ smap \in [Elem -> Map \cup {Null}]
  /\ linked \subseteq Elem
  /\ cache \in [Idx -> Elem \cup {Null}]
  /\ pc \in [Reader -> {"idle", "walk", "publish"}]
  /\ want \in [Reader -> Map \cup {Null}]
  /\ found \in [Reader -> Elem \cup {Null}]

\* A linked element has a map, and the map has an index.
LinkedHasMap == \A e \in linked : smap[e] \in Map /\ idx[smap[e]] # Null

\* What a lookup holds between its walk and its publication is still an element
\* of the map it looks up, linked or not: RCU keeps it from being reused.
HeldHasMap ==
  \A r \in Reader : pc[r] # "idle" =>
    /\ want[r] \in Map /\ idx[want[r]] # Null
    /\ pc[r] = "publish" => found[r] \in Elem /\ smap[found[r]] = want[r]

CacheInv == IdxInv /\ CacheTyped /\ LinkedHasMap /\ HeldHasMap /\ CacheLinked

LEMMA CacheInvInit == Init => CacheInv
  BY IdxInvInit DEF Init, CacheInv, CacheTyped, LinkedHasMap, HeldHasMap, CacheLinked

LEMMA CacheInvStep == CacheInv /\ [Next]_vars => CacheInv'
<1> SUFFICES ASSUME CacheInv, [Next]_vars  PROVE  CacheInv'
  OBVIOUS
<1> USE DEF CacheInv, CacheTyped, LinkedHasMap, HeldHasMap, CacheLinked
<1>0. IdxInv' /\ Null \notin Map \cup Elem \cup Idx /\ idx \in [Map -> Idx \cup {Null}]
  BY IdxInvStep, LocalStorageAssumption DEF Idx, IdxInv, IdxTyped
<1>1. ASSUME NEW m \in Map, IdxGet(m)  PROVE  CacheInv'
  <2>1. LeastUsed \in Idx
    BY LeastUsedExists DEF IdxInv
  <2>2. \A n \in Map : idx[n] # Null => idx'[n] = idx[n]
    BY <1>0, <1>1 DEF IdxGet
  <2> QED  BY <1>0, <1>1, <2>2 DEF IdxGet, storage, readers
<1>2. ASSUME NEW m \in Map, IdxFree(m)  PROVE  CacheInv'
  <2>1. \A n \in Map \ {m} : idx'[n] = idx[n]
    BY <1>0, <1>2 DEF IdxFree
  <2> QED  BY <1>0, <1>2, <2>1 DEF IdxFree, storage, readers
<1>3. ASSUME NEW e \in Elem, NEW m \in Map, Link(e, m)  PROVE  CacheInv'
  <2>1. smap'[e] = m /\ \A f \in Elem \ {e} : smap'[f] = smap[f]
    BY <1>3 DEF Link
  <2>2. e \notin linked /\ \A r \in Reader : pc[r] = "publish" => found[r] # e
    BY <1>0, <1>3 DEF Link
  <2>3. CacheTyped'
    BY <1>3 DEF Link, readers
  <2>4. LinkedHasMap'
    BY <1>3, <2>1, <2>2 DEF Link
  <2>5. HeldHasMap'
    BY <1>3, <2>1, <2>2 DEF Link, readers
  <2>6. CacheLinked'
    BY <1>3, <2>1, <2>2 DEF Link
  <2> QED  BY <1>0, <2>3, <2>4, <2>5, <2>6
<1>4. ASSUME NEW e \in Elem, Unlink(e)  PROVE  CacheInv'
  <2>1. smap[e] \in Map /\ idx[smap[e]] \in Idx
    BY <1>0, <1>4 DEF Unlink
  <2>2. /\ cache' \in [Idx -> Elem \cup {Null}]
        /\ \A i \in Idx : cache'[i] = Null \/ (cache'[i] = cache[i] /\ cache[i] # e)
    BY <1>4, <2>1 DEF Unlink, CacheWithout
  <2> QED  BY <1>0, <1>4, <2>2 DEF Unlink, readers
<1>5. ASSUME NEW e \in Elem, Reclaim(e)  PROVE  CacheInv'
  <2>1. \A f \in Elem \ {e} : smap'[f] = smap[f]
    BY <1>5 DEF Reclaim
  <2> QED  BY <1>0, <1>5, <2>1 DEF Reclaim, readers
<1>6. ASSUME NEW r \in Reader, NEW m \in Map, Lookup(r, m)  PROVE  CacheInv'
  BY <1>0, <1>6 DEF Lookup, Goto, storage, readers
<1>7. ASSUME NEW r \in Reader, NEW c \in BOOLEAN, Walk(r, c)  PROVE  CacheInv'
  BY <1>0, <1>7 DEF Walk, Goto, storage
<1>8. ASSUME NEW r \in Reader, Publish(r)  PROVE  CacheInv'
  <2>1. /\ want[r] \in Map /\ idx[want[r]] \in Idx
        /\ found[r] \in Elem /\ smap[found[r]] = want[r]
    BY <1>0, <1>8 DEF Publish
  <2>2. CacheLinked' /\ cache' \in [Idx -> Elem \cup {Null}]
    BY <1>0, <1>8, <2>1 DEF Publish, StillLinked
  <2>3. HeldHasMap' /\ CacheTyped'
    BY <1>8, <2>2 DEF Publish, Goto
  <2> QED  BY <1>0, <1>8, <2>2, <2>3 DEF Publish
<1>9. CASE UNCHANGED vars
  BY <1>0, <1>9 DEF vars
<1> QED  BY <1>1, <1>2, <1>3, <1>4, <1>5, <1>6, <1>7, <1>8, <1>9 DEF Next

\* The lookup cache never holds an element that has been unlinked, whatever the
\* interleaving of lookups and unlinks: the check under the lock in
\* __bpf_local_storage_insert_cache() and the clearing of the slot in
\* bpf_selem_unlink_storage_nolock_misc() together suffice.
THEOREM CacheSound == Spec => []CacheLinked
<1>1. CacheInv => CacheLinked
  BY DEF CacheInv
<1> QED  BY <1>1, CacheInvInit, CacheInvStep, PTL DEF Spec
-----------------------------------------------------------------------------
(* The memory charged. *)

\* The charge is exact, and the bytes it counts are finitely many.
ChargeInv == CacheInv /\ alive \in BOOLEAN /\ IsFiniteSet(Bytes) /\ ChargeExact

\* The bytes of one element.
BytesOf(e, m) == {e} \X (1 .. ElemSize[m])

LEMMA BytesCounted ==
  ASSUME NEW e, NEW m \in Map
  PROVE  IsFiniteSet(BytesOf(e, m)) /\ Cardinality(BytesOf(e, m)) = ElemSize[m]
<1>1. ElemSize[m] \in Nat
  BY LocalStorageAssumption
<1>2. IsFiniteSet({e}) /\ Cardinality({e}) = 1
  BY FS_Singleton
<1>3. IsFiniteSet(1 .. ElemSize[m]) /\ Cardinality(1 .. ElemSize[m]) = ElemSize[m]
  <2>1. 1 \in Int /\ ElemSize[m] \in Int
    BY <1>1
  <2>2. /\ IsFiniteSet(1 .. ElemSize[m])
        /\ Cardinality(1 .. ElemSize[m]) = IF 1 > ElemSize[m] THEN 0 ELSE ElemSize[m] - 1 + 1
    BY <2>1, FS_Interval
  <2> QED  BY <1>1, <2>2
<1>4. /\ IsFiniteSet({e} \X (1 .. ElemSize[m]))
      /\ Cardinality({e} \X (1 .. ElemSize[m])) = Cardinality({e}) * Cardinality(1 .. ElemSize[m])
  BY <1>2, <1>3, FS_Product
<1> QED  BY <1>1, <1>2, <1>3, <1>4 DEF BytesOf

\* An element that joins or leaves the list brings or takes its own bytes.
LEMMA DisjointCounted ==
  ASSUME NEW S, NEW T, IsFiniteSet(S), IsFiniteSet(T), S \cap T = {}
  PROVE  /\ IsFiniteSet(S \cup T) /\ Cardinality(S \cup T) = Cardinality(S) + Cardinality(T)
         /\ Cardinality(S) \in Nat /\ Cardinality(T) \in Nat
<1>1. Cardinality(S) \in Nat /\ Cardinality(T) \in Nat
  BY FS_CardinalityType
<1>2. /\ IsFiniteSet(S \cup T)
      /\ Cardinality(S \cup T) = Cardinality(S) + Cardinality(T) - Cardinality(S \cap T)
  BY FS_Union
<1>3. Cardinality(S \cap T) = 0
  BY FS_EmptySet
<1> QED  BY <1>1, <1>2, <1>3

LEMMA ChargeInvInit == Init => ChargeInv
<1> SUFFICES ASSUME Init  PROVE  ChargeInv
  OBVIOUS
<1>1. CacheInv
  BY CacheInvInit
<1>2. Bytes = {}
  BY DEF Init, Bytes
<1>3. IsFiniteSet(Bytes) /\ Cardinality(Bytes) = 0
  BY <1>2, FS_EmptySet
<1>4. alive = FALSE /\ linked = {} /\ charge = 0
  BY DEF Init
<1>5. ChargeExact
  BY <1>3, <1>4 DEF ChargeExact
<1> QED  BY <1>1, <1>3, <1>4, <1>5 DEF ChargeInv

LEMMA ChargeLink ==
  ASSUME ChargeInv, CacheInv', NEW e \in Elem, NEW m \in Map, Link(e, m)
  PROVE  ChargeInv'
<1>1. /\ smap[e] = Null /\ smap' = [smap EXCEPT ![e] = m] /\ linked' = linked \cup {e}
      /\ charge' = charge + ElemSize[m] + (IF alive THEN 0 ELSE StorageSize) /\ alive' = TRUE
  BY DEF Link
<1>2. /\ smap \in [Elem -> Map \cup {Null}] /\ linked \subseteq Elem
      /\ \A f \in linked : smap[f] \in Map
  BY DEF ChargeInv, CacheInv, CacheTyped, LinkedHasMap
<1>3. e \notin linked /\ Null \notin Map /\ ElemSize[m] \in Nat /\ StorageSize \in Nat
  BY <1>1, <1>2, LocalStorageAssumption
<1>4. \A f \in linked : smap'[f] = smap[f]
  BY <1>1, <1>2, <1>3
<1>5. smap'[e] = m
  BY <1>1, <1>2
<1>6. Bytes' = Bytes \cup BytesOf(e, m)
  BY <1>1, <1>4, <1>5 DEF Bytes, BytesOf
<1>7. Bytes \cap BytesOf(e, m) = {}
  BY <1>3 DEF Bytes, BytesOf
<1>8. /\ IsFiniteSet(Bytes') /\ Cardinality(Bytes') = Cardinality(Bytes) + ElemSize[m]
      /\ Cardinality(Bytes) \in Nat
  BY <1>6, <1>7, BytesCounted, DisjointCounted DEF ChargeInv
<1>9. /\ alive <=> linked # {}
      /\ charge = Cardinality(Bytes) + (IF linked # {} THEN StorageSize ELSE 0)
  BY DEF ChargeInv, ChargeExact
<1>10. charge' = Cardinality(Bytes') + StorageSize
  BY <1>1, <1>3, <1>8, <1>9
<1>11. ChargeExact'
  BY <1>1, <1>10 DEF ChargeExact
<1> QED  BY <1>1, <1>8, <1>11 DEF ChargeInv

LEMMA ChargeUnlink ==
  ASSUME ChargeInv, CacheInv', NEW e \in Elem, Unlink(e)
  PROVE  ChargeInv'
<1>1. /\ e \in linked /\ linked' = linked \ {e} /\ smap' = smap
      /\ charge' = charge - (ElemSize[smap[e]] + IF linked = {e} THEN StorageSize ELSE 0)
      /\ alive' = ~ (linked = {e})
  BY DEF Unlink, Uncharge, Singular
<1>2. smap[e] \in Map /\ \A f \in linked : smap[f] \in Map
  BY <1>1 DEF ChargeInv, CacheInv, LinkedHasMap
<1>3. ElemSize[smap[e]] \in Nat /\ StorageSize \in Nat
  BY <1>2, LocalStorageAssumption
<1>4. Bytes = Bytes' \cup BytesOf(e, smap[e])
  BY <1>1 DEF Bytes, BytesOf
<1>5. Bytes' \cap BytesOf(e, smap[e]) = {}
  BY <1>1 DEF Bytes, BytesOf
<1>6. IsFiniteSet(Bytes')
  BY <1>4, FS_Subset DEF ChargeInv
<1>7. Cardinality(Bytes) = Cardinality(Bytes') + ElemSize[smap[e]] /\ Cardinality(Bytes') \in Nat
  <2>1. /\ IsFiniteSet(BytesOf(e, smap[e]))
        /\ Cardinality(BytesOf(e, smap[e])) = ElemSize[smap[e]]
    BY <1>2, BytesCounted
  <2>2. /\ Cardinality(Bytes' \cup BytesOf(e, smap[e]))
             = Cardinality(Bytes') + Cardinality(BytesOf(e, smap[e]))
        /\ Cardinality(Bytes') \in Nat
    BY <2>1, <1>5, <1>6, DisjointCounted
  <2> QED  BY <2>1, <2>2, <1>4
<1>8. charge = Cardinality(Bytes) + StorageSize
  BY <1>1 DEF ChargeInv, ChargeExact
<1>9. (linked = {e}) <=> (linked' = {})
  BY <1>1
<1>10. charge' = Cardinality(Bytes') + (IF linked' # {} THEN StorageSize ELSE 0)
  BY <1>1, <1>3, <1>7, <1>8, <1>9
<1>11. ChargeExact' /\ alive' \in BOOLEAN
  BY <1>1, <1>9, <1>10 DEF ChargeExact
<1> QED  BY <1>6, <1>11 DEF ChargeInv

LEMMA ChargeInvStep == ChargeInv /\ [Next]_vars => ChargeInv'
<1> SUFFICES ASSUME ChargeInv, [Next]_vars  PROVE  ChargeInv'
  OBVIOUS
<1>0. CacheInv'
  BY CacheInvStep DEF ChargeInv
<1>1. ASSUME NEW e \in Elem, NEW m \in Map, Link(e, m)  PROVE  ChargeInv'
  BY <1>0, <1>1, ChargeLink
<1>2. ASSUME NEW e \in Elem, Unlink(e)  PROVE  ChargeInv'
  BY <1>0, <1>2, ChargeUnlink
<1>3. ASSUME UNCHANGED <<linked, charge, alive>>, \A f \in linked : smap'[f] = smap[f]
      PROVE  ChargeInv'
  <2>1. Bytes' = Bytes
    BY <1>3 DEF Bytes
  <2> QED  BY <1>0, <1>3, <2>1 DEF ChargeInv, ChargeExact
<1>4. ASSUME NEW e \in Elem, Reclaim(e)  PROVE  ChargeInv'
  <2>1. /\ UNCHANGED <<linked, charge, alive>> /\ e \notin linked
        /\ smap' = [smap EXCEPT ![e] = Null]
    BY <1>4 DEF Reclaim
  <2>2. smap \in [Elem -> Map \cup {Null}] /\ linked \subseteq Elem
    BY DEF ChargeInv, CacheInv, CacheTyped
  <2> QED  BY <2>1, <2>2, <1>3
<1>5. CASE UNCHANGED <<smap, linked, charge, alive>>
  BY <1>5, <1>3
<1> QED
  BY <1>1, <1>2, <1>4, <1>5 DEF Next, vars, IdxGet, IdxFree, Lookup, Walk, Publish, storage

LEMMA ChargeInvMeans == ChargeInv => TypeOK /\ ChargeExact
<1> SUFFICES ASSUME ChargeInv  PROVE  charge \in Nat
  BY DEF ChargeInv, CacheInv, CacheTyped, IdxInv, IdxTyped, TypeOK
<1>1. Cardinality(Bytes) \in Nat
  BY FS_CardinalityType DEF ChargeInv
<1> QED  BY <1>1, LocalStorageAssumption DEF ChargeInv, ChargeExact

\* mem_charge is exactly what the linked elements and the storage cost, for every number of
\* elements of every size: the unsigned counter never goes below zero, and it is back at
\* zero after the unlink that empties the list.
THEOREM ChargesExact == Spec => [](TypeOK /\ ChargeExact)
  BY ChargeInvMeans, ChargeInvInit, ChargeInvStep, PTL DEF Spec
=============================================================================
