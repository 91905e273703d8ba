-------------------------------- MODULE MCBpf --------------------------------
(***************************************************************************)
(* The shims of shims/kernel/bpf that are not run on their own: maps,      *)
(* program attachment, helper prototypes and struct_ops. A harness is      *)
(* compiled with one shim, so in a behaviour one part moves and the others *)
(* stay in an initial state.                                               *)
(***************************************************************************)
EXTENDS LocalStorage, TLC

CONSTANTS m1, m2, m3, NoKey, NoEnt, MaxLinks, Kinds, MaxUsed,
          HashCase, ArrayCase, AttrCase, OpsCase   \* the parameters of four parts, by name

VARIABLES
  part,                                                      \* the shim under the harness
  hmap, elems, count, nrElems, hpc, hkey, replacing,         \* HashTab
  amap, inner, key, visited, direct,                         \* ArrayMap
  cmap, op,                                                  \* MapAttr
  request, prog, stage, hooks,                               \* ProgAttach
  fn, release_regno, ret, caps, sleepable, func_id, proto,   \* HelperProtos
  desc, linkable, state, written, refcnt, usercnt, gets, olinked, opc, seen, uvalue  \* StructOps

hashVars == <<hmap, elems, count, nrElems, hpc, hkey, replacing>>
arrayVars == <<amap, inner, key, visited, direct>>
attrVars == <<cmap, op>>
progVars == <<request, prog, stage, hooks>>
protoVars == <<fn, release_regno, ret, caps, sleepable, func_id, proto>>
opsVars == <<desc, linkable, state, written, refcnt, usercnt, gets, olinked, opc, seen, uvalue>>

\* The storage maps' elements differ in size.
MCElemSize == (m1 :> 1) @@ (m2 :> 2) @@ (m3 :> 4)

\* Two CPUs and four keys in a map of two entries; a word of 7 bits.
MCHashCase ==
  [Word |-> 128, Align |-> 8, PcpuMin |-> 24, KmallocMax |-> 64, ElemHeader |-> 16, NrCpus |-> 4,
   Cpu |-> 1..2, Key |-> 1..4, MaxEntries |-> 2, ValueSizes |-> {24, 25}, NodeSize |-> 8]
Hash == INSTANCE HashTab WITH
  Word <- HashCase.Word, Align <- HashCase.Align, PcpuMin <- HashCase.PcpuMin,
  KmallocMax <- HashCase.KmallocMax, ElemHeader <- HashCase.ElemHeader, NrCpus <- HashCase.NrCpus,
  Cpu <- HashCase.Cpu, Key <- HashCase.Key, MaxEntries <- HashCase.MaxEntries,
  ValueSizes <- HashCase.ValueSizes, NodeSize <- HashCase.NodeSize,
  map <- hmap, pc <- hpc, key <- hkey

\* A word of 4 bits: every value size and every number of entries.
MCArrayCase ==
  [Word |-> 16, Align |-> 4, PcpuMin |-> 4, KmallocMax |-> 8, ElemHeader |-> 1, NrCpus |-> 2,
   ValueSizes |-> 0..15, Entries |-> 0..15, Pow2 |-> {2 ^ k : k \in 0..4}]
Array == INSTANCE ArrayMap WITH
  Word <- ArrayCase.Word, Align <- ArrayCase.Align, PcpuMin <- ArrayCase.PcpuMin,
  KmallocMax <- ArrayCase.KmallocMax, ElemHeader <- ArrayCase.ElemHeader,
  NrCpus <- ArrayCase.NrCpus, ValueSizes <- ArrayCase.ValueSizes, Entries <- ArrayCase.Entries,
  Pow2 <- ArrayCase.Pow2, map <- amap

\* A word of 7 bits: every value size is tried, and every pair of flags.
Flags == {"NO_PREALLOC", "NO_COMMON_LRU", "NUMA_NODE", "RDONLY", "WRONLY", "ZERO_SEED",
          "RDONLY_PROG", "WRONLY_PROG", "MMAPABLE", "PRESERVE_ELEMS", "INNER_MAP"}
MCAttrCase ==
  [Word |-> 128, Align |-> 8, PcpuMin |-> 24, KmallocMax |-> 64, ElemHeader |-> 16, NrCpus |-> 4,
   Sizes |-> 0..127, FlagSets |-> {{}} \cup {{f, g} : f, g \in Flags}, CpuNumbers |-> {0, 1, 3, 4}]
Attr == INSTANCE MapAttr WITH
  Word <- AttrCase.Word, Align <- AttrCase.Align, PcpuMin <- AttrCase.PcpuMin,
  KmallocMax <- AttrCase.KmallocMax, ElemHeader <- AttrCase.ElemHeader, NrCpus <- AttrCase.NrCpus,
  Sizes <- AttrCase.Sizes, FlagSets <- AttrCase.FlagSets, CpuNumbers <- AttrCase.CpuNumbers,
  map <- cmap

Prog == INSTANCE ProgAttach

\* One argument type for every case the checks of a prototype tell apart.
Kind(base, flags, word) == [base |-> base, flags |-> flags, word |-> word]
MCKinds ==
  {Kind("CONST_SIZE", {}, 0),
   Kind("PTR_TO_MEM", {"MEM_RDONLY"}, 0),
   Kind("PTR_TO_MEM", {"MEM_WRITE", "MEM_UNINIT"}, 0),
   Kind("PTR_TO_MEM", {}, 0),
   Kind("PTR_TO_MEM", {"MEM_FIXED_SIZE", "MEM_WRITE", "MEM_UNINIT"}, 8),
   Kind("PTR_TO_MEM", {"MEM_FIXED_SIZE", "MEM_WRITE"}, 0),
   Kind("PTR_TO_MEM", {"MEM_RDONLY"}, 8),
   Kind("PTR_TO_SOCKET", {"OBJ_RELEASE"}, 0),
   Kind("PTR_TO_SOCKET", {}, 2),
   Kind("PTR_TO_BTF_ID", {}, 0),
   Kind("PTR_TO_BTF_ID", {"OBJ_RELEASE"}, 1),
   Kind("PTR_TO_SPIN_LOCK", {}, 1),
   Kind("PTR_TO_SPIN_LOCK", {}, 2)}
Proto == INSTANCE HelperProtos

MCOpsCase ==
  [Map |-> {m1, m2}, Links |-> {"l1"}, Desc |-> {"d1", "d2"}, Updatable |-> {"d1"}, MaxRefs |-> 2]
Ops == INSTANCE StructOps WITH
  Map <- OpsCase.Map, Links <- OpsCase.Links, Desc <- OpsCase.Desc,
  Updatable <- OpsCase.Updatable, MaxRefs <- OpsCase.MaxRefs,
  linked <- olinked, pc <- opc

ASSUME PartsAssumption ==
  /\ Hash!HashAssumption /\ Hash!SizeAssumption
  /\ Array!ArrayAssumption /\ Array!SizeAssumption
  /\ Attr!AttrAssumption /\ Attr!SizeAssumption
  /\ Prog!AttachAssumption /\ Proto!ProtoAssumption /\ Ops!StructOpsAssumption

\* The parts that have several initial states rest in one of them.
PartsInit ==
  /\ part \in {"storage", "hash", "array", "attr", "prog", "protos", "helpers", "ops"}
  /\ Init /\ Attr!Init /\ Prog!Init /\ Ops!Init
  /\ Hash!Init
  /\ part # "hash" => hmap = CHOOSE m \in Hash!Maps : TRUE
  /\ Array!Init
  /\ part # "array" => amap = Array!Array(CHOOSE a \in Array!Attr : TRUE)
  /\ Proto!HelperInit
  /\ part # "helpers" => caps = {} /\ ~sleepable

PartsNext ==
  /\ UNCHANGED part
  /\ \/ /\ part = "storage" /\ Next
        /\ UNCHANGED <<hashVars, arrayVars, attrVars, progVars, protoVars, opsVars>>
     \/ /\ part = "hash" /\ Hash!Next
        /\ UNCHANGED <<vars, arrayVars, attrVars, progVars, protoVars, opsVars>>
     \/ /\ part = "array" /\ Array!Next
        /\ UNCHANGED <<vars, hashVars, attrVars, progVars, protoVars, opsVars>>
     \/ /\ part = "attr" /\ Attr!Next
        /\ UNCHANGED <<vars, hashVars, arrayVars, progVars, protoVars, opsVars>>
     \/ /\ part = "prog" /\ Prog!Next
        /\ UNCHANGED <<vars, hashVars, arrayVars, attrVars, protoVars, opsVars>>
     \/ /\ part = "protos" /\ Proto!Next /\ UNCHANGED <<caps, sleepable, func_id, proto>>
        /\ UNCHANGED <<vars, hashVars, arrayVars, attrVars, progVars, opsVars>>
     \/ /\ part = "helpers" /\ Proto!HelperNext
        /\ UNCHANGED <<vars, hashVars, arrayVars, attrVars, progVars, opsVars>>
     \/ /\ part = "ops" /\ Ops!Next
        /\ UNCHANGED <<vars, hashVars, arrayVars, attrVars, progVars, protoVars>>

allVars == <<part, vars, hashVars, arrayVars, attrVars, progVars, protoVars, opsVars>>

PartsSpec == PartsInit /\ [][PartsNext]_allVars
-----------------------------------------------------------------------------
(* What the shims count is what there is. Local storage: the charge is the sum   *)
(* of the linked elements. hashtab.c: at every step the counts are the stored    *)
(* elements and those being put in or taken out, CPUs that pass is_map_full()    *)
(* together exceed max_entries by at most one each, and the memory accounted for *)
(* covers per-CPU copies. bpf_struct_ops.c: a map's one counter is the sum of    *)
(* its kinds of holder.                                                          *)
AccountingExact ==
  /\ TypeOK /\ ChargeExact
  /\ part = "hash" => Hash!TypeOK /\ Hash!CountExact /\ Hash!OvershootBounded /\ Hash!UsageCovers
  /\ part = "ops" => Ops!TypeOK /\ Ops!RefsExact

(* Addresses and buffers stay inside their objects. arraymap.c: a walk visits    *)
(* every index once, elements do not overlap, a direct address leads back to its *)
(* offset, and lookups inlined for one inner map stay inside the one that        *)
(* replaces it. syscall.c with the alloc checks: an element's slot holds its     *)
(* value, the 32-bit size of an operation's buffer is the exact product, and an  *)
(* operation on one CPU's value names a CPU there is.                            *)
MemoryInBounds ==
  /\ part = "array" => /\ Array!WalkIsExact /\ Array!ElementsDisjoint
                       /\ Array!DirectRoundTrip /\ Array!InlinedLookupSafe
  /\ part = "attr" => Attr!SlotHoldsValue /\ Attr!BufferExact /\ Attr!CpuFlagInRange

(* syscall.c, one table against another over the life of a program: what the     *)
(* load accepts can be attached, at its own type's hooks only and at the one it  *)
(* was verified for; somebody has asked for the capability a cgroup hook needs;  *)
(* and a load without a hook is not refused for the hook it did not name.        *)
HooksRespected ==
  part = "prog" => /\ Prog!LoadableIsAttachable /\ Prog!HookOwnerRespected /\ Prog!BoundToOneHook
                   /\ Prog!CgroupHooksGuarded /\ Prog!LegacyLoadAccepted

(* verifier.c: an accepted prototype has one source for the size of each buffer, *)
(* one released register and one reading of each word, and no well-formed one is *)
(* turned away. helpers.c: the prototypes handed out are accepted, but for the   *)
(* three whose annotation the shim leaves out, and those that read other memory  *)
(* need both capabilities.                                                       *)
PrototypesSound ==
  /\ part = "protos" => /\ Proto!TypeOK /\ Proto!SizesKnown /\ Proto!ReleaseRegIsUnique
                        /\ Proto!WordHasOneReading /\ Proto!WellFormedAccepted
  /\ part = "helpers" => Proto!HelpersWellFormed /\ Proto!ForeignReadsNeedBoth

(* bpf_struct_ops.c: a link never holds a map that is unpublished, was not made  *)
(* for links or is being freed, and a lock-free lookup returns the user's whole  *)
(* value if it finds the map published and none of it if not.                    *)
PublishedIsWhole == part = "ops" => Ops!LinksHoldReady /\ Ops!LookupSeesPublished

(* hashtab.c: an update is refused only when the map and the updates under way   *)
(* use all entries.                                                              *)
RefusedOnlyWhenFull == Hash!RefusedOnlyWhenFull

(* bpf_struct_ops.c: a map whose last reference is gone stays gone, and the      *)
(* operations behind a link keep their type.                                     *)
LifetimesKept == Ops!GoneStaysGone /\ Ops!LinkKeepsType
=============================================================================
