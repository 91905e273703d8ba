------------------------------- MODULE DiffLeg -------------------------------
(***************************************************************************)
(* The native-vs-BPF differential leg: tools/diff_all.sh runs diff.sh for  *)
(* every directory of diff/ in turn. A target is built for BPF and for the *)
(* host, both sides write one word per iteration to a file, and            *)
(* diff_compare.py compares the files. Neither writer looks at the result  *)
(* of fwrite() or fclose(), so a full disk shortens a file without an      *)
(* error. Nothing bounds the time the guest takes, so the leg may also     *)
(* stay in a step for ever.                                                *)
(***************************************************************************)
EXTENDS Naturals, Sequences

CONSTANTS
  Kit,      \* for each directory of diff/, in order: what it holds
  Iters,    \* iterations asked for
  MaxDisk   \* bound: free blocks, one per built file and per written word

DiffAssumption ==
  /\ Kit \in Seq({"complete", "no flags", "no compute.h"})
  /\ Iters \in Nat \ {0} /\ MaxDisk \in Nat

Directory == DOMAIN Kit

VARIABLES
  dpos, stage,        \* the directory diff_all.sh is at, the stage of its diff.sh
  disk,               \* free blocks
  natLen, bpfLen,     \* words in the two output files of the target
  diverge,            \* ghost: the first iteration the two builds disagree on
  compared,           \* ghost: the words diff_compare.py compared of each target
  passed, failed      \* diff_all.sh's two lists

diffVars == <<dpos, stage, disk, natLen, bpfLen, diverge, compared, passed, failed>>

DiffInit ==
  /\ dpos = 1 /\ stage = "start"
  /\ disk \in 0..MaxDisk
  /\ natLen = 0 /\ bpfLen = 0
  /\ diverge \in [Directory -> 0..Iters] /\ compared = [d \in Directory |-> 0]
  /\ passed = {} /\ failed = {}

At(s) == dpos \in Directory /\ stage = s

\* The next directory; its output files are opened for writing from the start.
Advance ==
  /\ dpos' = dpos + 1 /\ stage' = "start" /\ natLen' = 0 /\ bpfLen' = 0

\* diff.sh ends with an error; diff_all.sh notes it and goes on.
Fail ==
  /\ failed' = failed \cup {dpos}
  /\ Advance
  /\ UNCHANGED <<diverge, passed>>

GoTo(s) == stage' = s /\ UNCHANGED <<dpos, diverge, compared, passed, failed>>

SkipDirectory ==
  /\ At("start") /\ Kit[dpos] = "no compute.h"
  /\ Advance
  /\ UNCHANGED <<disk, diverge, compared, passed, failed>>

NoFlags ==
  /\ At("start") /\ Kit[dpos] = "no flags"
  /\ Fail
  /\ UNCHANGED <<disk, compared>>

\* diff_build.py: the compiler fails, or has no room for the object.
BuildBpf(ok) ==
  /\ At("start") /\ Kit[dpos] = "complete"
  /\ IF ok /\ disk > 0
     THEN GoTo("native") /\ disk' = disk - 1 /\ UNCHANGED <<natLen, bpfLen>>
     ELSE Fail /\ UNCHANGED <<disk, compared>>

BuildNative(ok) ==
  /\ At("native")
  /\ IF ok /\ disk > 0
     THEN GoTo("run") /\ disk' = disk - 1 /\ UNCHANGED <<natLen, bpfLen>>
     ELSE Fail /\ UNCHANGED <<disk, compared>>

Least(a, b) == IF a < b THEN a ELSE b

\* Without "|| exit 1" the words written before a crash are compared.
RunNativeUnchecked(done) ==
  /\ At("run")
  /\ natLen' = Least(done, disk)
  /\ disk' = disk - natLen'
  /\ UNCHANGED bpfLen
  /\ GoTo("emit")

\* diff_native cannot open its file, or crashes after done < Iters iterations; at the end
\* it returns 0 however much of its output reached the file.
RunNative(done) ==
  /\ At("run")
  /\ IF done < Iters
     THEN Fail /\ disk' = disk - Least(done, disk) /\ UNCHANGED compared
     ELSE /\ natLen' = Least(Iters, disk)
          /\ disk' = disk - natLen'
          /\ UNCHANGED bpfLen
          /\ GoTo("emit")

\* bpf_runner --emit in the guest: it stops with an error after done < Iters
\* iterations, the guest dies (uml-run.sh then returns 3), or it runs to the end
\* and returns 0 whether or not the words were written.
Emit(done) ==
  /\ At("emit")
  /\ IF done < Iters
     THEN Fail /\ disk' = disk - Least(done, disk) /\ UNCHANGED compared
     ELSE /\ bpfLen' = Least(Iters, disk)
          /\ disk' = disk - bpfLen'
          /\ UNCHANGED natLen
          /\ GoTo("compare")

\* Compares what both files have; a longer file only draws a warning.
Compared == Least(natLen, bpfLen)

Agree == diverge[dpos] >= Compared

Compare ==
  /\ At("compare")
  /\ IF Agree
     THEN passed' = passed \cup {dpos} /\ Advance /\ UNCHANGED <<diverge, failed>>
     ELSE Fail
  /\ compared' = [compared EXCEPT ![dpos] = Compared]
  /\ UNCHANGED disk

DiffDone == dpos \notin Directory

\* The exit status of diff_all.sh.
diff_all == failed = {}

DiffNext ==
  \/ SkipDirectory \/ NoFlags \/ Compare
  \/ \E ok \in BOOLEAN : BuildBpf(ok) \/ BuildNative(ok)
  \/ \E done \in 0..Iters : RunNative(done) \/ Emit(done)

DiffSpec == DiffInit /\ [][DiffNext]_diffVars
-----------------------------------------------------------------------------
Target == {t \in Directory : Kit[t] # "no compute.h"}

(* A failing target does not keep the others from being tried: when the leg    *)
(* ends every target is in exactly one of the two lists.                        *)
EveryTargetTried ==
  DiffDone => passed \cap failed = {} /\ passed \cup failed = Target

(* A target passes only if its two builds agree on every iteration compared,    *)
(* and fewer are compared than were asked for only on a disk that is full: no   *)
(* crash of either side and no dead guest passes for a shorter run. Since files *)
(* are never removed, a disk that filled up stays full to the end of the leg.   *)
PassedAgree ==
  \A t \in passed : diverge[t] >= compared[t] /\ (compared[t] < Iters => disk = 0)
=============================================================================
