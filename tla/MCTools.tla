------------------------------- MODULE MCTools -------------------------------
(***************************************************************************)
(* The CI job and the scripts and tools around the pipeline. They are      *)
(* started one at a time and share nothing but files that a part's own     *)
(* initial state describes, so in a behaviour one part moves and the       *)
(* others stay in an initial state.                                        *)
(***************************************************************************)
EXTENDS CiJob, Integers

CONSTANTS
  Kit, Iters, MaxDisk,                                              \* DiffLeg
  SetupRuns,                                                        \* Setup: MaxRuns
  Tracked, TrackRuns,                                               \* Tracking: Target, MaxRuns
  ShimFiles, KernelFiles, NoFile, SHIM_COPIES,                      \* DriftCheck
  NObjects, iters, MaxReport, NCorners, Entries, MayDie, MayFail    \* GuestRun

VARIABLES
  part,                                                             \* the tool that runs
  dpos, stage, disk, natLen, bpfLen, diverge, compared, passed, failed,    \* DiffLeg
  modules, step, runs, module, clang, ksrc, headers, uml, runner, before,  \* Setup
  truns, tstep, ok, cached, llvm, checked, results, file,                  \* Tracking
  compile_fail, verify_fail, noDrift,
  tree, shim, kernel, next, errors, drift, dexit,                   \* DriftCheck
  does, phase, i, iter, rng_state, cases, failures, swept, any_fail, any_infra, out, rc,
  exit                                                              \* GuestRun

diffVars == <<dpos, stage, disk, natLen, bpfLen, diverge, compared, passed, failed>>
setupVars == <<modules, step, runs, module, clang, ksrc, headers, uml, runner, before>>
trackVars == <<truns, tstep, ok, cached, llvm, checked, results, file, compile_fail, verify_fail,
               noDrift>>
driftVars == <<tree, shim, kernel, next, errors, drift, dexit>>
guestVars == <<does, phase, i, iter, rng_state, cases, failures, swept, any_fail, any_infra, out,
               rc, exit>>

\* Four directories: two complete targets, between them one that diff_all.sh leaves aside
\* and one that diff.sh refuses.
MCKit == <<"complete", "no compute.h", "no flags", "complete">>

Diff == INSTANCE DiffLeg

Script == INSTANCE Setup WITH MaxRuns <- SetupRuns

Track == INSTANCE Tracking WITH
  Target <- Tracked, MaxRuns <- TrackRuns, runs <- truns, step <- tstep

\* A copy that must be exact and an adapted one under another name. Items of a file: two
\* bodies, the first also with other blanks and an inlining attribute that normalize() takes
\* away, and with a missing blank that it does not; prototypes and calls.
MCCopies == <<[shim |-> "bit", kernel |-> "bit", exact |-> TRUE],
              [shim |-> "bloom_hash", kernel |-> "hash", exact |-> FALSE]>>

Define(f, body, before1, before2, tokens) ==
  [kind |-> "definition", fn |-> f, body |-> body,
   tokens |-> <<f>> \o before1 \o <<"(", "(", ")", ")">> \o before2 \o <<"{">> \o tokens \o <<"}">>]

Items(f) ==
  {Define(f, "a", <<>>, <<"blank">>, <<"blank", "a", ";">>),
   Define(f, "a", <<"blank">>, <<"blank", "blank">>, <<"inline", "blank", "a", ";", "blank">>),
   Define(f, "a without a blank", <<>>, <<>>, <<"a", ";">>),
   Define(f, "b", <<>>, <<"blank">>, <<"{", "b", ";", "}", ";">>),
   [kind |-> "prototype", fn |-> f, body |-> "", tokens |-> <<f, "blank", "(", ")", ";">>]}

Caller(f) ==
  [kind |-> "caller", fn |-> f, body |-> "",
   tokens |-> <<"g", "(", ")", "blank", "{", "if", "(", f, "(", "a", ")", ")", "{", "}", "}">>]

Files(items, max) == UNION {[1..n -> items] : n \in 0..max}
ShimItems == Items("bit") \cup Items("bloom_hash") \cup {Caller("bit"), Caller("bloom_hash")}
KernelItems == Items("bit") \cup Items("hash")

MCShimFiles == Files(ShimItems, 2)
MCKernelFiles == Files(KernelItems, 2) \cup {NoFile}

Check == INSTANCE DriftCheck WITH ksrc <- tree, exit <- dexit

\* Two objects; past the four corner pairs of the first iterations the seeds are random.
Guest == INSTANCE GuestRun

ASSUME PartsAssumption ==
  /\ Diff!DiffAssumption /\ Script!SetupAssumption /\ Track!TrackingAssumption
  /\ Check!DriftAssumption /\ Guest!GuestAssumption

\* The initial state in which a part with many of them rests.
DiffRests ==
  /\ dpos = 1 /\ stage = "start" /\ disk = 0 /\ natLen = 0 /\ bpfLen = 0
  /\ diverge = [d \in DOMAIN Kit |-> 0] /\ compared = [d \in DOMAIN Kit |-> 0]
  /\ passed = {} /\ failed = {}
DriftRests ==
  /\ tree = TRUE /\ shim = <<>> /\ kernel = <<>> /\ next = 1 /\ errors = 0 /\ drift = 0
  /\ dexit = Check!Running
GuestRests ==
  /\ does = [o \in 1..NObjects |-> [loads |-> TRUE, dies |-> iters, bad |-> {}]] /\ phase = "start" /\ i = 1
  /\ iter = -1 /\ rng_state = 0 /\ cases = <<>> /\ failures = 0 /\ swept = {}
  /\ any_fail = FALSE /\ any_infra = FALSE /\ out = <<>> /\ rc = -1 /\ exit = -1

PartsInit ==
  /\ part \in {"ci", "diff", "setup", "track", "drift", "guest"}
  /\ Init /\ (part # "ci" => \A r, s \in Ref : head[r] = head[s])
  /\ IF part = "diff" THEN Diff!DiffInit ELSE DiffRests
  /\ Script!Init /\ (part # "setup" => modules)
  /\ Track!Init
  /\ IF part = "drift" THEN Check!Init ELSE DriftRests
  /\ IF part = "guest" THEN Guest!Init ELSE GuestRests

PartsNext ==
  /\ UNCHANGED part
  /\ \/ part = "ci" /\ Next /\ UNCHANGED <<diffVars, setupVars, trackVars, driftVars, guestVars>>
     \/ /\ part = "diff" /\ Diff!DiffNext
        /\ UNCHANGED <<vars, setupVars, trackVars, driftVars, guestVars>>
     \/ /\ part = "setup" /\ Script!Next
        /\ UNCHANGED <<vars, diffVars, trackVars, driftVars, guestVars>>
     \/ /\ part = "track" /\ Track!Next
        /\ UNCHANGED <<vars, diffVars, setupVars, driftVars, guestVars>>
     \/ /\ part = "drift" /\ Check!Next
        /\ UNCHANGED <<vars, diffVars, setupVars, trackVars, guestVars>>
     \/ /\ part = "guest" /\ Guest!Next
        /\ UNCHANGED <<vars, diffVars, setupVars, trackVars, driftVars>>

allVars == <<part, vars, diffVars, setupVars, trackVars, driftVars, guestVars>>

PartsSpec ==
  /\ PartsInit
  /\ [][PartsNext]_allVars
  /\ \A r \in Ref : WF_vars(part = "ci" /\ ServerStep(r))
-----------------------------------------------------------------------------
(* bpf-verify.yml: a job uses the kernel its checkout pins, whatever it restored *)
(* from the cache; a cache hit can build the runner; a green job is one in which *)
(* every step and every userspace harness succeeded.                             *)
JobsSound == TypeOK /\ PinnedKernelUsed /\ HitCanBuildRunner /\ GreenMeansAll

(* diff_all.sh: when the leg ends every target is in exactly one of its lists;   *)
(* one that passed has builds that agree on every iteration compared, and fewer  *)
(* were compared than asked for only on a full disk.                             *)
LegSound == part = "diff" => Diff!EveryTargetTried /\ Diff!PassedAgree

(* setup.sh: a run that says "Setup complete!" leaves whole whatever it did not  *)
(* already find cut short, and running it again undoes nothing that an earlier   *)
(* run has finished, but for the runner while it is linked anew.                 *)
SetupSound == [](part = "setup" => Script!CompleteButForTorn) /\ Script!NothingUndone

(* bpf-verify-tracking.yml: "No drift" is backed by results for every target,    *)
(* and a green run with results names every target that fails, wherever it was   *)
(* cancelled and whatever became of its results file.                            *)
TrackingReports == part = "track" => Track!ClaimBacked /\ Track!GreenNamesFailures

(* check_shim_drift.py: a definition is found exactly where the file has one,    *)
(* and the exit status says whether every copy is still there and the exact ones *)
(* equal.                                                                        *)
DriftFound == part = "drift" => Check!FindsDefinition /\ Check!StatusExact

(* uml-run.sh: status 0 means that every object ran all its iterations without a *)
(* failure, however the guest ended; bpf_runner.c: the failure of an object that *)
(* ran to the end is not hidden by objects that cannot run, the seeds of a case  *)
(* do not depend on the objects before it, and after the corner phase every pair *)
(* of corners has been tried.                                                    *)
GuestTruthful ==
  part = "guest" => /\ Guest!ZeroMeansClean /\ Guest!FailureWins
                    /\ Guest!SeedsReproducible /\ Guest!CornersSwept
=============================================================================
