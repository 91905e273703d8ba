-------------------------------- MODULE CiJob --------------------------------
(***************************************************************************)
(* The push-gating workflow, .github/workflows/bpf-verify.yml, on branches *)
(* and pull requests that share one build cache. A push to a ref cancels   *)
(* the run in progress there. A step that fails skips the ones after it,   *)
(* except those marked always(). On a cache miss the job builds            *)
(* uml-veristat against the pinned kernel; the cache action saves the      *)
(* listed paths at the end of a job that succeeded, and an entry is never  *)
(* replaced. The fuzz leg is userspace/run.sh; the pipeline, the gate and  *)
(* the differential leg are steps that succeed or fail (modules Pipeline,  *)
(* CheckResults and DiffLeg), or hang: nothing in the job bounds the guest *)
(* of the differential leg, only the server's limit on a job does.         *)
(***************************************************************************)
EXTENDS Naturals, Sequences, FiniteSets

CONSTANTS
  Ref,        \* branches and pull requests
  Pin,        \* kernel commits KERNEL_PIN may name
  Harness,    \* userspace harnesses, 1..n
  MaxPushes   \* bound: pushes

ASSUME CiAssumption ==
  IsFiniteSet(Harness) /\ Harness = 1..Cardinality(Harness) /\ MaxPushes \in Nat

Essential == {"linux", "veristat", "clang", "Kconfig"}
Artifact == Essential \cup {"bpftool-output", "selftests-output"}

\* Leaves the directory with libbpf.a out.
CachedWithoutLibbpf == Essential

\* The paths of the cache step.
CachedPaths == Essential \cup {"bpftool-output"}

\* What build.sh leaves behind when it stops early, which "|| true" forgives. The
\* kernel tree is there from the start and bpftool is built before the selftests.
BuildResult ==
  {a \in SUBSET Artifact :
     "Kconfig" \in a /\ ("selftests-output" \in a => "bpftool-output" \in a)}

Key(p) == p

StepOrder ==
  <<"checkout", "free", "cache", "libs", "deps", "pin", "build", "verify", "artifacts", "drift",
    "runner", "clang", "pipeline", "gate", "fuzz", "diff", "report", "uploads">>

StepName == {StepOrder[i] : i \in DOMAIN StepOrder}

\* Steps with "if: cache-hit != 'true'".
MissOnly == {"deps", "pin", "build"}

\* Steps whose outcome nothing in the job's state decides.
Plain ==
  {"free", "libs", "deps", "verify", "artifacts", "drift", "clang", "pipeline", "gate", "diff"}

\* Steps with "if: always()", and the cache action's own last step.
Always == {"report", "uploads", "post"}

VARIABLES
  head,      \* per ref: KERNEL_PIN at its tip
  pushes,    \* pushes so far
  waiting,   \* refs with a run queued behind the one being cancelled
  cache,     \* saved entries: key -> [pin, paths]
  job        \* per ref: its latest run

vars == <<head, pushes, waiting, cache, job>>

NoEntry == [pin |-> "none", paths |-> {}]

\* at: the step it is at; ok: no step failed, not cancelled; pin: the checked-out
\* KERNEL_PIN; hit, tree, treePin: the build it uses; next, fail: run.sh's loop;
\* dirty: ghost, harnesses that did not end clean; passed: ghost, steps that
\* succeeded; reported: the summary step ran in the checked-out directory.
Idle ==
  [at |-> "done", ok |-> FALSE, pin |-> "none", hit |-> FALSE, tree |-> {},
   treePin |-> "none", next |-> 1, fail |-> FALSE, dirty |-> {}, passed |-> {},
   reported |-> TRUE]

Init ==
  /\ head \in [Ref -> Pin] /\ pushes = 0 /\ waiting = {}
  /\ cache = [k \in Pin |-> NoEntry]
  /\ job = [r \in Ref |-> Idle]

At(r, s) == job[r].at = s

\* The step after s, for a job that hit the cache or not.
Following(s, hit) ==
  LET i == CHOOSE n \in DOMAIN StepOrder : StepOrder[n] = s
      later == {n \in DOMAIN StepOrder : n > i /\ ~(hit /\ StepOrder[n] \in MissOnly)}
  IN StepOrder[CHOOSE n \in later : \A k \in later : n <= k]

\* Job r ends step s well, with the changes of j.
Succeed(r, s, j) ==
  job' = [job EXCEPT ![r] =
            [j EXCEPT !.at = Following(s, j.hit), !.passed = @ \cup {s}]]

FailedReportsNothing(r) ==
  job' = [job EXCEPT ![r].ok = FALSE, ![r].at = "done"]

\* A step fails: the job goes on with its always() steps.
Failed(r) == job' = [job EXCEPT ![r].ok = FALSE, ![r].at = "report"]

\* The run is cancelled: an always() step that is running goes on.
Cancelled(r) ==
  IF job[r].at \in Always THEN job' = [job EXCEPT ![r].ok = FALSE] ELSE Failed(r)

\* The server cancels a job that has run for too long.
JobLimit(r) ==
  /\ job[r].at \notin Always \cup {"done"}
  /\ Cancelled(r)
  /\ UNCHANGED <<head, pushes, waiting, cache>>

\* A push starts a run, after the one in progress has been cancelled.
Push(r, p) ==
  /\ pushes < MaxPushes
  /\ pushes' = pushes + 1
  /\ head' = [head EXCEPT ![r] = p]
  /\ waiting' = waiting \cup {r}
  /\ IF At(r, "done") THEN UNCHANGED job ELSE Cancelled(r)
  /\ UNCHANGED cache

Start(r) ==
  /\ r \in waiting /\ At(r, "done")
  /\ waiting' = waiting \ {r}
  /\ job' = [job EXCEPT ![r] = [Idle EXCEPT !.at = "checkout", !.ok = TRUE, !.reported = FALSE]]
  /\ UNCHANGED <<head, pushes, cache>>

Checkout(r, ok) ==
  /\ At(r, "checkout")
  /\ IF ok THEN Succeed(r, "checkout", [job[r] EXCEPT !.pin = head[r]]) ELSE Failed(r)
  /\ UNCHANGED <<head, pushes, waiting, cache>>

RestoreCache(r) ==
  /\ At(r, "cache")
  /\ LET e == cache[Key(job[r].pin)] IN
       Succeed(r, "cache",
         IF e = NoEntry THEN job[r]
         ELSE [job[r] EXCEPT !.hit = TRUE, !.tree = e.paths, !.treePin = e.pin])
  /\ UNCHANGED <<head, pushes, waiting, cache>>

PlainStep(r, s, ok) ==
  /\ At(r, s)
  /\ IF ok THEN Succeed(r, s, job[r]) ELSE Failed(r)
  /\ UNCHANGED <<head, pushes, waiting, cache>>

\* The tree of the pinned commit is downloaded and extracted, or curl fails.
PinKernel(r, ok) ==
  /\ At(r, "pin")
  /\ IF ok THEN Succeed(r, "pin", [job[r] EXCEPT !.tree = {"Kconfig"}, !.treePin = job[r].pin])
           ELSE Failed(r)
  /\ UNCHANGED <<head, pushes, waiting, cache>>

Build(r, made) ==
  /\ At(r, "build")
  /\ IF Essential \subseteq made THEN Succeed(r, "build", [job[r] EXCEPT !.tree = made])
                                 ELSE Failed(r)
  /\ UNCHANGED <<head, pushes, waiting, cache>>

\* build_runner.sh: without a libbpf in the tree it tries the system's, which no
\* step installs.
BuildRunner(r) ==
  /\ At(r, "runner")
  /\ IF job[r].tree \cap {"bpftool-output", "selftests-output"} # {}
     THEN Succeed(r, "runner", job[r])
     ELSE Failed(r)
  /\ UNCHANGED <<head, pushes, waiting, cache>>

\* run.sh's "fail" after a harness that was missing, did not build, crashed or
\* reported failures, or that was clean.
HarnessFail(r, clean) == job[r].fail \/ ~clean

FuzzHarness(r, clean) ==
  /\ At(r, "fuzz") /\ job[r].next \in Harness
  /\ job' = [job EXCEPT ![r] =
               [job[r] EXCEPT !.next = @ + 1, !.fail = HarnessFail(r, clean),
                              !.dirty = IF clean THEN @ ELSE @ \cup {job[r].next}]]
  /\ UNCHANGED <<head, pushes, waiting, cache>>

FuzzExit(r) ==
  /\ At(r, "fuzz") /\ job[r].next \notin Harness
  /\ IF job[r].fail THEN Failed(r) ELSE Succeed(r, "fuzz", job[r])
  /\ UNCHANGED <<head, pushes, waiting, cache>>

\* if: always(). It does not start without its working directory, which a checkout that
\* did not succeed may not have made; and it may fail (results.txt missing).
Report(r, there, ok) ==
  /\ At(r, "report") /\ ("checkout" \in job[r].passed => there)
  /\ job' = [job EXCEPT ![r] = [job[r] EXCEPT !.at = "uploads", !.ok = @ /\ there /\ ok,
                                             !.reported = there]]
  /\ UNCHANGED <<head, pushes, waiting, cache>>

\* The two uploads, if: always(); missing files are ignored.
Upload(r, sent) ==
  /\ At(r, "uploads")
  /\ job' = [job EXCEPT ![r] = [job[r] EXCEPT !.at = "post", !.ok = @ /\ sent]]
  /\ UNCHANGED <<head, pushes, waiting, cache>>

\* The cache action's post step saves after a job that succeeded on a miss.
MaySave(r) == job[r].ok /\ ~job[r].hit

Post(r) ==
  /\ At(r, "post")
  /\ cache' = IF MaySave(r) /\ cache[Key(job[r].pin)] = NoEntry
              THEN [cache EXCEPT ![Key(job[r].pin)] =
                      [pin |-> job[r].treePin, paths |-> job[r].tree \cap CachedPaths]]
              ELSE cache
  /\ job' = [job EXCEPT ![r].at = "done"]
  /\ UNCHANGED <<head, pushes, waiting>>

\* A step of the run of r whose commands may take any time.
WorkStep(r) ==
  \/ RestoreCache(r) \/ BuildRunner(r) \/ FuzzExit(r)
  \/ \E made \in BuildResult : Build(r, made)
  \/ \E ok \in BOOLEAN :
       \/ Checkout(r, ok) \/ PinKernel(r, ok) \/ FuzzHarness(r, ok)
       \/ \E s \in Plain : PlainStep(r, s, ok)

\* What the server sees to, and the short steps it lets run after a cancellation.
ServerStep(r) ==
  \/ Start(r) \/ JobLimit(r) \/ Post(r)
  \/ \E ok \in BOOLEAN : Upload(r, ok) \/ \E there \in BOOLEAN : Report(r, there, ok)

Next == \E r \in Ref : WorkStep(r) \/ ServerStep(r) \/ \E p \in Pin : Push(r, p)

Spec == Init /\ [][Next]_vars /\ \A r \in Ref : WF_vars(ServerStep(r))
-----------------------------------------------------------------------------
TypeOK ==
  /\ head \in [Ref -> Pin] /\ pushes \in 0..MaxPushes /\ waiting \subseteq Ref
  /\ \A k \in Pin : cache[k].pin \in Pin \cup {"none"} /\ cache[k].paths \subseteq CachedPaths
  /\ \A r \in Ref :
       /\ job[r].at \in StepName \cup {"post", "done"}
       /\ {job[r].ok, job[r].hit, job[r].fail, job[r].reported} \subseteq BOOLEAN
       /\ {job[r].pin, job[r].treePin} \subseteq Pin \cup {"none"}
       /\ job[r].tree \subseteq Artifact /\ job[r].passed \subseteq StepName
       /\ job[r].next \in 1..(Cardinality(Harness) + 1) /\ job[r].dirty \subseteq Harness

(* "Reproducible": the results of a job come from the kernel that its own      *)
(* KERNEL_PIN names, whichever jobs filled the cache before it.                 *)
PinnedKernelUsed ==
  \A r \in Ref : "runner" \in job[r].passed => job[r].treePin = job[r].pin

(* A job that hit the cache finds in it what build_runner.sh links against,     *)
(* although the check of the build does not look for it.                        *)
HitCanBuildRunner ==
  \A r \in Ref : job[r].hit => Essential \cup {"bpftool-output"} \subseteq job[r].tree

(* A green job ran every harness, all of them clean, and the pipeline, the gate *)
(* and the differential leg after the tools they need.                          *)
GreenMeansAll ==
  \A r \in Ref : At(r, "done") /\ job[r].ok =>
    /\ job[r].dirty = {} /\ job[r].next = Cardinality(Harness) + 1
    /\ {"drift", "runner", "pipeline", "gate", "fuzz", "diff"} \subseteq job[r].passed

(* Every run that starts ends, and unless its checkout did not succeed it       *)
(* writes its summary first, also when a step fails or hangs or a push cancels  *)
(* the run.                                                                     *)
ReportAlwaysWritten ==
  \A r \in Ref :
    At(r, "checkout") ~> (At(r, "done") /\ (job[r].reported \/ "checkout" \notin job[r].passed))
=============================================================================
