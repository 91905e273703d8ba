------------------------------ MODULE Tracking -------------------------------
(***************************************************************************)
(* The tracking workflow, .github/workflows/bpf-verify-tracking.yml, and   *)
(* the summary it writes with scripts/summarize_drift.py. It builds        *)
(* against the current bpf-next tip, with a cached LLVM if there is one,   *)
(* runs the pipeline without gating on it and reports what failed. A run   *)
(* can be cancelled in any step; the summary and the upload follow in any  *)
(* case. A pipeline that is cancelled or meets a full disk while it writes *)
(* results.json leaves a torn file, which no longer parses.                *)
(***************************************************************************)
EXTENDS Naturals

CONSTANTS
  Target,   \* targets of the pipeline
  MaxRuns   \* bound: scheduled or manual runs

TrackingAssumption == MaxRuns \in Nat

\* What results.json can say of a target: not compiled, compiled without a verdict
\* (veristat missing, timed out or silent), or a verdict.
Entry == {"not compiled", "no verdict", "success", "failure"}
NoResults == [t \in {} |-> "none"]

VARIABLES
  runs, step, ok,  \* runs started, the step of the latest, no step of it failed
  cached,          \* the toolchain entry of the cache exists
  llvm,            \* llvm-install is in the build directory
  checked,         \* the repository is checked out
  results, file,   \* what the pipeline found; results.json of it: none, torn or whole
  compile_fail, verify_fail, noDrift   \* what the summary says

vars == <<runs, step, ok, cached, llvm, checked, results, file, compile_fail, verify_fail, noDrift>>
summary == <<compile_fail, verify_fail, noDrift>>

Init ==
  /\ runs = 0 /\ step = "done" /\ ok = FALSE /\ cached = FALSE /\ llvm = FALSE /\ checked = FALSE
  /\ results = NoResults /\ file = "none" /\ compile_fail = {} /\ verify_fail = {} /\ noDrift = FALSE

\* A run starts in an empty workspace.
Start ==
  /\ step = "done" /\ runs < MaxRuns
  /\ runs' = runs + 1 /\ step' = "checkout" /\ ok' = TRUE
  /\ llvm' = FALSE /\ checked' = FALSE /\ results' = NoResults /\ file' = "none"
  /\ compile_fail' = {} /\ verify_fail' = {} /\ noDrift' = FALSE
  /\ UNCHANGED cached

\* The steps marked always() are left.
Fails == ok' = FALSE /\ step' = "summarize"

\* A newer run or a person cancels; an always() step that is running goes on, unless the
\* server ends the job for good.
Cancel(forced) ==
  /\ step # "done"
  /\ IF forced THEN ok' = FALSE /\ step' = "done"
     ELSE IF step \in {"summarize", "upload", "post"} THEN ok' = FALSE /\ UNCHANGED step
     ELSE Fails
  /\ UNCHANGED <<runs, cached, llvm, checked, results, file, summary>>

Checkout(done) ==
  /\ step = "checkout"
  /\ IF done THEN checked' = TRUE /\ step' = "cache" /\ UNCHANGED ok ELSE Fails /\ UNCHANGED checked
  /\ UNCHANGED <<runs, cached, llvm, results, file, summary>>

RestoreCache ==
  /\ step = "cache" /\ step' = "build"
  /\ llvm' = cached
  /\ UNCHANGED <<runs, ok, cached, checked, results, file, summary>>

\* --reuse-llvm, on a cache hit: build.sh refuses it without an LLVM to reuse.
ReuseLlvm == cached

\* Packages, build.sh, the check of its artifacts and the steps up to the pipeline.
\* Without the flag build.sh fetches an LLVM.
Build(made) ==
  /\ step = "build"
  /\ IF made /\ (ReuseLlvm => llvm)
     THEN llvm' = TRUE /\ step' = "pipeline" /\ UNCHANGED ok
     ELSE Fails /\ UNCHANGED llvm
  /\ UNCHANGED <<runs, cached, checked, results, file, summary>>

\* continue-on-error: pipeline.py stops before it has results, or has them for all its
\* targets and opens results.json.
RunPipeline(res) ==
  /\ step = "pipeline"
  /\ results' = res
  /\ IF res = NoResults THEN step' = "summarize" /\ UNCHANGED file
                        ELSE step' = "write" /\ file' = "torn"
  /\ UNCHANGED <<runs, ok, cached, llvm, checked, summary>>

WriteResults(room) ==
  /\ step = "write" /\ step' = "summarize"
  /\ file' = IF room THEN "whole" ELSE "torn"
  /\ UNCHANGED <<runs, ok, cached, llvm, checked, results, summary>>

CompileFail(res) == {t \in DOMAIN res : res[t] = "not compiled"}

\* Compiled, with a verdict that is neither missing nor success.
VerifyFail(res) == {t \in DOMAIN res : res[t] = "failure"}

Say(res) ==
  /\ compile_fail' = CompileFail(res) /\ verify_fail' = VerifyFail(res)
  /\ noDrift' = (CompileFail(res) = {} /\ VerifyFail(res) = {})

\* A file that does not parse is taken for one without targets.
SummarizeLenient ==
  /\ step = "summarize" /\ step' = "upload"
  /\ IF checked /\ file # "none" THEN Say(IF file = "torn" THEN NoResults ELSE results)
                                 ELSE UNCHANGED summary
  /\ ok' = (ok /\ checked)
  /\ UNCHANGED <<runs, cached, llvm, checked, results, file>>

\* if: always(). The step fails without its working directory, and json.loads() raises on
\* a torn file; without a file the script says only that there is none.
Summarize ==
  /\ step = "summarize" /\ step' = "upload"
  /\ IF checked /\ file = "whole" THEN Say(results) ELSE UNCHANGED summary
  /\ ok' = (ok /\ checked /\ file # "torn")
  /\ UNCHANGED <<runs, cached, llvm, checked, results, file>>

\* if: always(); missing files are ignored.
Upload(sent) ==
  /\ step = "upload" /\ step' = "post"
  /\ ok' = (ok /\ sent)
  /\ UNCHANGED <<runs, cached, llvm, checked, results, file, summary>>

\* The cache action saves after a job that succeeded.
Post ==
  /\ step = "post" /\ step' = "done"
  /\ cached' = (cached \/ (ok /\ llvm))
  /\ UNCHANGED <<runs, ok, llvm, checked, results, file, summary>>

Next ==
  \/ Start \/ RestoreCache \/ Summarize \/ Post
  \/ \E b \in BOOLEAN : Cancel(b) \/ Checkout(b) \/ Build(b) \/ WriteResults(b) \/ Upload(b)
  \/ \E res \in [Target -> Entry] \cup {NoResults} : RunPipeline(res)

Spec == Init /\ [][Next]_vars
-----------------------------------------------------------------------------
Failing == {t \in DOMAIN results : results[t] \in {"not compiled", "failure"}}

(* "No drift" is said only of a run whose pipeline looked at every target and    *)
(* found each one compiling and none rejected, however the run was cut short. It *)
(* is not said that each target has a verdict.                                   *)
ClaimBacked ==
  noDrift => \A t \in Target : t \in DOMAIN results /\ results[t] \in {"success", "no verdict"}

(* A green run whose pipeline had results names every target that does not       *)
(* compile or is rejected: results it could not write or read make it red.       *)
GreenNamesFailures ==
  step = "done" /\ ok /\ results # NoResults => compile_fail \cup verify_fail = Failing

=============================================================================
