------------------------------ MODULE Pipeline ------------------------------
(***************************************************************************)
(* pipeline.py and the CI job around it: compile every selected target,    *)
(* verify the objects with veristat in batches, fuzz-execute the verified  *)
(* ones in the UML guest (tools/bpf_runner.c), write output/results.json,  *)
(* then gate it with scripts/check_results.py against the committed        *)
(* baseline.  A developer runs the same two programs by hand, on a         *)
(* workspace where results.json survives from run to run, and is the one   *)
(* who refreshes the baseline.                                             *)
(*                                                                         *)
(* clang, veristat and the UML guest are the environment: every outcome    *)
(* the Python code distinguishes is a nondeterministic choice.  The ghost  *)
(* variables tries, seen and fuzz record what really happened in the       *)
(* current run, for the properties to compare with what the files say.     *)
(***************************************************************************)
EXTENDS CheckResults, Sequences

CONSTANTS SuiteArgs,  \* the --suite words a developer may give, in order
          Order,      \* the lines targets/ORDER may have, in file order
          Cfg,        \* target.json and harness.c of each target, see CfgType
          BatchSize,  \* BPF_VERISTAT_BATCH
          MaxRuns     \* bound: pipeline runs in one behaviour

Suites == {"compat", "coverage", "proof"}

CfgType == [pinned : Suites \cup {"none"}, proveName : BOOLEAN, proveBody : BOOLEAN,
            customBody : BOOLEAN, execute : BOOLEAN, expect : BOOLEAN]

ASSUME PipelineAssumption ==
  /\ Order \in Seq(Target)
  /\ \A i, j \in DOMAIN Order : Order[i] = Order[j] => i = j
  /\ \A t \in Target : \E i \in DOMAIN Order : Order[i] = t
  /\ Cfg \in [Target -> CfgType]
  /\ BatchSize \in Nat \ {0}
  /\ MaxRuns \in Nat

VARIABLES
  pc,           \* where main() is
  ci,           \* this run is the CI job's (fresh workspace), not a developer's
  opts,         \* mode, the selected targets present in ORDER, the tools found
  next,         \* index into Order (Phase 1) or into compiledOk (Phases 2 and 3)
  compiledOk,   \* compiled_ok
  compiledFail, \* compiled_fail
  ran, rc, openFailed, rows,   \* what run_veristat returns
  lines,        \* bpf_runner's output, one JSON line per object
  execResults,  \* exec_results
  exit,         \* the process's exit status
  results,      \* output/results.json
  baseline,     \* baseline/results.json
  job,          \* the CI job: "none", "running", "green", "red"
  run,          \* number of runs started
  tries, seen, fuzz   \* ghosts: submissions, rows and fuzzing of this run

jobVars == <<ci, job, run, opts>>
compileVars == <<compiledOk, compiledFail>>
verifyVars == <<ran, rc, openFailed, rows, tries, seen>>
execVars == <<lines, execResults, fuzz>>
fileVars == <<results, baseline>>
vars == <<pc, next, exit, jobVars, compileVars, verifyVars, execVars, fileVars>>
-----------------------------------------------------------------------------
\* rows.get(file, {"verdict": None})
NoRow == [verdict |-> "none", insns |-> 0]

Rows == [verdict : {"success", "failure"}, insns : Insns] \cup {NoRow}

\* The part of a runner line that run_execution() reads.  "none" is no line.
\* A run cut short by a failing map update or test_run prints "loaded":true
\* and "error", and no "failures" key; a finished one prints "failures".
Lines == {"none", "notLoaded", "loadedCut", "loadedClean", "loadedFailures"}

\* Ghost: what the fuzzing of one object really showed.
Fuzz == {"none", "clean", "failed", "cutClean", "cutFailed"}

Modes == {"full", "compileOnly", "list"}

ClassifySuite(c) ==
  IF c.proveName \/ c.proveBody THEN "proof"
  ELSE IF c.customBody THEN "coverage" ELSE "compat"

\* load_target(): an explicit "suite" wins.
SuiteOf(t) == IF Cfg[t].pinned # "none" THEN Cfg[t].pinned ELSE ClassifySuite(Cfg[t])

\* parse_suite_selection(): the first "all" or unknown word decides; {} stands
\* for SystemExit.
ParseSuiteSelection(words) ==
  LET stops == {i \in DOMAIN words : words[i] \notin Suites}
      named == {words[i] : i \in DOMAIN words}
  IN  IF \E i \in stops : words[i] = "all" /\ \A j \in stops : i <= j THEN Suites
      ELSE IF stops # {} THEN {}
      ELSE IF named = {} THEN Suites ELSE named

\* exec_objs: verified objects that opt in.
Executes(t) == Cfg[t].execute /\ rows[t].verdict = "success"

\* Mutant of Batch: the slice's upper bound taken as inclusive.
BatchInclusive(i) ==
  {compiledOk[j] : j \in {k \in DOMAIN compiledOk : i <= k /\ k <= i + BatchSize}}

\* The batch of run_veristat() that starts at index i.
Batch(i) ==
  {compiledOk[j] : j \in {k \in DOMAIN compiledOk : i <= k /\ k < i + BatchSize}}

\* Ghost: the objects of the current batch have been handed to veristat.
Submitted == [t \in Target |-> IF t \in Batch(next) THEN tries[t] + 1 ELSE tries[t]]

\* Mutant of ParseLine: without setdefault(), an object without a line has no
\* result.
ParseLineNoDefault(l) ==
  CASE l = "none"                          -> "absent"
    [] l = "notLoaded"                     -> "skipped"
    [] l \in {"loadedCut", "loadedClean"}  -> "ok"
    [] l = "loadedFailures"                -> "failed"

\* run_execution()'s reading of one line.
ParseLine(l) ==
  CASE l \in {"none", "notLoaded"}         -> "skipped"
    [] l \in {"loadedCut", "loadedClean"}  -> "ok"
    [] l = "loadedFailures"                -> "failed"

EmptyRun(mode, selected, tools) ==
  /\ opts' = [mode |-> mode, targets |-> selected, tools |-> tools]
  /\ next' = 1
  /\ compiledOk' = <<>>
  /\ compiledFail' = {}
  /\ ran' = FALSE /\ rc' = 0 /\ openFailed' = FALSE
  /\ rows' = [t \in Target |-> NoRow]
  /\ lines' = [t \in Target |-> "none"]
  /\ execResults' = [t \in Target |-> "absent"]
  /\ tries' = [t \in Target |-> 0]
  /\ seen' = [t \in Target |-> NoRow]
  /\ fuzz' = [t \in Target |-> "none"]

\* The process ends with status s.
Exit(s) ==
  /\ pc' = "done"
  /\ exit' = s
-----------------------------------------------------------------------------
\* main() up to Phase 1.  present is what targets/ORDER lists at this commit.
\* A directory that ORDER lists and is not there, or an unknown --suite word,
\* ends the run before anything is built.
Start(mode, words, present, dirsOk, tools) ==
  LET suites == ParseSuiteSelection(words) IN
  /\ pc \in {"idle", "done"}
  /\ job # "running"
  /\ run < MaxRuns
  /\ run' = run + 1
  /\ EmptyRun(mode, {t \in present : SuiteOf(t) \in suites}, tools)
  /\ \/ /\ suites = {} \/ ~dirsOk
        /\ Exit(1)
     \/ /\ suites # {} /\ dirsOk
        /\ mode = "list"
        /\ Exit(0)
     \/ /\ suites # {} /\ dirsOk
        /\ mode # "list"
        /\ pc' = "compile" /\ exit' = 0
  /\ UNCHANGED baseline

\* A developer's run: results.json of an earlier run stays where it is.
DevStart(mode, words, present, dirsOk, tools) ==
  /\ Start(mode, words, present, dirsOk, tools)
  /\ ci' = FALSE
  /\ job' = "none"
  /\ UNCHANGED results

\* The CI job: a fresh checkout, `python3 pipeline.py` with no option.
CiStart(present, dirsOk, tools) ==
  /\ Start("full", <<>>, present, dirsOk, tools)
  /\ ci' = TRUE
  /\ job' = "running"
  /\ results' = NoResults
-----------------------------------------------------------------------------
(* Phase 1: one iteration of the loop over targets. *)

\* Mutant of Compiling: the loop misses the last line of ORDER.
CompilingOffByOne(t) == pc = "compile" /\ next < Len(Order) /\ t = Order[next]

Compiling(t) == pc = "compile" /\ next \in DOMAIN Order /\ t = Order[next]

\* Not listed, not selected, no "src", or the kernel source is not found.
CompileSkip(t) ==
  /\ Compiling(t)
  /\ next' = next + 1
  /\ UNCHANGED <<pc, exit, jobVars, compileVars, verifyVars, execVars, fileVars>>

CompileOk(t) ==
  /\ Compiling(t)
  /\ t \in opts.targets
  /\ compiledOk' = Append(compiledOk, t)
  /\ next' = next + 1
  /\ UNCHANGED <<pc, exit, compiledFail, jobVars, verifyVars, execVars, fileVars>>

CompileFail(t) ==
  /\ Compiling(t)
  /\ t \in opts.targets
  /\ compiledFail' = compiledFail \cup {t}
  /\ next' = next + 1
  /\ UNCHANGED <<pc, exit, compiledOk, jobVars, verifyVars, execVars, fileVars>>

\* subprocess.run(timeout=60) of clang: nothing catches TimeoutExpired.
CompileTimeout(t) ==
  /\ Compiling(t)
  /\ t \in opts.targets
  /\ Exit(1)
  /\ UNCHANGED <<next, jobVars, compileVars, verifyVars, execVars, fileVars>>

\* After the loop: nothing compiled, --compile-only, or on to veristat.
CompileEnd ==
  /\ pc = "compile"
  /\ next > Len(Order)
  /\ \/ /\ compiledOk = <<>>
        /\ Exit(1)
        /\ UNCHANGED <<next, ran>>
     \/ /\ compiledOk # <<>> /\ opts.mode = "compileOnly"
        /\ Exit(0)
        /\ UNCHANGED <<next, ran>>
     \/ /\ compiledOk # <<>> /\ opts.mode = "full"
        /\ pc' = IF opts.tools.veristat THEN "verify" ELSE "execute"
        /\ ran' = opts.tools.veristat
        /\ next' = 1
        /\ UNCHANGED exit
  /\ UNCHANGED <<rc, openFailed, rows, tries, seen, jobVars, compileVars, execVars, fileVars>>
-----------------------------------------------------------------------------
(* Phase 2: one iteration of run_veristat()'s loop over the batches. *)

Verifying == pc = "verify" /\ next <= Len(compiledOk)

\* veristat answers: rows for some of the batch's objects, a status, and
\* "Failed to open" for objects that have none.
BatchAnswered(answer, status, unopened) ==
  /\ Verifying
  /\ unopened => \E t \in Batch(next) : answer[t] = NoRow
  /\ rows' = [t \in Target |-> IF t \in Batch(next) /\ answer[t] # NoRow
                               THEN answer[t] ELSE rows[t]]
  /\ seen' = [t \in Target |-> IF t \in Batch(next) THEN answer[t] ELSE seen[t]]
  /\ tries' = Submitted
  /\ openFailed' = (openFailed \/ unopened)
  /\ rc' = IF rc # 0 THEN rc ELSE status
  /\ next' = next + BatchSize
  /\ UNCHANGED <<pc, exit, ran, jobVars, compileVars, execVars, fileVars>>

\* The batch's 600 s are over: its objects get no verdict.
BatchTimeout ==
  /\ Verifying
  /\ rc' = IF rc # 0 THEN rc ELSE 1
  /\ tries' = Submitted
  /\ next' = next + BatchSize
  /\ UNCHANGED <<pc, exit, ran, openFailed, rows, seen, jobVars, compileVars, execVars, fileVars>>

\* veristat cannot be started (FileNotFoundError): run_veristat() returns
\* (False, 0, {}, ...) whatever the earlier batches said.
VeristatVanishes ==
  /\ Verifying
  /\ ran' = FALSE /\ rc' = 0 /\ openFailed' = FALSE
  /\ rows' = [t \in Target |-> NoRow]
  /\ pc' = "execute"
  /\ next' = 1
  /\ UNCHANGED <<exit, tries, seen, jobVars, compileVars, execVars, fileVars>>

VerifyEnd ==
  /\ pc = "verify"
  /\ next > Len(compiledOk)
  /\ pc' = "execute"
  /\ next' = 1
  /\ UNCHANGED <<exit, jobVars, compileVars, verifyVars, execVars, fileVars>>
-----------------------------------------------------------------------------
(* Phase 3: bpf_runner in the UML guest, one object after the other. *)

Running(t) ==
  /\ pc = "execute"
  /\ opts.tools.runner
  /\ next \in DOMAIN compiledOk
  /\ t = compiledOk[next]

RunSkip(t) ==
  /\ Running(t)
  /\ ~Executes(t)
  /\ next' = next + 1
  /\ UNCHANGED <<pc, exit, jobVars, compileVars, verifyVars, execVars, fileVars>>

\* run_object(): its line and what the iterations it completed have shown.
RunObject(t, line, shown) ==
  /\ Running(t)
  /\ Executes(t)
  /\ <<line, shown>> \in {<<"notLoaded", "none">>, <<"loadedClean", "clean">>,
                          <<"loadedFailures", "failed">>,
                          <<"loadedCut", "cutClean">>, <<"loadedCut", "cutFailed">>}
  /\ lines' = [lines EXCEPT ![t] = line]
  /\ fuzz' = [fuzz EXCEPT ![t] = shown]
  /\ next' = next + 1
  /\ UNCHANGED <<pc, exit, execResults, jobVars, compileVars, verifyVars, fileVars>>

\* The guest dies, or all objects are done: the lines printed are parsed, and
\* every object asked for gets a result.
RunEnd ==
  /\ pc = "execute"
  /\ execResults' = [t \in Target |->
                       IF /\ opts.tools.runner /\ Executes(t)
                          /\ \E i \in DOMAIN compiledOk : compiledOk[i] = t
                       THEN ParseLine(lines[t]) ELSE "absent"]
  /\ pc' = "record"
  /\ UNCHANGED <<next, exit, lines, fuzz, jobVars, compileVars, verifyVars, fileVars>>

\* The 1200 s are over: what the runner had printed is dropped.
RunTimeout ==
  /\ pc = "execute"
  /\ opts.tools.runner
  /\ \E i \in DOMAIN compiledOk : Executes(compiledOk[i])
  /\ execResults' = [t \in Target |->
                       IF /\ Executes(t)
                          /\ \E i \in DOMAIN compiledOk : compiledOk[i] = t
                       THEN "skipped" ELSE "absent"]
  /\ lines' = [t \in Target |-> "none"]
  /\ pc' = "record"
  /\ UNCHANGED <<next, exit, fuzz, jobVars, compileVars, verifyVars, fileVars>>
-----------------------------------------------------------------------------
\* The entry of one target in results.json; logs is the set of boundary
\* targets whose captured verifier log holds the expected diagnostic.
ResultEntry(t, logs) ==
  IF \E i \in DOMAIN compiledOk : compiledOk[i] = t
  THEN [compiled |-> "yes", verdict |-> rows[t].verdict, insns |-> rows[t].insns,
        expect |-> Cfg[t].expect,
        matched |-> Cfg[t].expect /\ ran /\ rows[t].verdict = "failure" /\ t \in logs,
        execution |-> execResults[t]]
  ELSE IF t \in compiledFail THEN [NoEntry EXCEPT !.compiled = "no"]
  ELSE NoEntry

\* The end of main(): write results.json, leave with veristat's status.
Record(logs) ==
  /\ pc = "record"
  /\ results' = [exists |-> TRUE, ran |-> ran, openFailed |-> openFailed,
                 targets |-> [t \in Target |-> ResultEntry(t, logs)]]
  /\ Exit(rc)
  /\ UNCHANGED <<next, baseline, jobVars, compileVars, verifyVars, execVars>>

\* The workflow: the gate step runs only if the pipeline step left with 0.
CiGate ==
  /\ ci /\ job = "running" /\ pc = "done"
  /\ job' = IF exit = 0 /\ results.exists /\ GateExit(results, baseline) = 0
            THEN "green" ELSE "red"
  /\ UNCHANGED <<pc, next, exit, ci, run, opts, compileVars, verifyVars, execVars, fileVars>>

\* check_results.py --update-baseline, by hand, on whatever results.json the
\* workspace (or the CI job's artifact) holds.
UpdateBaseline ==
  /\ pc = "done" /\ job # "running"
  /\ results.exists
  /\ ~AbsoluteErrors(results)
  /\ baseline' = UpdatedBaseline(results)
  /\ UNCHANGED <<pc, next, exit, results, jobVars, compileVars, verifyVars, execVars>>
-----------------------------------------------------------------------------
Init ==
  /\ pc = "idle" /\ next = 1 /\ exit = 0
  /\ ci = FALSE /\ job = "none" /\ run = 0
  /\ opts = [mode |-> "full", targets |-> {}, tools |-> [veristat |-> FALSE, runner |-> FALSE]]
  /\ compiledOk = <<>> /\ compiledFail = {}
  /\ ran = FALSE /\ rc = 0 /\ openFailed = FALSE
  /\ rows = [t \in Target |-> NoRow]
  /\ tries = [t \in Target |-> 0]
  /\ seen = [t \in Target |-> NoRow]
  /\ lines = [t \in Target |-> "none"]
  /\ execResults = [t \in Target |-> "absent"]
  /\ fuzz = [t \in Target |-> "none"]
  /\ results = NoResults
  /\ baseline = NoBaseline

Tools == [veristat : BOOLEAN, runner : BOOLEAN]

\* A step of the pipeline process or of the CI runner: all of them are
\* subprocess calls under a timeout, or plain computation.
Step ==
  \/ \E t \in Target : \/ CompileSkip(t) \/ CompileOk(t) \/ CompileFail(t)
                        \/ CompileTimeout(t)
  \/ CompileEnd
  \/ \E answer \in [Batch(next) -> Rows], status \in {0, 1}, unopened \in BOOLEAN :
        BatchAnswered(answer, status, unopened)
  \/ BatchTimeout
  \/ VeristatVanishes
  \/ VerifyEnd
  \/ \E t \in Target : RunSkip(t)
  \/ \E t \in Target, line \in Lines, shown \in Fuzz : RunObject(t, line, shown)
  \/ RunEnd
  \/ RunTimeout
  \/ \E logs \in SUBSET {t \in Target : Cfg[t].expect} : Record(logs)
  \/ CiGate

Next ==
  \/ \E mode \in Modes, words \in SuiteArgs, present \in SUBSET Target,
        dirsOk \in BOOLEAN, tools \in Tools : DevStart(mode, words, present, dirsOk, tools)
  \/ \E present \in SUBSET Target, dirsOk \in BOOLEAN, tools \in Tools :
        CiStart(present, dirsOk, tools)
  \/ Step
  \/ UpdateBaseline

Spec == Init /\ [][Next]_vars /\ WF_vars(Step)
-----------------------------------------------------------------------------
\* main()'s variables and the two files hold only values that their readers in
\* run_execution() and check_results.py know how to tell apart.
TypeOK ==
  /\ pc \in {"idle", "compile", "verify", "execute", "record", "done"}
  /\ next \in Nat \ {0}
  /\ exit \in {0, 1}
  /\ ci \in BOOLEAN
  /\ job \in {"none", "running", "green", "red"}
  /\ run \in 0..MaxRuns
  /\ opts \in [mode : Modes, targets : SUBSET Target, tools : Tools]
  /\ compiledOk \in Seq(Target)
  /\ compiledFail \in SUBSET Target
  /\ ran \in BOOLEAN
  /\ rc \in {0, 1}
  /\ openFailed \in BOOLEAN
  /\ rows \in [Target -> Rows]
  /\ tries \in [Target -> Nat]
  /\ seen \in [Target -> Rows]
  /\ lines \in [Target -> Lines]
  /\ execResults \in [Target -> Executions]
  /\ fuzz \in [Target -> Fuzz]
  /\ results \in Results
  /\ baseline \in Baseline

Compiled(t) == \E i \in DOMAIN compiledOk : compiledOk[i] = t

\* run_veristat()'s slicing hands every compiled object to veristat exactly
\* once, and nothing else, whatever BPF_VERISTAT_BATCH and the number of
\* objects are (a last, shorter batch included).
EachObjectSubmittedOnce ==
  pc = "execute" /\ ran =>
    \A t \in Target : tries[t] = IF Compiled(t) THEN 1 ELSE 0

\* What the verifier said of t in this run is what the target documents, and
\* the program has not collapsed against baseline entry b.
HoldsUp(t, b) ==
  /\ Compiled(t)
  /\ seen[t].verdict = IF Cfg[t].expect THEN "failure" ELSE "success"
  /\ seen[t].verdict = "success" => ~Collapsed(seen[t], b)

GreenOnlyIfVerified ==
  job = "running" /\ job' = "green" /\ ran /\ baseline.exists =>
    \A t \in Target : baseline.targets[t].listed => HoldsUp(t, baseline.targets[t])

\* A CI job that ran veristat and turned green has seen, in this very run, every
\* target of the baseline get its documented verdict, uncollapsed: no
\* disappeared target, timed-out batch, unopened object or regression is green.
GreenMeansVerified == [][GreenOnlyIfVerified]_vars

\* The inductive invariant behind EachObjectSubmittedOnce: what has been submitted
\* half-way through the loops.
SubmissionInv ==
  /\ \A i, j \in DOMAIN compiledOk : compiledOk[i] = compiledOk[j] => i = j
  /\ pc = "compile" =>
       /\ \A i \in DOMAIN compiledOk :
            \E k \in DOMAIN Order : k < next /\ Order[k] = compiledOk[i]
       /\ ~ran /\ \A t \in Target : tries[t] = 0
  /\ pc = "verify" =>
       \A t \in Target : tries[t] = IF \E i \in DOMAIN compiledOk : i < next /\ compiledOk[i] = t
                                    THEN 1 ELSE 0
  /\ EachObjectSubmittedOnce

\* Every object handed to the guest is accounted for: when results.json is
\* written, a target has an execution result exactly if it opts in and was
\* verified in this run and there is a runner, also if the guest died before its
\* turn or the 1200 s were over; and one recorded as executed was really loaded.
AskedIsAccounted ==
  [][results' # results =>
       \A t \in Target : LET e == results'.targets[t] IN
         /\ e.execution # "absent" <=>
              opts.tools.runner /\ Cfg[t].execute /\ e.verdict = "success"
         /\ e.execution \in {"ok", "failed"} => fuzz[t] # "none"]_vars

\* A property failure whose line reached run_execution() turns the job red.
FuzzFailureMeansRed ==
  [][job = "running" /\ job' = "green" => \A t \in Target : lines[t] # "loadedFailures"]_vars

\* A baseline refreshed from a run in which veristat ran records, for every
\* target, the documented verdict: a regression is never adopted.
RegressionNeverAdopted ==
  [][baseline' # baseline /\ results.ran =>
       \A t \in Target : baseline'.targets[t].listed =>
          baseline'.targets[t].verdict = IF Cfg[t].expect THEN "failure" ELSE "success"]_vars

\* Every CI job is decided: no sequence of timeouts, dead guests and missing
\* tools leaves the pipeline inside one of its loops.
JobDecided == job = "running" ~> job \in {"green", "red"}
-----------------------------------------------------------------------------
(* What the documentation says and the code does not do. *)

\* run_execution(): "A result has executed=True with iters/failures on success,
\* or executed=False with an error otherwise."
ExecutedMeansFinished ==
  pc = "record" => \A t \in Target :
    execResults[t] \in {"ok", "failed"} => fuzz[t] \in {"clean", "failed"}

\* README.md: "CI gates every run against the committed per-target baseline".
GreenMeansCompared ==
  [][job = "running" /\ job' = "green" /\ baseline.exists => Compared(results, baseline)]_vars

\* baseline/README.md: the baseline records, "for every target, the expected
\* verifier verdict and instruction/state counts".
BaselineHasVerdicts ==
  \A t \in Target : baseline.targets[t].listed => baseline.targets[t].verdict # "none"
=============================================================================
