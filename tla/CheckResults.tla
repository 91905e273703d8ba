---------------------------- MODULE CheckResults ----------------------------
(***************************************************************************)
(* The gate of scripts/check_results.py, as operators over the two files   *)
(* it reads: output/results.json (written by pipeline.py) and the          *)
(* committed baseline/results.json.                                        *)
(*                                                                         *)
(* A JSON object keyed by target name is a total function on Target; a     *)
(* target that has no key has compiled = "absent" (results) or             *)
(* listed = FALSE (baseline).  Python's None, and a missing key, are       *)
(* "none" for a verdict and 0 for an instruction count: the script tests   *)
(* the baseline count for truth, so 0 and None are alike to it, and a      *)
(* success row always carries a count.                                     *)
(***************************************************************************)
EXTENDS Integers, FiniteSets

CONSTANTS Target,   \* the names that may appear in targets/ORDER
          Insns     \* instruction counts veristat may report

ASSUME InsnsAssumption == Insns \subseteq Nat /\ 0 \in Insns

Verdicts == {"success", "failure", "none"}

\* What the execution leg recorded: no "execution" key, executed=False,
\* executed=True with a zero / non-zero "failures".
Executions == {"absent", "skipped", "ok", "failed"}

Entry == [compiled : {"absent", "no", "yes"}, verdict : Verdicts, insns : Insns,
          expect : BOOLEAN, matched : BOOLEAN, execution : Executions]

NoEntry == [compiled |-> "absent", verdict |-> "none", insns |-> 0,
            expect |-> FALSE, matched |-> FALSE, execution |-> "absent"]

Results == [exists : BOOLEAN, ran : BOOLEAN, openFailed : BOOLEAN,
            targets : [Target -> Entry]]

NoResults == [exists |-> FALSE, ran |-> FALSE, openFailed |-> FALSE,
              targets |-> [t \in Target |-> NoEntry]]

BaselineEntry == [listed : BOOLEAN, verdict : Verdicts, insns : Insns]

Baseline == [exists : BOOLEAN, targets : [Target -> BaselineEntry]]

NoBaseline ==
  [exists |-> FALSE,
   targets |-> [t \in Target |-> [listed |-> FALSE, verdict |-> "none", insns |-> 0]]]
-----------------------------------------------------------------------------
\* Mutant of VerdictError: only a boundary target's failure is looked at.
VerdictErrorBoundaryOnly(e, ran) ==
  \/ e.compiled = "no"
  \/ /\ e.compiled = "yes"
     /\ \/ ran /\ e.verdict = "none"
        \/ e.expect /\ (e.verdict = "success" \/ (ran /\ ~e.matched))

\* The verifier half of the absolute gates: one if/elif chain per target.
VerdictError(e, ran) ==
  \/ e.compiled = "no"
  \/ /\ e.compiled = "yes"
     /\ \/ ran /\ e.verdict = "none"
        \/ e.expect /\ (e.verdict = "success" \/ (ran /\ ~e.matched))
        \/ ~e.expect /\ ran /\ e.verdict # "success"

\* Mutant of ExecutionError: only a leg that did not run is reported.
ExecutionErrorSkipped(e) == e.execution = "skipped"

\* A fuzzed input violated an asserted property.
ExecutionError(e) == e.execution = "failed"

\* "Failed to open" in veristat's diagnostics is an error of its own.
AbsoluteErrors(res) ==
  \/ \E t \in Target : \/ VerdictError(res.targets[t], res.ran)
                       \/ ExecutionError(res.targets[t])
  \/ res.openFailed

\* t_insns < b_insns * DEGENERATION_RATIO, with DEGENERATION_RATIO = 0.5.
Collapsed(e, b) == b.insns # 0 /\ 2 * e.insns < b.insns

\* Mutant of ComparisonError: a target missing from the results is passed over.
ComparisonErrorIgnoreMissing(e, b) ==
  \/ b.listed /\ e.compiled = "yes" /\ e.verdict = "success" /\ Collapsed(e, b)
  \/ ~b.listed /\ e.compiled # "absent"

ComparisonError(e, b) ==
  \/ b.listed /\ e.compiled = "absent"
  \/ b.listed /\ e.compiled = "yes" /\ e.verdict = "success" /\ Collapsed(e, b)
  \/ ~b.listed /\ e.compiled # "absent"

\* The comparison is skipped, with a warning, when either is missing.
Compared(res, base) == base.exists /\ res.ran

ComparisonErrors(res, base) ==
  /\ Compared(res, base)
  /\ \E t \in Target : ComparisonError(res.targets[t], base.targets[t])

\* main()'s return value without --update-baseline.
GateExit(res, base) ==
  IF AbsoluteErrors(res) \/ ComparisonErrors(res, base) THEN 1 ELSE 0

\* What --update-baseline writes when there are no errors.
UpdatedBaseline(res) ==
  [exists |-> TRUE,
   targets |-> [t \in Target |->
                  [listed |-> res.targets[t].compiled # "absent",
                   verdict |-> res.targets[t].verdict,
                   insns |-> res.targets[t].insns]]]
=============================================================================
